---------------------------- MODULE LtranInstance ----------------------------
(***************************************************************************)
(* Registration and logout of client processes in ltran: the control       *)
(* thread (src/ltran/ltran_monitor.c, ltran_instance.c, ltran_stack.c)     *)
(* against the two threads that forward packets without taking any lock    *)
(* (src/ltran/ltran_forward.c).                                            *)
(*                                                                         *)
(* What protects the forward threads is a tick per slot (an entry is on    *)
(* while the tick it remembers is the current one) and wait_forward_done,  *)
(* which lets each of them finish a pass before memory is given back.      *)
(* An instance is named by the connection that registered it, a struct     *)
(* gazelle_stack by its instance and thread.  epoll_wait may report        *)
(* connections in any order.                                               *)
(***************************************************************************)
EXTENDS Naturals, FiniteSets

CONSTANTS
  Proc,          \* client processes, by pid
  Thread,        \* stack threads of a process
  Conn,          \* bound: long-lived control connections ever made
  None,
  SlotNum,       \* GAZELLE_MAX_INSTANCE_NUM
  MaxInstance,   \* mgr->max_instance_num, from num_clients
  MaxStack,      \* GAZELLE_MAX_STACK_ARRAY_SIZE
  LoopMod        \* 2^64, the width of the loop counters

Slot  == 1..SlotNum
Stack == Conn \X Thread
Fwd   == {"rx", "tx"}
Off   == 0       \* a tick no slot ever has: INSTANCE_REG_TICK_INIT_VAL

ASSUME InstanceAssumption ==
  /\ SlotNum \in Nat /\ MaxInstance \in 1..SlotNum
  /\ MaxStack \in Nat \ {0}
  /\ LoopMod \in Nat /\ LoopMod >= 2
  /\ None \notin Proc /\ None \notin Conn /\ None \notin Stack

VARIABLES
  main,        \* each process: its connection g_data_fd
  thr,         \* each of its threads: client_reg_thrd_ring
  conn, pid, hup, named,     \* each connection: protocol state, the process
                             \* behind it, peer closed, data->pid is set
  instances, tick, cur_instance_num,       \* struct gazelle_instance_mgr
  mem, slot, reg_tick, reg_state,          \* each struct gazelle_instance:
  stack_array, socket_size, range,         \* its stacks, its address range
  stack_mem, stack_tick,     \* each struct gazelle_stack
  ctl_pc, cur, victim, sample,             \* the control thread
  fwd_pc, fwd_inst, fwd_stack, loop_count, \* the forward threads
  conns        \* tcp_conn and tcp_sock entries of the rx thread

clientVars == <<main, thr>>
connVars   == <<conn, pid, hup, named>>
mgrVars    == <<instances, tick, cur_instance_num>>
instVars   == <<mem, slot, reg_tick, reg_state, stack_array, socket_size, range>>
stackVars  == <<stack_mem, stack_tick>>
ctlVars    == <<ctl_pc, cur, victim, sample>>
fwdVars    == <<fwd_pc, fwd_inst, fwd_stack, loop_count, conns>>
vars == <<main, thr, conn, pid, hup, named, instances, tick, cur_instance_num,
          mem, slot, reg_tick, reg_state, stack_array, socket_size, range,
          stack_mem, stack_tick, ctl_pc, cur, victim, sample, fwd_pc, fwd_inst,
          fwd_stack, loop_count, conns>>

Init ==
  /\ main = [p \in Proc |-> None]
  /\ thr = [p \in Proc |-> [t \in Thread |-> "idle"]]
  /\ conn = [c \in Conn |-> "unused"]
  /\ pid = [c \in Conn |-> None]
  /\ hup = [c \in Conn |-> FALSE]
  /\ named = [c \in Conn |-> FALSE]
  /\ instances = [i \in Slot |-> None]
  /\ tick = [i \in Slot |-> 0]
  /\ cur_instance_num = 0
  /\ mem = [c \in Conn |-> "none"]
  /\ slot = [c \in Conn |-> 1]
  /\ reg_tick = [c \in Conn |-> Off]
  /\ reg_state = [c \in Conn |-> "mem"]
  /\ stack_array = [c \in Conn |-> {}]
  /\ socket_size = [c \in Conn |-> FALSE]
  /\ range = [c \in Conn |-> "free"]
  /\ stack_mem = [s \in Stack |-> "none"]
  /\ stack_tick = [s \in Stack |-> Off]
  /\ ctl_pc = "idle"
  /\ cur = None
  /\ victim = None
  /\ sample = [f \in Fwd |-> 0]
  /\ fwd_pc = [f \in Fwd |-> "scan"]
  /\ fwd_inst = [f \in Fwd |-> None]
  /\ fwd_stack = [f \in Fwd |-> None]
  /\ loop_count = [f \in Fwd |-> 0]
  /\ conns = {}

(* gazelle_instance_get_by_pid *)
ByPid(p) == {c \in Conn : pid[c] = p /\ \E i \in Slot : instances[i] = c}

-----------------------------------------------------------------------------
(* The client process (src/lstack/core/lstack_control_plane.c) *)

(* control_init_client: connect and ask for memory *)
Connect(p, c) ==
  /\ main[p] = None
  /\ conn[c] = "unused"
  /\ main' = [main EXCEPT ![p] = c]
  /\ conn' = [conn EXCEPT ![c] = "mem"]
  /\ pid' = [pid EXCEPT ![c] = p]
  /\ UNCHANGED <<thr, hup, named, mgrVars, instVars, stackVars, ctlVars, fwdVars>>

(* client_reg_proc_attach, after RSP_OK *)
SendAttach(p) ==
  /\ main[p] # None
  /\ conn[main[p]] = "mem_ok"
  /\ conn' = [conn EXCEPT ![main[p]] = "att"]
  /\ UNCHANGED <<clientVars, pid, hup, named, mgrVars, instVars, stackVars,
                 ctlVars, fwdVars>>

(* client_reg_thrd_ring: a connection for this one request *)
SendThread(p, t) ==
  /\ main[p] # None
  /\ conn[main[p]] = "up"
  /\ thr[p][t] = "idle"
  /\ thr' = [thr EXCEPT ![p][t] = "sent"]
  /\ UNCHANGED <<main, connVars, mgrVars, instVars, stackVars, ctlVars, fwdVars>>

(* The connection is given up, or the process dies; its pid may come again. *)
Close(p) ==
  /\ main[p] # None
  /\ hup' = [hup EXCEPT ![main[p]] = TRUE]
  /\ main' = [main EXCEPT ![p] = None]
  /\ thr' = [thr EXCEPT ![p] = [t \in Thread |-> "idle"]]
  /\ UNCHANGED <<conn, pid, named, mgrVars, instVars, stackVars, ctlVars, fwdVars>>

-----------------------------------------------------------------------------
(* The control thread: reg_conn_msg_proc *)

(* Leave the handler through its label END. *)
GoEnd(c) == ctl_pc' = "end" /\ cur' = c

(* handle_reg_msg_proc_mem refuses: instance_info_check (its configuration, *)
(* or its pid is there already), or there are max_instance_num instances.   *)
RefuseMem(c) ==
  /\ ctl_pc = "idle"
  /\ conn[c] = "mem" /\ ~hup[c]
  /\ named' = [named EXCEPT ![c] = TRUE]
  /\ GoEnd(c)
  /\ UNCHANGED <<clientVars, conn, pid, hup, mgrVars, instVars, stackVars,
                 victim, sample, fwdVars>>

HasRoom == cur_instance_num < MaxInstance

(* gazelle_instance_add_by_pid: the first free slot *)
FirstFree(i) ==
  /\ instances[i] = None
  /\ \A j \in 1..(i - 1) : instances[j] # None

(* gazelle_instance_add_by_pid *)
NewInstance(c, i) ==
  /\ tick' = [tick EXCEPT ![i] = @ + 1]
  /\ reg_tick' = [reg_tick EXCEPT ![c] = tick[i]]
  /\ slot' = [slot EXCEPT ![c] = i]
  /\ mem' = [mem EXCEPT ![c] = "live"]
  /\ instances' = [instances EXCEPT ![i] = c]
  /\ cur_instance_num' = cur_instance_num + 1

(* handle_reg_msg_proc_mem: its address range is reserved or not to be had, *)
(* and the answer may not reach the client                                  *)
RegProcMem(c, i) ==
  /\ ctl_pc = "idle"
  /\ conn[c] = "mem" /\ ~hup[c]
  /\ ByPid(pid[c]) = {}
  /\ HasRoom
  /\ FirstFree(i)
  /\ named' = [named EXCEPT ![c] = TRUE]
  /\ NewInstance(c, i)
  /\ \/ /\ socket_size' = [socket_size EXCEPT ![c] = TRUE]
        /\ range' = [range EXCEPT ![c] = "reserved"]
        /\ \/ /\ conn' = [conn EXCEPT ![c] = "mem_ok"]
              /\ UNCHANGED <<ctl_pc, cur>>
           \/ GoEnd(c) /\ UNCHANGED conn
     \/ /\ GoEnd(c)
        /\ UNCHANGED <<socket_size, range, conn>>
  /\ UNCHANGED <<clientVars, pid, hup, reg_state, stack_array, stackVars,
                 victim, sample, fwdVars>>

(* handle_reg_msg_proc_att: no instance, or too many arguments *)
RefuseAttach(c) ==
  /\ ctl_pc = "idle"
  /\ conn[c] = "att" /\ ~hup[c]
  /\ GoEnd(c)
  /\ UNCHANGED <<clientVars, connVars, mgrVars, instVars, stackVars, victim,
                 sample, fwdVars>>

(* handle_reg_msg_proc_att: give the reservation back, attach the client's  *)
(* memory in its place, and the instance is on                              *)
RegProcAtt(c) ==
  /\ ctl_pc = "idle"
  /\ conn[c] = "att" /\ ~hup[c]
  /\ \E d \in ByPid(pid[c]) :
       /\ reg_state' = [reg_state EXCEPT ![d] = "att"]
       /\ \/ /\ range' = [range EXCEPT ![d] = "attached"]
             /\ \/ /\ reg_tick' = [reg_tick EXCEPT ![d] = tick[slot[d]]]
                   /\ conn' = [conn EXCEPT ![c] = "up"]
                   /\ UNCHANGED <<ctl_pc, cur>>
                \/ GoEnd(c) /\ UNCHANGED <<reg_tick, conn>>
          \/ /\ range' = [range EXCEPT ![d] = "free"]
             /\ GoEnd(c)
             /\ UNCHANGED <<reg_tick, conn>>
  /\ UNCHANGED <<clientVars, pid, hup, named, mgrVars, mem, slot, stack_array,
                 socket_size, stackVars, victim, sample, fwdVars>>

IsOn(s) == stack_tick[s] # Off /\ stack_tick[s] = tick[slot[s[1]]]

(* handle_reg_msg_thrd_ring: known already, no instance, or no room *)
AnswerThread(p, t) ==
  /\ ctl_pc = "idle"
  /\ thr[p][t] = "sent"
  /\ thr' = [thr EXCEPT ![p][t] = "answered"]
  /\ \/ \E s \in Stack : stack_mem[s] = "live" /\ s[2] = t /\ pid[s[1]] = p /\ IsOn(s)
     \/ ByPid(p) = {}
     \/ \E c \in ByPid(p) : Cardinality(stack_array[c]) >= MaxStack
  /\ UNCHANGED <<main, connVars, mgrVars, instVars, stackVars, ctlVars, fwdVars>>

(* Mutant of RegThrdRing: reg_state is left alone. *)
RegThrdRing_NoState(p, t) ==
  /\ ctl_pc = "idle"
  /\ thr[p][t] = "sent"
  /\ \E c \in ByPid(p) :
       /\ t \notin stack_array[c]
       /\ Cardinality(stack_array[c]) < MaxStack
       /\ stack_mem' = [stack_mem EXCEPT ![<<c, t>>] = "live"]
       /\ stack_array' = [stack_array EXCEPT ![c] = @ \cup {t}]
       /\ cur' = <<c, t>>
  /\ ctl_pc' = "thread"
  /\ UNCHANGED <<clientVars, connVars, mgrVars, mem, slot, reg_tick, reg_state,
                 socket_size, range, stack_tick, victim, sample, fwdVars>>

(* handle_reg_msg_thrd_ring: a stack, off for now, joins stack_array *)
RegThrdRing(p, t) ==
  /\ ctl_pc = "idle"
  /\ thr[p][t] = "sent"
  /\ \E c \in ByPid(p) :
       /\ t \notin stack_array[c]
       /\ Cardinality(stack_array[c]) < MaxStack
       /\ stack_mem' = [stack_mem EXCEPT ![<<c, t>>] = "live"]
       /\ stack_array' = [stack_array EXCEPT ![c] = @ \cup {t}]
       /\ reg_state' = [reg_state EXCEPT ![c] = "thrd"]
       /\ cur' = <<c, t>>
  /\ ctl_pc' = "thread"
  /\ UNCHANGED <<clientVars, connVars, mgrVars, mem, slot, reg_tick,
                 socket_size, range, stack_tick, victim, sample, fwdVars>>

(* The answer reached the client: the stack takes the instance's ticks and  *)
(* is on.  Else it stays off; the short connection names no pid.            *)
StackOn ==
  /\ ctl_pc = "thread"
  /\ ctl_pc' = "idle"
  /\ cur' = None
  /\ LET p == pid[cur[1]]
         t == cur[2] IN
     IF thr[p][t] = "sent"
       THEN /\ thr' = [thr EXCEPT ![p][t] = "answered"]
            /\ stack_tick' = [stack_tick EXCEPT ![cur] = reg_tick[cur[1]]]
       ELSE UNCHANGED <<thr, stack_tick>>
  /\ UNCHANGED <<main, connVars, mgrVars, instVars, stack_mem, victim, sample,
                 fwdVars>>

(* EPOLLHUP on the long-lived connection *)
HandleHup(c) ==
  /\ ctl_pc = "idle"
  /\ hup[c] /\ conn[c] # "closed"
  /\ GoEnd(c)
  /\ UNCHANGED <<clientVars, connVars, mgrVars, instVars, stackVars, victim,
                 sample, fwdVars>>

(* sockfd_data_free: the client sees its connection closed and tries anew   *)
FreeSockfd(c) ==
  /\ conn' = [conn EXCEPT ![c] = "closed"]
  /\ main' = [p \in Proc |-> IF main[p] = c THEN None ELSE main[p]]
  /\ thr' = [p \in Proc |-> IF main[p] = c THEN [t \in Thread |-> "idle"] ELSE thr[p]]
  /\ ctl_pc' = "idle"
  /\ cur' = None

(* END: data->pid is not set, or it names no instance *)
EndPlain ==
  /\ ctl_pc = "end"
  /\ ~named[cur] \/ ByPid(pid[cur]) = {}
  /\ FreeSockfd(cur)
  /\ UNCHANGED <<pid, hup, named, mgrVars, instVars, stackVars, victim, sample,
                 fwdVars>>

-----------------------------------------------------------------------------
(* handle_instance_logout *)

(* Mutant of LogoutTick: the tick does not move. *)
LogoutTick_Skipped ==
  /\ ctl_pc = "end"
  /\ named[cur]
  /\ \E d \in ByPid(pid[cur]) : victim' = d
  /\ ctl_pc' = "unlist"
  /\ UNCHANGED <<clientVars, connVars, mgrVars, instVars, stackVars, cur,
                 sample, fwdVars>>

(* instance_cur_tick++: all that remembers the old tick is off *)
LogoutTick ==
  /\ ctl_pc = "end"
  /\ named[cur]
  /\ \E d \in ByPid(pid[cur]) :
       /\ victim' = d
       /\ tick' = [tick EXCEPT ![slot[d]] = @ + 1]
  /\ ctl_pc' = "unlist"
  /\ UNCHANGED <<clientVars, connVars, instances, cur_instance_num, instVars,
                 stackVars, cur, sample, fwdVars>>

(* gazelle_set_instance_null_by_pid *)
LogoutUnlist ==
  /\ ctl_pc = "unlist"
  /\ instances' = [instances EXCEPT ![slot[victim]] = None]
  /\ cur_instance_num' = cur_instance_num - 1
  /\ ctl_pc' = "sample_rx"
  /\ UNCHANGED <<clientVars, connVars, tick, instVars, stackVars, cur, victim,
                 sample, fwdVars>>

(* wait_forward_done: remember both counters ... *)
SampleRx ==
  /\ ctl_pc = "sample_rx"
  /\ sample' = [sample EXCEPT !["rx"] = loop_count["rx"]]
  /\ ctl_pc' = "sample_tx"
  /\ UNCHANGED <<clientVars, connVars, mgrVars, instVars, stackVars, cur,
                 victim, fwdVars>>

SampleTx ==
  /\ ctl_pc = "sample_tx"
  /\ sample' = [sample EXCEPT !["tx"] = loop_count["tx"]]
  /\ ctl_pc' = "wait_tx"
  /\ UNCHANGED <<clientVars, connVars, mgrVars, instVars, stackVars, cur,
                 victim, fwdVars>>

(* ... and wait until each has changed *)
WaitTx ==
  /\ ctl_pc = "wait_tx"
  /\ loop_count["tx"] # sample["tx"]
  /\ ctl_pc' = "wait_rx"
  /\ UNCHANGED <<clientVars, connVars, mgrVars, instVars, stackVars, cur,
                 victim, sample, fwdVars>>

(* Mutant of WaitRx: one of the two threads is enough. *)
WaitRx_Either ==
  /\ ctl_pc = "wait_rx"
  /\ ctl_pc' = "free_stacks"
  /\ UNCHANGED <<clientVars, connVars, mgrVars, instVars, stackVars, cur,
                 victim, sample, fwdVars>>

WaitRx ==
  /\ ctl_pc = "wait_rx"
  /\ ctl_pc' = IF loop_count["rx"] # sample["rx"] THEN "free_stacks" ELSE "wait_tx"
  /\ UNCHANGED <<clientVars, connVars, mgrVars, instVars, stackVars, cur,
                 victim, sample, fwdVars>>

(* handle_inst_logout_for_reg_thrd_ring *)
FreeStacks ==
  /\ ctl_pc = "free_stacks"
  /\ IF reg_state[victim] = "thrd"
       THEN /\ stack_mem' = [s \in Stack |->
                  IF s[1] = victim /\ s[2] \in stack_array[victim]
                    THEN "freed" ELSE stack_mem[s]]
            /\ stack_array' = [stack_array EXCEPT ![victim] = {}]
       ELSE UNCHANGED <<stack_mem, stack_array>>
  /\ ctl_pc' = "detach"
  /\ UNCHANGED <<clientVars, connVars, mgrVars, mem, slot, reg_tick, reg_state,
                 socket_size, range, stack_tick, cur, victim, sample, fwdVars>>

(* handle_inst_logout_reg_proc_att: rte_eal_sec_detach *)
Detach ==
  /\ ctl_pc = "detach"
  /\ IF reg_state[victim] \in {"att", "thrd"}
       THEN /\ range' = [range EXCEPT ![victim] = "free"]
            /\ socket_size' = [socket_size EXCEPT ![victim] = FALSE]
       ELSE UNCHANGED <<range, socket_size>>
  /\ ctl_pc' = "free_inst"
  /\ UNCHANGED <<clientVars, connVars, mgrVars, mem, slot, reg_tick, reg_state,
                 stack_array, stackVars, cur, victim, sample, fwdVars>>

(* handle_inst_logout_reg_proc_mem: remove_virtual_area, free(instance) *)
FreeInstance ==
  /\ ctl_pc = "free_inst"
  /\ range' = IF socket_size[victim] THEN [range EXCEPT ![victim] = "free"] ELSE range
  /\ mem' = [mem EXCEPT ![victim] = "freed"]
  /\ victim' = None
  /\ FreeSockfd(cur)
  /\ UNCHANGED <<pid, hup, named, mgrVars, slot, reg_tick, reg_state,
                 stack_array, socket_size, stackVars, sample, fwdVars>>

-----------------------------------------------------------------------------
(* A forward thread: upstream_forward ("rx") and downstream_forward ("tx").  *)
(* Within a pass instances and stacks are visited in any order.              *)

(* instance = instance_mgr->instances[i], for the first max_instance_num *)
LoadInstance(f, i) ==
  /\ fwd_pc[f] = "scan"
  /\ i <= MaxInstance
  /\ instances[i] # None
  /\ fwd_inst' = [fwd_inst EXCEPT ![f] = instances[i]]
  /\ fwd_pc' = [fwd_pc EXCEPT ![f] = "inst"]
  /\ UNCHANGED <<clientVars, connVars, mgrVars, instVars, stackVars, ctlVars,
                 fwd_stack, loop_count, conns>>

(* stack_array[j] != NULL *)
LoadStack(f, t) ==
  /\ fwd_pc[f] = "inst"
  /\ t \in stack_array[fwd_inst[f]]
  /\ fwd_stack' = [fwd_stack EXCEPT ![f] = <<fwd_inst[f], t>>]
  /\ fwd_pc' = [fwd_pc EXCEPT ![f] = "test"]
  /\ UNCHANGED <<clientVars, connVars, mgrVars, instVars, stackVars, ctlVars,
                 fwd_inst, loop_count, conns>>

(* INSTANCE_IS_ON(stack_array[j]) *)
TestOn(f) ==
  /\ fwd_pc[f] = "test"
  /\ IF IsOn(fwd_stack[f])
       THEN fwd_pc' = [fwd_pc EXCEPT ![f] = "use"] /\ UNCHANGED fwd_stack
       ELSE /\ fwd_pc' = [fwd_pc EXCEPT ![f] = "inst"]
            /\ fwd_stack' = [fwd_stack EXCEPT ![f] = None]
  /\ UNCHANGED <<clientVars, connVars, mgrVars, instVars, stackVars, ctlVars,
                 fwd_inst, loop_count, conns>>

(* tcp_hash_table_handle: an entry made from a message of the stack's       *)
(* reg_ring remembers the stack and its ticks.                              *)
AddConn ==
  /\ fwd_pc["rx"] = "use"
  /\ LET s == fwd_stack["rx"] IN
     conns' = conns \cup {[stack |-> s, slot |-> slot[s[1]], tick |-> stack_tick[s]]}
  /\ UNCHANGED <<clientVars, connVars, mgrVars, instVars, stackVars, ctlVars,
                 fwd_pc, fwd_inst, fwd_stack, loop_count>>

(* tcp_handle: gazelle_conn_get_by_quintuple, gazelle_sock_get_by_min_conn   *)
FindConn(e) ==
  /\ fwd_pc["rx"] = "scan"
  /\ e.tick = tick[e.slot]
  /\ fwd_stack' = [fwd_stack EXCEPT !["rx"] = e.stack]
  /\ fwd_pc' = [fwd_pc EXCEPT !["rx"] = "use"]
  /\ UNCHANGED <<clientVars, connVars, mgrVars, instVars, stackVars, ctlVars,
                 fwd_inst, loop_count, conns>>

(* gazelle_detect_conn_logout, gazelle_detect_sock_logout; also aging and   *)
(* the client's own close commands                                          *)
DropConn(e) ==
  /\ fwd_pc["rx"] = "scan"
  /\ conns' = conns \ {e}
  /\ UNCHANGED <<clientVars, connVars, mgrVars, instVars, stackVars, ctlVars,
                 fwd_pc, fwd_inst, fwd_stack, loop_count>>

(* The stack has been served: its rings, its packet buffers *)
UseDone(f) ==
  /\ fwd_pc[f] = "use"
  /\ fwd_pc' = [fwd_pc EXCEPT ![f] = IF fwd_inst[f] = None THEN "scan" ELSE "inst"]
  /\ fwd_stack' = [fwd_stack EXCEPT ![f] = None]
  /\ UNCHANGED <<clientVars, connVars, mgrVars, instVars, stackVars, ctlVars,
                 fwd_inst, loop_count, conns>>

(* The next instance *)
LeaveInstance(f) ==
  /\ fwd_pc[f] = "inst"
  /\ fwd_pc' = [fwd_pc EXCEPT ![f] = "scan"]
  /\ fwd_inst' = [fwd_inst EXCEPT ![f] = None]
  /\ UNCHANGED <<clientVars, connVars, mgrVars, instVars, stackVars, ctlVars,
                 fwd_stack, loop_count, conns>>

(* Mutant of EndPass: the counter moves before the pass is over. *)
EndPass_Early(f) ==
  /\ loop_count' = [loop_count EXCEPT ![f] = (@ + 1) % LoopMod]
  /\ UNCHANGED <<clientVars, connVars, mgrVars, instVars, stackVars, ctlVars,
                 fwd_pc, fwd_inst, fwd_stack, conns>>

(* Mutant of EndPass: downstream_forward has no set_tx_loop_count. *)
EndPass_RxOnly(f) ==
  /\ fwd_pc[f] = "scan"
  /\ f = "rx"
  /\ loop_count' = [loop_count EXCEPT ![f] = (@ + 1) % LoopMod]
  /\ UNCHANGED <<clientVars, connVars, mgrVars, instVars, stackVars, ctlVars,
                 fwd_pc, fwd_inst, fwd_stack, conns>>

(* set_rx_loop_count, set_tx_loop_count *)
EndPass(f) ==
  /\ fwd_pc[f] = "scan"
  /\ loop_count' = [loop_count EXCEPT ![f] = (@ + 1) % LoopMod]
  /\ UNCHANGED <<clientVars, connVars, mgrVars, instVars, stackVars, ctlVars,
                 fwd_pc, fwd_inst, fwd_stack, conns>>

-----------------------------------------------------------------------------
ClientStep ==
  \/ \E p \in Proc, c \in Conn : Connect(p, c)
  \/ \E p \in Proc : SendAttach(p) \/ Close(p)
  \/ \E p \in Proc, t \in Thread : SendThread(p, t)

HandleStep ==
  \/ \E c \in Conn : RefuseMem(c) \/ RefuseAttach(c) \/ RegProcAtt(c) \/ HandleHup(c)
  \/ \E c \in Conn, i \in Slot : RegProcMem(c, i)
  \/ \E p \in Proc, t \in Thread : AnswerThread(p, t) \/ RegThrdRing(p, t)
  \/ StackOn

LogoutStep ==
  \/ EndPlain
  \/ LogoutTick \/ LogoutUnlist
  \/ SampleRx \/ SampleTx \/ WaitTx \/ WaitRx
  \/ FreeStacks \/ Detach \/ FreeInstance

ForwardStep(f) ==
  \/ \E i \in Slot : LoadInstance(f, i)
  \/ \E t \in Thread : LoadStack(f, t)
  \/ TestOn(f) \/ UseDone(f) \/ LeaveInstance(f) \/ EndPass(f)

RxStep ==
  \/ AddConn
  \/ \E e \in conns : FindConn(e) \/ DropConn(e)

Next ==
  \/ ClientStep \/ HandleStep \/ LogoutStep
  \/ \E f \in Fwd : ForwardStep(f)
  \/ RxStep

Spec == Init /\ [][Next]_vars

(* A counter that has changed stays changed until it is looked at: 2^64      *)
(* passes do not fit between two looks of wait_forward_done, from some time  *)
(* on.                                                                       *)
NoWrap(f) ==
  ctl_pc \in {"wait_tx", "wait_rx"} /\ loop_count[f] # sample[f]
    => loop_count'[f] # sample[f]

(* The control thread serves every connection epoll reports, and a forward  *)
(* thread finishes its passes: the arrays it walks are bounded.             *)
Fairness ==
  /\ \A c \in Conn : SF_vars(HandleHup(c))
  /\ WF_vars(StackOn \/ LogoutStep)
  /\ \A f \in Fwd : WF_vars(TestOn(f)) /\ WF_vars(UseDone(f))
  /\ \A f \in Fwd : SF_vars(LeaveInstance(f)) /\ SF_vars(EndPass(f) /\ NoWrap(f))
  /\ <>[][\A f \in Fwd : NoWrap(f)]_vars

FairSpec == Spec /\ Fairness

-----------------------------------------------------------------------------
(* The types; at most max_instance_num instances, by                        *)
(* gazelle_instance_add_by_pid.                                             *)
TypeOK ==
  /\ main \in [Proc -> Conn \cup {None}]
  /\ thr \in [Proc -> [Thread -> {"idle", "sent", "answered"}]]
  /\ conn \in [Conn -> {"unused", "mem", "mem_ok", "att", "up", "closed"}]
  /\ pid \in [Conn -> Proc \cup {None}]
  /\ hup \in [Conn -> BOOLEAN] /\ named \in [Conn -> BOOLEAN]
  /\ instances \in [Slot -> Conn \cup {None}]
  /\ tick \in [Slot -> Nat]
  /\ cur_instance_num \in 0..MaxInstance
  /\ mem \in [Conn -> {"none", "live", "freed"}]
  /\ slot \in [Conn -> Slot]
  /\ reg_tick \in [Conn -> Nat]
  /\ reg_state \in [Conn -> {"mem", "att", "thrd"}]
  /\ stack_array \in [Conn -> SUBSET Thread]
  /\ socket_size \in [Conn -> BOOLEAN]
  /\ range \in [Conn -> {"free", "reserved", "attached"}]
  /\ stack_mem \in [Stack -> {"none", "live", "freed"}]
  /\ stack_tick \in [Stack -> Nat]
  /\ ctl_pc \in {"idle", "thread", "end", "unlist", "sample_rx", "sample_tx",
                 "wait_tx", "wait_rx", "free_stacks", "detach", "free_inst"}
  /\ cur \in Conn \cup Stack \cup {None}
  /\ victim \in Conn \cup {None}
  /\ sample \in [Fwd -> 0..(LoopMod - 1)]
  /\ fwd_pc \in [Fwd -> {"scan", "inst", "test", "use"}]
  /\ fwd_inst \in [Fwd -> Conn \cup {None}]
  /\ fwd_stack \in [Fwd -> Stack \cup {None}]
  /\ loop_count \in [Fwd -> 0..(LoopMod - 1)]
  /\ conns \subseteq [stack : Stack, slot : Slot, tick : Nat]

(* "avoid control_thread free memory when we visit tx_ring": a forward      *)
(* thread never holds an instance or a stack that handle_instance_logout    *)
(* has freed, and the memory of a stack it uses is attached.                *)
NoUseAfterFree ==
  \A f \in Fwd :
    /\ fwd_inst[f] # None => mem[fwd_inst[f]] = "live"
    /\ fwd_stack[f] # None => stack_mem[fwd_stack[f]] = "live"
    /\ fwd_pc[f] = "use" => range[fwd_stack[f][1]] = "attached"

(* Between two events of the control thread, whatever failed before, there  *)
(* is an instance for every slot in use and no other, all slots in use are  *)
(* among those the forward threads walk, there is a stack for every entry   *)
(* of its stack_array and no other, no address range is lost, and a thread  *)
(* that asks has no stack that is off (stacks are deleted by tid).          *)
NothingLeaked ==
  ctl_pc = "idle" =>
    /\ \A c \in Conn : mem[c] = "live" <=> \E i \in Slot : instances[i] = c
    /\ \A s \in Stack :
         stack_mem[s] = "live" <=> mem[s[1]] = "live" /\ s[2] \in stack_array[s[1]]
    /\ \A c \in Conn : range[c] # "free" => mem[c] = "live"
    /\ \A p \in Proc, t \in Thread : \A c \in ByPid(p) :
         thr[p][t] = "sent" /\ t \in stack_array[c] => IsOn(<<c, t>>)
    /\ cur_instance_num = Cardinality({i \in Slot : instances[i] # None})
    /\ \A i \in Slot : instances[i] # None => i <= MaxInstance

(* A table entry that is on names a stack that is in use: the entries of a  *)
(* client that is gone never come to life with the slot's next client.      *)
StaleEntryStaysOff ==
  \A e \in conns : e.tick = tick[e.slot] =>
    stack_mem[e.stack] = "live" /\ instances[e.slot] = e.stack[1]

(* A client that is gone is logged out, and all of it is freed, in the end: *)
(* wait_forward_done does not wait for ever.                                *)
GoneIsFreed ==
  \A c \in Conn : hup[c] /\ mem[c] = "live" ~> mem[c] = "freed"
=============================================================================
