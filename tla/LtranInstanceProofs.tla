------------------------- MODULE LtranInstanceProofs -------------------------
(***************************************************************************)
(* LtranInstance for any number of processes, threads, connections and     *)
(* slots, and counters of any width.  The argument has three parts.        *)
(*                                                                         *)
(* A tick only grows, and handle_instance_logout moves it before anything  *)
(* else: a tick remembered by an instance, a stack or a table entry that   *)
(* is the slot's current one belongs to the instance listed there now.     *)
(*                                                                         *)
(* A forward thread begins to hold an instance only while it is listed,    *)
(* and counts a pass only when it holds nothing.  So as long as it holds   *)
(* an instance that has been unlisted, its counter is what                 *)
(* wait_forward_done remembered, whatever the counter does later on.       *)
(*                                                                         *)
(* The connection of a live client is the only one its pid can have an     *)
(* instance by: handle_reg_msg_proc_att and handle_reg_msg_thrd_ring, who  *)
(* look for an instance by pid, find the one made for this connection.     *)
(***************************************************************************)
EXTENDS LtranInstance, FiniteSetTheorems, TLAPS

Listed(c) == instances[slot[c]] = c

Logout   == {"unlist", "sample_rx", "sample_tx", "wait_tx", "wait_rx",
             "free_stacks", "detach", "free_inst"}
Unlisted == Logout \ {"unlist"}
Draining == {"sample_rx", "sample_tx", "wait_tx", "wait_rx"}

(* Listed, and its tick has not been moved by its logout. *)
Current(c) == Listed(c) /\ ~(ctl_pc = "unlist" /\ victim = c)

(* Processes and the connections they have open. *)
ClientShape ==
  /\ \A p \in Proc : main[p] # None =>
       pid[main[p]] = p /\ conn[main[p]] \notin {"unused", "closed"} /\ ~hup[main[p]]
  /\ \A c \in Conn : conn[c] \notin {"unused", "closed"} /\ ~hup[c] =>
       pid[c] \in Proc /\ main[pid[c]] = c
  /\ \A p \in Proc, t \in Thread : thr[p][t] # "idle" =>
       main[p] # None /\ conn[main[p]] = "up"
  /\ \A c \in Conn : conn[c] = "unused" => ~hup[c]

(* Where the control thread is. *)
CtlShape ==
  /\ ctl_pc = "idle" => cur = None
  /\ ctl_pc = "thread" =>
       /\ cur \in Stack
       /\ Listed(cur[1])
       /\ cur[2] \in stack_array[cur[1]]
       /\ stack_tick[cur] = Off
       /\ thr[pid[cur[1]]][cur[2]] = "sent" \/ main[pid[cur[1]]] # cur[1]
  /\ ctl_pc \notin {"idle", "thread"} => cur \in Conn
  /\ ctl_pc \notin Logout => victim = None
  /\ ctl_pc \in Logout => victim \in Conn /\ mem[victim] = "live"
  /\ ctl_pc = "unlist" => Listed(victim)
  /\ ctl_pc \in Unlisted => ~Listed(victim)
  /\ ctl_pc \in {"detach", "free_inst"} => stack_array[victim] = {}
  /\ ctl_pc = "free_inst" => range[victim] # "attached"

(* The slots, and who is in them. *)
SlotShape ==
  /\ \A i \in Slot : instances[i] # None =>
       slot[instances[i]] = i /\ mem[instances[i]] = "live"
  /\ \A c \in Conn : mem[c] = "live" =>
       /\ Listed(c) \/ (ctl_pc \in Unlisted /\ victim = c)
       /\ pid[c] \in Proc /\ conn[c] # "unused"
  /\ \A c, d \in Conn : Listed(c) /\ Listed(d) /\ pid[c] = pid[d] => c = d
  /\ \A p \in Proc : main[p] # None /\ conn[main[p]] \in {"mem_ok", "att", "up"} =>
       \A c \in Conn : Listed(c) /\ pid[c] = p => c = main[p]

(* An instance that was never made, and the life of one that was. *)
InstShape(c) ==
  /\ conn[c] \in {"unused", "mem"} =>
       mem[c] = "none" \/ (ctl_pc \notin {"idle", "thread"} /\ cur = c)
  /\ mem[c] = "none" => range[c] = "free" /\ stack_array[c] = {}
  /\ stack_array[c] # {} =>
       /\ mem[c] = "live" /\ reg_state[c] = "thrd" /\ range[c] = "attached"
       /\ conn[c] \in {"up", "closed"}
  /\ range[c] # "free" => mem[c] = "live"
  /\ range[c] = "reserved" => socket_size[c]
  /\ range[c] = "attached" => reg_state[c] \in {"att", "thrd"}

(* What the tick that an instance remembers says of it. *)
TickShape(c) ==
  /\ reg_tick[c] <= tick[slot[c]]
  /\ mem[c] # "none" => tick[slot[c]] >= 1
  /\ mem[c] # "none" /\ reg_tick[c] = tick[slot[c]] =>
       Current(c) /\ conn[c] \in {"up", "closed"}
  /\ Current(c) /\ conn[c] = "up" =>
       reg_tick[c] = tick[slot[c]] /\ range[c] = "attached"

(* What the tick that a stack remembers says of it. *)
StackShape(s) ==
  /\ stack_mem[s] = "live" <=> s[2] \in stack_array[s[1]]
  /\ stack_tick[s] # Off =>
       /\ mem[s[1]] # "none"
       /\ stack_tick[s] = reg_tick[s[1]]
       /\ Current(s[1]) => s[2] \in stack_array[s[1]]
       /\ conn[s[1]] \in {"up", "closed"}

(* A stack is off only while it is being answered, or its client is gone. *)
AnswerShape(s) ==
  s[2] \in stack_array[s[1]] /\ Current(s[1]) /\ main[pid[s[1]]] = s[1] =>
    stack_tick[s] # Off \/ (ctl_pc = "thread" /\ cur = s)

(* A table entry remembers what its stack does. *)
ConnsShape ==
  \A e \in conns :
    /\ e.slot = slot[e.stack[1]]
    /\ e.tick = stack_tick[e.stack]
    /\ e.tick # Off

(* What a forward thread has in its hands. *)
FwdShape(f) ==
  /\ fwd_pc[f] = "scan" => fwd_inst[f] = None /\ fwd_stack[f] = None
  /\ fwd_pc[f] = "inst" => fwd_inst[f] # None /\ fwd_stack[f] = None
  /\ fwd_pc[f] = "test" => fwd_inst[f] # None /\ fwd_stack[f] # None
  /\ fwd_pc[f] = "use" => fwd_stack[f] # None /\ stack_tick[fwd_stack[f]] # Off
  /\ fwd_inst[f] # None /\ fwd_stack[f] # None => fwd_stack[f][1] = fwd_inst[f]
  /\ fwd_stack[f] # None => fwd_stack[f][2] \in stack_array[fwd_stack[f][1]]

Holds(f, c) ==
  fwd_inst[f] = c \/ (fwd_stack[f] # None /\ fwd_stack[f][1] = c)

(* It holds what is listed, or what waits for this thread's pass to end. *)
HoldShape(f, c) ==
  Holds(f, c) =>
    /\ mem[c] = "live"
    /\ ~Listed(c) => victim = c /\ ctl_pc \in Draining
    /\ ~Listed(c) /\ f = "rx" /\ ctl_pc # "sample_rx" => loop_count[f] = sample[f]
    /\ ~Listed(c) /\ f = "tx" /\ ctl_pc = "wait_tx" => loop_count[f] = sample[f]
    /\ ~Listed(c) /\ f = "tx" => ctl_pc # "wait_rx"

Used == {i \in Slot : instances[i] # None}

SlotCount ==
  /\ cur_instance_num = Cardinality(Used)
  /\ \A i \in Used : i <= MaxInstance

IInv ==
  /\ TypeOK
  /\ ClientShape /\ CtlShape /\ SlotShape
  /\ \A c \in Conn : InstShape(c) /\ TickShape(c)
  /\ \A s \in Stack : StackShape(s) /\ AnswerShape(s)
  /\ ConnsShape
  /\ \A f \in Fwd : FwdShape(f)
  /\ \A f \in Fwd, c \in Conn : HoldShape(f, c)
  /\ SlotCount

-----------------------------------------------------------------------------
(* A stack is a connection and a thread. *)
LEMMA StackParts ==
  ASSUME NEW s \in Stack
  PROVE  s[1] \in Conn /\ s[2] \in Thread /\ s = <<s[1], s[2]>>
  BY DEF Stack

(* A connection not in use has no stacks; a stack has a process. *)
LEMMA StackOwner ==
  ASSUME IInv, NEW c \in Conn, stack_array[c] # {}
  PROVE  mem[c] = "live" /\ conn[c] \in {"up", "closed"} /\ pid[c] \in Proc
  BY DEF IInv, InstShape, SlotShape

(* gazelle_instance_get_by_pid finds what is listed. *)
LEMMA FoundIsListed ==
  ASSUME IInv, NEW p \in Proc \cup {None}, NEW c \in ByPid(p)
  PROVE  c \in Conn /\ pid[c] = p /\ Listed(c) /\ mem[c] = "live" /\ p \in Proc
  BY InstanceAssumption DEF IInv, TypeOK, SlotShape, ByPid, Listed

(* The instance found for a connection that goes on is its own. *)
LEMMA FoundIsMine ==
  ASSUME IInv, NEW c \in Conn, conn[c] \in {"mem_ok", "att", "up"}, ~hup[c],
         NEW d \in ByPid(pid[c])
  PROVE  d = c /\ Listed(c) /\ mem[c] = "live" /\ main[pid[c]] = c
<1>1. pid[c] \in Proc /\ main[pid[c]] = c
  BY DEF IInv, ClientShape
<1>2. d \in Conn /\ pid[d] = pid[c] /\ Listed(d) /\ mem[d] = "live"
  BY <1>1, FoundIsListed
<1> QED
  BY <1>1, <1>2, InstanceAssumption DEF IInv, SlotShape

(* The instance found for a thread that asks is its process's own. *)
LEMMA FoundForThread ==
  ASSUME IInv, NEW p \in Proc, NEW t \in Thread, thr[p][t] = "sent",
         NEW d \in ByPid(p)
  PROVE  /\ d \in Conn /\ d = main[p] /\ pid[d] = p
         /\ Listed(d) /\ mem[d] = "live" /\ conn[d] = "up"
<1>1. d \in Conn /\ pid[d] = p /\ Listed(d) /\ mem[d] = "live"
  BY FoundIsListed
<1>2. main[p] # None /\ conn[main[p]] = "up"
  BY DEF IInv, ClientShape
<1> QED
  BY <1>1, <1>2 DEF IInv, SlotShape

(* A stack that is on is one of an instance that is listed. *)
LEMMA OnIsCurrent ==
  ASSUME IInv, NEW s \in Stack, IsOn(s)
  PROVE  /\ Current(s[1]) /\ Listed(s[1]) /\ mem[s[1]] = "live"
         /\ s[2] \in stack_array[s[1]] /\ stack_mem[s] = "live"
<1>1. s[1] \in Conn /\ s[2] \in Thread
  BY DEF Stack
<1>2. Current(s[1]) /\ s[2] \in stack_array[s[1]] /\ stack_mem[s] = "live"
  BY <1>1 DEF IInv, StackShape, TickShape, IsOn
<1> QED
  BY <1>1, <1>2 DEF IInv, InstShape, Current

(* There are finitely many slots. *)
LEMMA SlotsFinite == IsFiniteSet(Used)
<1>1. IsFiniteSet(Slot)
  BY InstanceAssumption, FS_Interval DEF Slot
<1> QED
  BY <1>1, FS_Subset DEF Used


(* A new connection of a process that has none. *)
LEMMA ConnectKeeps ==
  ASSUME IInv, NEW p \in Proc, NEW c \in Conn, Connect(p, c)
  PROVE  IInv'
<1>a. stack_array[c] = {}
  BY StackOwner DEF Connect
<1> USE DEF Connect, mgrVars, instVars, stackVars, ctlVars, fwdVars
<1>1. TypeOK'
  BY DEF IInv, TypeOK
<1>2. ClientShape'
  <2>1. conn[c] = "unused" /\ ~hup[c] /\ main[p] = None /\ c # None
    BY InstanceAssumption DEF IInv, ClientShape
  <2>2. ASSUME NEW q \in Proc, main'[q] # None
        PROVE  pid'[main'[q]] = q /\ conn'[main'[q]] \notin {"unused", "closed"}
               /\ ~hup'[main'[q]]
    BY <2>1, <2>2 DEF IInv, TypeOK, ClientShape
  <2>3. ASSUME NEW d \in Conn, conn'[d] \notin {"unused", "closed"}, ~hup'[d]
        PROVE  pid'[d] \in Proc /\ main'[pid'[d]] = d
    <3>1. CASE d = c
      BY <3>1 DEF IInv, TypeOK
    <3>2. CASE d # c
      <4>1. pid[d] \in Proc /\ main[pid[d]] = d
        BY <2>3, <3>2 DEF IInv, TypeOK, ClientShape
      <4>2. pid[d] # p
        BY <4>1, <2>1, InstanceAssumption
      <4> QED
        BY <3>2, <4>1, <4>2 DEF IInv, TypeOK
    <3> QED
      BY <3>1, <3>2
  <2>4. ASSUME NEW q \in Proc, NEW t \in Thread, thr'[q][t] # "idle"
        PROVE  main'[q] # None /\ conn'[main'[q]] = "up"
    BY <2>1, <2>4 DEF IInv, TypeOK, ClientShape
  <2>5. ASSUME NEW d \in Conn, conn'[d] = "unused" PROVE ~hup'[d]
    BY <2>5 DEF IInv, TypeOK, ClientShape
  <2> QED
    BY <2>2, <2>3, <2>4, <2>5 DEF ClientShape
<1>3. CtlShape'
  <2>1. ctl_pc = "thread" => cur[1] \in Conn /\ cur[1] # c
    BY <1>a, StackParts DEF IInv, CtlShape
  <2> QED
    BY <2>1 DEF IInv, TypeOK, CtlShape, Listed, Logout, Unlisted
<1>4. SlotShape'
  BY InstanceAssumption DEF IInv, TypeOK, SlotShape, Listed, Logout,
    Unlisted
<1>5. ASSUME NEW d \in Conn PROVE InstShape(d)'
  BY DEF IInv, InstShape
<1>6. ASSUME NEW d \in Conn PROVE TickShape(d)'
  BY DEF IInv, TickShape, Current, Listed
<1>7. ASSUME NEW s \in Stack PROVE StackShape(s)'
  BY DEF IInv, StackShape, Current, Listed
<1>8. ASSUME NEW s \in Stack PROVE AnswerShape(s)'
  <2>1. s[1] \in Conn /\ (s[2] \in stack_array[s[1]] => s[1] # c)
    BY <1>a, StackParts
  <2>2. s[2] \in stack_array[s[1]] => pid[s[1]] \in Proc
    BY <2>1, StackOwner
  <2> QED
    BY <2>1, <2>2 DEF IInv, TypeOK, AnswerShape, Current, Listed
<1>9. /\ ConnsShape'
      /\ \A g \in Fwd : FwdShape(g)'
      /\ \A g \in Fwd, d \in Conn : HoldShape(g, d)'
      /\ SlotCount'
  BY DEF IInv, ConnsShape, FwdShape, HoldShape, SlotCount, Draining, Holds,
    Listed, Used
<1> QED
  BY <1>1, <1>2, <1>3, <1>4, <1>5, <1>6, <1>7, <1>8, <1>9 DEF IInv

(* client_reg_proc_attach. *)
LEMMA SendAttachKeeps ==
  ASSUME IInv, NEW p \in Proc, SendAttach(p)
  PROVE  IInv'
<1> USE DEF SendAttach, clientVars, mgrVars, instVars, stackVars, ctlVars, fwdVars
<1>1. TypeOK'
  BY DEF IInv, TypeOK
<1>2. ClientShape'
  BY DEF IInv, ClientShape
<1>3. SlotShape'
  BY DEF IInv, SlotShape, Listed, Logout, Unlisted
<1>4. ASSUME NEW d \in Conn PROVE InstShape(d)'
  BY DEF IInv, InstShape
<1>5. ASSUME NEW d \in Conn PROVE TickShape(d)'
  BY DEF IInv, TickShape, Current, Listed
<1>6. ASSUME NEW s \in Stack PROVE StackShape(s)'
  BY DEF IInv, StackShape, Current, Listed
<1>7. /\ CtlShape'
      /\ \A s \in Stack : AnswerShape(s)'
      /\ ConnsShape'
      /\ \A g \in Fwd : FwdShape(g)'
      /\ \A g \in Fwd, d \in Conn : HoldShape(g, d)'
      /\ SlotCount'
  BY DEF IInv, CtlShape, AnswerShape, ConnsShape, FwdShape, HoldShape,
    SlotCount, Current, Draining, Holds, Listed, Logout, Unlisted, Used
<1> QED
  BY <1>1, <1>2, <1>3, <1>4, <1>5, <1>6, <1>7 DEF IInv

(* client_reg_thrd_ring. *)
LEMMA SendThreadKeeps ==
  ASSUME IInv, NEW p \in Proc, NEW t \in Thread, SendThread(p, t)
  PROVE  IInv'
<1> USE DEF SendThread, connVars, mgrVars, instVars, stackVars, ctlVars, fwdVars
<1>1. TypeOK'
  BY DEF IInv, TypeOK
<1>2. ClientShape'
  BY DEF IInv, ClientShape
<1>3. CtlShape'
  BY DEF IInv, CtlShape, Listed, Logout, Unlisted
<1>4. /\ SlotShape'
      /\ \A d \in Conn : InstShape(d)'
      /\ \A d \in Conn : TickShape(d)'
      /\ \A s \in Stack : StackShape(s)'
      /\ \A s \in Stack : AnswerShape(s)'
      /\ ConnsShape'
      /\ \A g \in Fwd : FwdShape(g)'
      /\ \A g \in Fwd, d \in Conn : HoldShape(g, d)'
      /\ SlotCount'
  BY DEF IInv, SlotShape, InstShape, TickShape, StackShape, AnswerShape,
    ConnsShape, FwdShape, HoldShape, SlotCount, Current, Draining, Holds,
    Listed, Logout, Unlisted, Used
<1> QED
  BY <1>1, <1>2, <1>3, <1>4 DEF IInv

(* The process gives its connection up. *)
LEMMA CloseKeeps ==
  ASSUME IInv, NEW p \in Proc, Close(p)
  PROVE  IInv'
<1> USE DEF Close, mgrVars, instVars, stackVars, ctlVars, fwdVars
<1>1. TypeOK'
  BY DEF IInv, TypeOK
<1>2. ClientShape'
  BY DEF IInv, TypeOK, ClientShape
<1>3. CtlShape'
  BY InstanceAssumption DEF IInv, TypeOK, CtlShape, Listed, Logout, Unlisted,
    Stack
<1>4. SlotShape'
  BY DEF IInv, SlotShape, Listed, Logout, Unlisted
<1>5. ASSUME NEW s \in Stack PROVE AnswerShape(s)'
  <2>1. s[1] \in Conn /\ (s[2] \in stack_array[s[1]] => pid[s[1]] \in Proc)
    BY StackParts, StackOwner
  <2> QED
    BY <2>1, InstanceAssumption DEF IInv, TypeOK, AnswerShape, Current, Listed
<1>6. /\ \A d \in Conn : InstShape(d)'
      /\ \A d \in Conn : TickShape(d)'
      /\ \A s \in Stack : StackShape(s)'
      /\ ConnsShape'
      /\ \A g \in Fwd : FwdShape(g)'
      /\ \A g \in Fwd, d \in Conn : HoldShape(g, d)'
      /\ SlotCount'
  BY DEF IInv, InstShape, TickShape, StackShape, ConnsShape, FwdShape,
    HoldShape, SlotCount, Current, Draining, Holds, Listed, Used
<1> QED
  BY <1>1, <1>2, <1>3, <1>4, <1>5, <1>6 DEF IInv

(* handle_reg_msg_proc_mem refuses. *)
LEMMA RefuseMemKeeps ==
  ASSUME IInv, NEW c \in Conn, RefuseMem(c)
  PROVE  IInv'
<1> USE DEF RefuseMem, GoEnd, clientVars, mgrVars, instVars, stackVars, fwdVars
<1>1. TypeOK'
  BY DEF IInv, TypeOK
<1>2. CtlShape'
  BY DEF IInv, CtlShape, Listed, Logout, Unlisted
<1>3. SlotShape'
  BY DEF IInv, SlotShape, Listed, Logout, Unlisted
<1>4. ASSUME NEW d \in Conn PROVE InstShape(d)'
  BY DEF IInv, InstShape
<1>5. ASSUME NEW d \in Conn PROVE TickShape(d)'
  BY DEF IInv, TickShape, Current, Listed
<1>6. ASSUME NEW s \in Stack PROVE StackShape(s)'
  BY DEF IInv, StackShape, Current, Listed
<1>7. ASSUME NEW s \in Stack PROVE AnswerShape(s)'
  BY DEF IInv, AnswerShape, Current, Listed
<1>8. ASSUME NEW g \in Fwd, NEW d \in Conn PROVE HoldShape(g, d)'
  BY DEF IInv, HoldShape, Holds, Listed, Draining
<1>9. /\ ClientShape'
      /\ ConnsShape'
      /\ \A g \in Fwd : FwdShape(g)'
      /\ SlotCount'
  BY DEF IInv, ClientShape, ConnsShape, FwdShape, SlotCount, Used
<1> QED
  BY <1>1, <1>2, <1>3, <1>4, <1>5, <1>6, <1>7, <1>8, <1>9 DEF IInv

(* handle_reg_msg_proc_mem: a fresh instance in the first free slot. *)
LEMMA RegProcMemKeeps ==
  ASSUME IInv, NEW c \in Conn, NEW i \in Slot, RegProcMem(c, i)
  PROVE  IInv'
<1>a. /\ ctl_pc = "idle" /\ victim = None /\ conn[c] = "mem" /\ c # None
      /\ mem[c] = "none" /\ range[c] = "free" /\ stack_array[c] = {}
      /\ pid[c] \in Proc /\ main[pid[c]] = c /\ ~hup[c]
  BY InstanceAssumption DEF RegProcMem, IInv, ClientShape, CtlShape, InstShape, Logout
<1>b. /\ tick' = [tick EXCEPT ![i] = @ + 1]
      /\ reg_tick' = [reg_tick EXCEPT ![c] = tick[i]]
      /\ slot' = [slot EXCEPT ![c] = i]
      /\ mem' = [mem EXCEPT ![c] = "live"]
      /\ instances' = [instances EXCEPT ![i] = c]
      /\ cur_instance_num' = cur_instance_num + 1
      /\ instances[i] = None /\ \A j \in 1..(i - 1) : instances[j] # None
      /\ cur_instance_num < MaxInstance /\ ByPid(pid[c]) = {}
      /\ UNCHANGED <<main, thr, pid, hup, reg_state, stack_array, stack_mem,
                     stack_tick, victim, sample, fwd_pc, fwd_inst, fwd_stack,
                     loop_count, conns>>
      /\ named' = [named EXCEPT ![c] = TRUE]
  BY DEF RegProcMem, NewInstance, FirstFree, HasRoom, clientVars, stackVars, fwdVars
<1>c. /\ socket_size' \in [Conn -> BOOLEAN]
      /\ range' \in [Conn -> {"free", "reserved", "attached"}]
      /\ conn' \in [Conn -> {"unused", "mem", "mem_ok", "att", "up", "closed"}]
      /\ \A d \in Conn \ {c} : /\ range'[d] = range[d] /\ conn'[d] = conn[d]
                               /\ socket_size'[d] = socket_size[d]
      /\ range'[c] = "free" \/ (range'[c] = "reserved" /\ socket_size'[c])
      /\ \/ ctl_pc' = "end" /\ cur' = c /\ conn'[c] = "mem"
         \/ ctl_pc' = "idle" /\ cur' = cur /\ conn'[c] = "mem_ok"
  <2>1. /\ socket_size \in [Conn -> BOOLEAN]
        /\ range \in [Conn -> {"free", "reserved", "attached"}]
        /\ conn \in [Conn -> {"unused", "mem", "mem_ok", "att", "up", "closed"}]
    BY DEF IInv, TypeOK
  <2>2. \/ /\ socket_size' = [socket_size EXCEPT ![c] = TRUE]
           /\ range' = [range EXCEPT ![c] = "reserved"]
           /\ conn' = [conn EXCEPT ![c] = "mem_ok"] /\ ctl_pc' = "idle" /\ cur' = cur
        \/ /\ socket_size' = [socket_size EXCEPT ![c] = TRUE]
           /\ range' = [range EXCEPT ![c] = "reserved"]
           /\ conn' = conn /\ ctl_pc' = "end" /\ cur' = c
        \/ /\ socket_size' = socket_size /\ range' = range
           /\ conn' = conn /\ ctl_pc' = "end" /\ cur' = c
    BY <1>a DEF RegProcMem, GoEnd
  <2> QED
    BY <1>a, <2>1, <2>2
<1>d. \A d \in Conn : Listed(d)' <=> Listed(d) \/ d = c
  <2> SUFFICES ASSUME NEW d \in Conn PROVE Listed(d)' <=> Listed(d) \/ d = c
    OBVIOUS
  <2>1. /\ slot \in [Conn -> Slot] /\ instances \in [Slot -> Conn \cup {None}]
        /\ d # None
    BY InstanceAssumption DEF IInv, TypeOK
  <2>2. CASE d = c
    BY <2>1, <2>2, <1>b DEF Listed
  <2>3. CASE d # c
    BY <2>1, <2>3, <1>b DEF Listed
  <2> QED
    BY <2>2, <2>3
<1>e. \A d \in Conn : Current(d)' <=> Listed(d)'
  BY <1>c DEF Current
<1>f. \A d \in Conn : Current(d) <=> Listed(d)
  BY <1>a DEF Current
<1>1. TypeOK'
  <2>1. cur_instance_num' \in 0..MaxInstance
    BY <1>b, InstanceAssumption DEF IInv, TypeOK
  <2>2. /\ tick' \in [Slot -> Nat] /\ reg_tick' \in [Conn -> Nat]
        /\ slot' \in [Conn -> Slot] /\ instances' \in [Slot -> Conn \cup {None}]
        /\ mem' \in [Conn -> {"none", "live", "freed"}]
        /\ named' \in [Conn -> BOOLEAN]
    BY <1>b DEF IInv, TypeOK
  <2>3. /\ ctl_pc' \in {"idle", "end"}
        /\ cur' \in Conn \cup Stack \cup {None}
    BY <1>c DEF IInv, TypeOK
  <2> QED
    BY <2>1, <2>2, <2>3, <1>b, <1>c DEF IInv, TypeOK
<1>2. ClientShape'
  BY <1>a, <1>b, <1>c DEF IInv, TypeOK, ClientShape
<1>3. CtlShape'
  BY <1>a, <1>b, <1>c DEF IInv, CtlShape, Logout, Unlisted
<1>4. SlotShape'
  <2>1. ASSUME NEW j \in Slot, instances'[j] # None
        PROVE  slot'[instances'[j]] = j /\ mem'[instances'[j]] = "live"
    BY <2>1, <1>a, <1>b DEF IInv, TypeOK, SlotShape
  <2>2. ASSUME NEW d \in Conn, mem'[d] = "live"
        PROVE  Listed(d)' /\ pid'[d] \in Proc /\ conn'[d] # "unused"
    BY <2>2, <1>a, <1>b, <1>c, <1>d DEF IInv, TypeOK, SlotShape, Logout, Unlisted
  <2>3. ASSUME NEW d \in Conn, Listed(d), pid[d] = pid[c]
        PROVE  FALSE
    BY <2>3, <1>b DEF IInv, TypeOK, Listed, ByPid
  <2>4. ASSUME NEW d1 \in Conn, NEW d2 \in Conn, Listed(d1)', Listed(d2)',
               pid'[d1] = pid'[d2]
        PROVE  d1 = d2
    BY <2>3, <2>4, <1>b, <1>d DEF IInv, SlotShape
  <2>5. ASSUME NEW p \in Proc, main'[p] # None,
               conn'[main'[p]] \in {"mem_ok", "att", "up"},
               NEW d \in Conn, Listed(d)', pid'[d] = p
        PROVE  d = main'[p]
    <3>1. main[p] \in Conn /\ pid[main[p]] = p
      BY <2>5, <1>b DEF IInv, TypeOK, ClientShape
    <3> QED
      BY <3>1, <2>3, <2>5, <1>a, <1>b, <1>c, <1>d DEF IInv, SlotShape
  <2> QED
    BY <2>1, <2>2, <2>4, <2>5 DEF SlotShape
<1>5. ASSUME NEW d \in Conn PROVE InstShape(d)'
  BY <1>a, <1>b, <1>c DEF IInv, TypeOK, InstShape
<1>6. ASSUME NEW d \in Conn PROVE TickShape(d)'
  BY <1>a, <1>b, <1>c, <1>d, <1>e, <1>f DEF IInv, TypeOK, TickShape, Listed
<1>7. ASSUME NEW s \in Stack PROVE StackShape(s)'
  <2>1. s[1] \in Conn /\ s[2] \in Thread
    BY StackParts
  <2>2. StackShape(s) /\ stack_tick[s] # Off => s[1] # c
    BY <1>a DEF IInv, StackShape
  <2> QED
    BY <2>1, <2>2, <1>a, <1>b, <1>c, <1>d, <1>e, <1>f DEF IInv, TypeOK, StackShape
<1>8. ASSUME NEW s \in Stack PROVE AnswerShape(s)'
  <2>1. s[1] \in Conn /\ AnswerShape(s)
    BY StackParts DEF IInv
  <2> QED
    BY <2>1, <1>a, <1>b, <1>d, <1>e, <1>f DEF AnswerShape
<1>9. ConnsShape'
  <2> SUFFICES ASSUME NEW e \in conns
               PROVE  e.slot = slot'[e.stack[1]] /\ e.tick = stack_tick[e.stack]
                      /\ e.tick # Off
    BY <1>b DEF ConnsShape
  <2>1. e.stack \in Stack /\ e.stack[1] \in Conn
    BY StackParts DEF IInv, TypeOK
  <2>2. e.stack[1] # c
    BY <2>1, <1>a DEF IInv, ConnsShape, StackShape
  <2> QED
    BY <2>1, <2>2, <1>b DEF IInv, TypeOK, ConnsShape
<1>10. ASSUME NEW g \in Fwd, NEW d \in Conn PROVE HoldShape(g, d)'
  BY <1>a, <1>b, <1>c, <1>d DEF IInv, TypeOK, HoldShape, Holds, Draining
<1>11. SlotCount'
  <2>1. i \notin Used /\ Used' = Used \cup {i} /\ IsFiniteSet(Used)
    BY <1>a, <1>b, SlotsFinite DEF IInv, TypeOK, Used
  <2>2. Cardinality(Used') = Cardinality(Used) + 1
    BY <2>1, FS_AddElement
  <2>3. 1..(i - 1) \subseteq Used
    BY <1>b, InstanceAssumption DEF Used, Slot
  <2>4. i - 1 <= Cardinality(Used)
    <3>1. i \in Int /\ i - 1 \in Int /\ i >= 1
      BY InstanceAssumption DEF Slot
    <3>2. PICK k \in Int : k = i - 1
      BY <3>1
    <3>3. Cardinality(1..k) = k
      <4>1. Cardinality(1..k) = IF 1 > k THEN 0 ELSE k - 1 + 1
        BY FS_Interval
      <4> QED
        BY <4>1, <3>1, <3>2
    <3>4. Cardinality(1..k) <= Cardinality(Used)
      BY <3>2, <2>1, <2>3, FS_Subset
    <3> QED
      BY <3>2, <3>3, <3>4
  <2>5. i <= MaxInstance
    BY <2>4, <1>b, InstanceAssumption DEF IInv, TypeOK, SlotCount, Slot
  <2> QED
    BY <2>1, <2>2, <2>5, <1>b DEF IInv, SlotCount
<1>12. \A g \in Fwd : FwdShape(g)'
  BY <1>b DEF IInv, FwdShape
<1> QED
  BY <1>1, <1>2, <1>3, <1>4, <1>5, <1>6, <1>7, <1>8, <1>9, <1>10, <1>11, <1>12
  DEF IInv

(* handle_reg_msg_proc_att refuses. *)
LEMMA RefuseAttachKeeps ==
  ASSUME IInv, NEW c \in Conn, RefuseAttach(c)
  PROVE  IInv'
<1> USE DEF RefuseAttach, GoEnd, clientVars, connVars, mgrVars, instVars, stackVars, fwdVars
<1>1. TypeOK'
  BY DEF IInv, TypeOK
<1>2. CtlShape'
  BY DEF IInv, CtlShape, Listed, Logout, Unlisted
<1>3. SlotShape'
  BY DEF IInv, SlotShape, Listed, Logout, Unlisted
<1>4. ASSUME NEW d \in Conn PROVE InstShape(d)'
  BY DEF IInv, InstShape
<1>5. ASSUME NEW d \in Conn PROVE TickShape(d)'
  BY DEF IInv, TickShape, Current, Listed
<1>6. ASSUME NEW s \in Stack PROVE StackShape(s)'
  BY DEF IInv, StackShape, Current, Listed
<1>7. ASSUME NEW s \in Stack PROVE AnswerShape(s)'
  BY DEF IInv, AnswerShape, Current, Listed
<1>8. ASSUME NEW g \in Fwd, NEW d \in Conn PROVE HoldShape(g, d)'
  BY DEF IInv, HoldShape, Holds, Listed, Draining
<1>9. /\ ClientShape'
      /\ ConnsShape'
      /\ \A g \in Fwd : FwdShape(g)'
      /\ SlotCount'
  BY DEF IInv, ClientShape, ConnsShape, FwdShape, SlotCount, Used
<1> QED
  BY <1>1, <1>2, <1>3, <1>4, <1>5, <1>6, <1>7, <1>8, <1>9 DEF IInv

(* handle_reg_msg_proc_att: the instance it finds is the connection's own. *)
LEMMA RegProcAttKeeps ==
  ASSUME IInv, NEW c \in Conn, RegProcAtt(c)
  PROVE  IInv'
<1>a. /\ ctl_pc = "idle" /\ victim = None /\ conn[c] = "att"
      /\ Listed(c) /\ mem[c] = "live" /\ main[pid[c]] = c /\ pid[c] \in Proc
      /\ stack_array[c] = {}
  <2>1. conn[c] = "att" /\ ~hup[c] /\ ctl_pc = "idle" /\ \E d \in ByPid(pid[c]) : TRUE
    BY DEF RegProcAtt
  <2>2. Listed(c) /\ mem[c] = "live" /\ main[pid[c]] = c
    BY <2>1, FoundIsMine
  <2> QED
    BY <2>1, <2>2, StackOwner DEF IInv, ClientShape, CtlShape, Logout
<1>b. /\ reg_state' = [reg_state EXCEPT ![c] = "att"]
      /\ \/ /\ range' = [range EXCEPT ![c] = "attached"]
            /\ reg_tick' = [reg_tick EXCEPT ![c] = tick[slot[c]]]
            /\ conn' = [conn EXCEPT ![c] = "up"]
            /\ ctl_pc' = "idle" /\ cur' = cur
         \/ /\ range' \in {[range EXCEPT ![c] = "attached"], [range EXCEPT ![c] = "free"]}
            /\ ctl_pc' = "end" /\ cur' = c
            /\ UNCHANGED <<reg_tick, conn>>
  <2>1. PICK d \in ByPid(pid[c]) :
          /\ reg_state' = [reg_state EXCEPT ![d] = "att"]
          /\ \/ /\ range' = [range EXCEPT ![d] = "attached"]
                /\ \/ /\ reg_tick' = [reg_tick EXCEPT ![d] = tick[slot[d]]]
                      /\ conn' = [conn EXCEPT ![c] = "up"]
                      /\ UNCHANGED <<ctl_pc, cur>>
                   \/ GoEnd(c) /\ UNCHANGED <<reg_tick, conn>>
             \/ /\ range' = [range EXCEPT ![d] = "free"]
                /\ GoEnd(c)
                /\ UNCHANGED <<reg_tick, conn>>
    BY DEF RegProcAtt
  <2>2. d = c
    BY <2>1, FoundIsMine DEF RegProcAtt
  <2> QED
    BY <1>a, <2>1, <2>2 DEF GoEnd
<1>c. UNCHANGED <<main, thr, pid, hup, named, instances, tick, cur_instance_num,
                  mem, slot, stack_array, socket_size, stack_mem, stack_tick,
                  victim, sample, fwd_pc, fwd_inst, fwd_stack, loop_count, conns>>
  BY DEF RegProcAtt, clientVars, mgrVars, stackVars, fwdVars
<1>d. /\ range' \in [Conn -> {"free", "reserved", "attached"}]
      /\ conn' \in [Conn -> {"unused", "mem", "mem_ok", "att", "up", "closed"}]
      /\ reg_tick' \in [Conn -> Nat]
      /\ \A d \in Conn \ {c} : /\ range'[d] = range[d] /\ conn'[d] = conn[d]
                               /\ reg_tick'[d] = reg_tick[d]
                               /\ reg_state'[d] = reg_state[d]
      /\ reg_state'[c] = "att" /\ range'[c] \in {"attached", "free"}
      /\ \/ /\ range'[c] = "attached" /\ reg_tick'[c] = tick[slot[c]]
            /\ conn'[c] = "up" /\ ctl_pc' = "idle" /\ cur' = cur
         \/ /\ reg_tick'[c] = reg_tick[c] /\ conn'[c] = "att"
            /\ ctl_pc' = "end" /\ cur' = c
  <2>1. /\ range \in [Conn -> {"free", "reserved", "attached"}]
        /\ conn \in [Conn -> {"unused", "mem", "mem_ok", "att", "up", "closed"}]
        /\ reg_tick \in [Conn -> Nat] /\ tick[slot[c]] \in Nat
        /\ reg_state \in [Conn -> {"mem", "att", "thrd"}]
    BY DEF IInv, TypeOK
  <2>2. /\ range' \in [Conn -> {"free", "reserved", "attached"}]
        /\ \A d \in Conn \ {c} : range'[d] = range[d]
        /\ range'[c] \in {"attached", "free"}
    BY <1>b, <2>1
  <2>3. /\ conn' \in [Conn -> {"unused", "mem", "mem_ok", "att", "up", "closed"}]
        /\ reg_tick' \in [Conn -> Nat]
        /\ \A d \in Conn \ {c} : /\ conn'[d] = conn[d]
                                 /\ reg_tick'[d] = reg_tick[d]
                                 /\ reg_state'[d] = reg_state[d]
    BY <1>b, <2>1
  <2> QED
    BY <1>a, <1>b, <2>1, <2>2, <2>3
<1>e. \A d \in Conn : (Current(d)' <=> Current(d)) /\ (Listed(d)' <=> Listed(d))
  BY <1>a, <1>c, <1>d DEF Current, Listed
<1>f. Current(c)
  BY <1>a DEF Current
<1>1. TypeOK'
  BY <1>b, <1>c, <1>d DEF IInv, TypeOK
<1>2. ClientShape'
  <2>1. ClientShape /\ main \in [Proc -> Conn \cup {None}]
    BY DEF IInv, TypeOK
  <2> QED
    BY <2>1, <1>a, <1>c, <1>d DEF ClientShape
<1>3. CtlShape'
  BY <1>a, <1>c, <1>d DEF IInv, CtlShape, Logout, Unlisted
<1>4. SlotShape'
  BY <1>a, <1>c, <1>d, <1>e DEF IInv, TypeOK, SlotShape, Logout, Unlisted
<1>5. ASSUME NEW d \in Conn PROVE InstShape(d)'
  BY <1>a, <1>c, <1>d DEF IInv, TypeOK, InstShape
<1>6. ASSUME NEW d \in Conn PROVE TickShape(d)'
  <2>1. CASE d = c
    BY <2>1, <1>a, <1>c, <1>d, <1>e, <1>f DEF IInv, TypeOK, TickShape
  <2>2. CASE d # c
    BY <2>2, <1>c, <1>d, <1>e DEF IInv, TypeOK, TickShape
  <2> QED
    BY <2>1, <2>2
<1>7. ASSUME NEW s \in Stack PROVE StackShape(s)'
  <2>1. s[1] \in Conn /\ StackShape(s) /\ (stack_tick[s] # Off => s[1] # c)
    BY <1>a, StackParts DEF IInv, StackShape
  <2> QED
    BY <2>1, <1>c, <1>d, <1>e DEF StackShape
<1>8. ASSUME NEW s \in Stack PROVE AnswerShape(s)'
  <2>1. s[1] \in Conn /\ AnswerShape(s)
    BY StackParts DEF IInv
  <2> QED
    BY <2>1, <1>a, <1>c, <1>e DEF AnswerShape
<1>9. ASSUME NEW g \in Fwd, NEW d \in Conn PROVE HoldShape(g, d)'
  BY <1>a, <1>c, <1>d, <1>e DEF IInv, HoldShape, Holds, Draining
<1>10. ConnsShape' /\ SlotCount' /\ \A g \in Fwd : FwdShape(g)'
  BY <1>c DEF IInv, ConnsShape, SlotCount, Used, FwdShape
<1> QED
  BY <1>1, <1>2, <1>3, <1>4, <1>5, <1>6, <1>7, <1>8, <1>9, <1>10 DEF IInv

(* handle_reg_msg_thrd_ring answers at once. *)
LEMMA AnswerThreadKeeps ==
  ASSUME IInv, NEW p \in Proc, NEW t \in Thread, AnswerThread(p, t)
  PROVE  IInv'
<1> USE DEF AnswerThread, ByPid, connVars, mgrVars, instVars, stackVars, ctlVars, fwdVars
<1>1. TypeOK'
  BY DEF IInv, TypeOK
<1>2. ClientShape'
  BY DEF IInv, ClientShape
<1>3. CtlShape'
  BY DEF IInv, CtlShape, Listed, Logout, Unlisted
<1>4. /\ SlotShape'
      /\ \A d \in Conn : InstShape(d)'
      /\ \A d \in Conn : TickShape(d)'
      /\ \A s \in Stack : StackShape(s)'
      /\ \A s \in Stack : AnswerShape(s)'
      /\ ConnsShape'
      /\ \A g \in Fwd : FwdShape(g)'
      /\ \A g \in Fwd, d \in Conn : HoldShape(g, d)'
      /\ SlotCount'
  BY DEF IInv, SlotShape, InstShape, TickShape, StackShape, AnswerShape,
    ConnsShape, FwdShape, HoldShape, SlotCount, Current, Draining, Holds,
    Listed, Logout, Unlisted, Used
<1> QED
  BY <1>1, <1>2, <1>3, <1>4 DEF IInv

(* handle_reg_msg_thrd_ring: a new stack of the process's own instance. *)
LEMMA RegThrdRingKeeps ==
  ASSUME IInv, NEW p \in Proc, NEW t \in Thread, RegThrdRing(p, t)
  PROVE  IInv'
<1>a. PICK c \in ByPid(p) :
        /\ t \notin stack_array[c]
        /\ stack_mem' = [stack_mem EXCEPT ![<<c, t>>] = "live"]
        /\ stack_array' = [stack_array EXCEPT ![c] = @ \cup {t}]
        /\ reg_state' = [reg_state EXCEPT ![c] = "thrd"]
        /\ cur' = <<c, t>>
  BY DEF RegThrdRing
<1>b. /\ ctl_pc = "idle" /\ ctl_pc' = "thread" /\ thr[p][t] = "sent"
      /\ UNCHANGED <<main, thr, conn, pid, hup, named, instances, tick,
                     cur_instance_num, mem, slot, reg_tick, socket_size, range,
                     stack_tick, victim, sample, fwd_pc, fwd_inst, fwd_stack,
                     loop_count, conns>>
  BY DEF RegThrdRing, clientVars, connVars, mgrVars, fwdVars
<1>c. /\ c \in Conn /\ c = main[p] /\ pid[c] = p
      /\ Listed(c) /\ mem[c] = "live" /\ conn[c] = "up"
  BY <1>b, FoundForThread
<1>d. Current(c) /\ victim = None
  BY <1>b, <1>c DEF Current, IInv, CtlShape, Logout
<1>e. range[c] = "attached"
  BY <1>c, <1>d DEF IInv, TickShape
<1>f. \A d \in Conn : (Current(d)' <=> Current(d)) /\ (Listed(d)' <=> Listed(d))
  BY <1>b DEF Current, Listed
<1>g. /\ <<c, t>> \in Stack /\ <<c, t>>[1] = c /\ <<c, t>>[2] = t
      /\ stack_tick[<<c, t>>] = Off
  <2>1. <<c, t>> \in Stack /\ <<c, t>>[1] = c /\ <<c, t>>[2] = t
    BY <1>c DEF Stack
  <2> QED
    BY <2>1, <1>a, <1>d DEF IInv, StackShape
<1>1. TypeOK'
  BY <1>a, <1>b, <1>c, <1>g DEF IInv, TypeOK
<1>2. CtlShape'
  BY <1>a, <1>b, <1>c, <1>d, <1>f, <1>g DEF IInv, TypeOK, CtlShape, Logout, Unlisted
<1>3. SlotShape'
  BY <1>b, <1>d, <1>f DEF IInv, SlotShape, Logout, Unlisted
<1>4. ASSUME NEW d \in Conn PROVE InstShape(d)'
  <2>1. InstShape(d)
    BY DEF IInv
  <2>2. CASE d = c
    BY <2>1, <2>2, <1>a, <1>b, <1>c, <1>e DEF IInv, TypeOK, InstShape
  <2>3. CASE d # c
    BY <2>1, <2>3, <1>a, <1>b DEF IInv, TypeOK, InstShape
  <2> QED
    BY <2>2, <2>3
<1>5. ASSUME NEW d \in Conn PROVE TickShape(d)'
  BY <1>b, <1>f DEF IInv, TickShape
<1>6. ASSUME NEW s \in Stack PROVE StackShape(s)'
  <2>1. /\ s[1] \in Conn /\ StackShape(s)
        /\ s # <<c, t>> => s[1] # c \/ s[2] # t
    BY StackParts DEF IInv
  <2>2. CASE s = <<c, t>>
    BY <2>1, <2>2, <1>a, <1>b, <1>c, <1>g, <1>f DEF IInv, TypeOK, StackShape
  <2>3. CASE s # <<c, t>>
    BY <2>1, <2>3, <1>a, <1>b, <1>f DEF IInv, TypeOK, StackShape
  <2> QED
    BY <2>2, <2>3
<1>7. ASSUME NEW s \in Stack PROVE AnswerShape(s)'
  <2>1. /\ s[1] \in Conn /\ AnswerShape(s)
        /\ s # <<c, t>> => s[1] # c \/ s[2] # t
    BY StackParts DEF IInv
  <2> QED
    BY <2>1, <1>a, <1>b, <1>c, <1>f DEF IInv, TypeOK, AnswerShape
<1>8. ASSUME NEW g \in Fwd PROVE FwdShape(g)'
  <2>1. /\ FwdShape(g)
        /\ fwd_stack[g] # None => fwd_stack[g][1] \in Conn
    BY StackParts DEF IInv, TypeOK
  <2> QED
    BY <2>1, <1>a, <1>b DEF IInv, TypeOK, FwdShape
<1>9. ASSUME NEW g \in Fwd, NEW d \in Conn PROVE HoldShape(g, d)'
  BY <1>b, <1>d, <1>f, InstanceAssumption DEF IInv, HoldShape, Holds, Draining
<1>10. ClientShape' /\ ConnsShape' /\ SlotCount'
  BY <1>b DEF IInv, ClientShape, ConnsShape, SlotCount, Used
<1> QED
  BY <1>1, <1>2, <1>3, <1>4, <1>5, <1>6, <1>7, <1>8, <1>9, <1>10 DEF IInv

(* The stack is on, unless its client is gone. *)
LEMMA StackOnKeeps ==
  ASSUME IInv, StackOn
  PROVE  IInv'
<1> DEFINE c == cur[1]
           t == cur[2]
           p == pid[cur[1]]
<1>a. /\ ctl_pc = "thread" /\ ctl_pc' = "idle" /\ cur' = None
      /\ UNCHANGED <<main, conn, pid, hup, named, instances, tick,
                     cur_instance_num, mem, slot, reg_tick, reg_state,
                     stack_array, socket_size, range, stack_mem, victim, sample,
                     fwd_pc, fwd_inst, fwd_stack, loop_count, conns>>
  BY DEF StackOn, connVars, mgrVars, instVars, fwdVars
<1>b. \/ /\ thr[p][t] = "sent"
         /\ thr' = [thr EXCEPT ![p][t] = "answered"]
         /\ stack_tick' = [stack_tick EXCEPT ![cur] = reg_tick[c]]
      \/ /\ thr[p][t] # "sent"
         /\ UNCHANGED <<thr, stack_tick>>
  BY DEF StackOn
<1>c. /\ cur \in Stack /\ c \in Conn /\ t \in Thread
      /\ Listed(c) /\ t \in stack_array[c] /\ stack_tick[cur] = Off
      /\ thr[p][t] = "sent" \/ main[p] # c
      /\ victim = None
  BY <1>a, StackParts DEF IInv, CtlShape, Logout
<1>d. p \in Proc /\ Current(c) /\ mem[c] = "live" /\ conn[c] \in {"up", "closed"}
  BY <1>a, <1>c, StackOwner DEF Current
<1>e. \A d \in Conn : (Current(d)' <=> Current(d)) /\ (Listed(d)' <=> Listed(d))
  BY <1>a DEF Current, Listed
<1>f. thr[p][t] = "sent" => reg_tick[c] = tick[slot[c]] /\ reg_tick[c] # Off
  <2>1. thr[p][t] = "sent" => main[p] # None /\ conn[main[p]] = "up"
    BY <1>c, <1>d DEF IInv, ClientShape
  <2>2. thr[p][t] = "sent" => conn[c] = "up"
    BY <2>1, <1>c, <1>d DEF IInv, SlotShape
  <2>3. TickShape(c) /\ slot[c] \in Slot /\ tick \in [Slot -> Nat]
    BY <1>c DEF IInv, TypeOK
  <2> QED
    BY <2>2, <2>3, <1>d DEF TickShape, Off
<1>g. \A s \in Stack : stack_tick[s] # Off => stack_tick'[s] = stack_tick[s]
  BY <1>b, <1>c DEF IInv, TypeOK
<1> HIDE DEF c, t, p
<1>1. TypeOK'
  <2>1. thr' \in [Proc -> [Thread -> {"idle", "sent", "answered"}]]
    <3>1. thr \in [Proc -> [Thread -> {"idle", "sent", "answered"}]]
      BY DEF IInv, TypeOK
    <3> QED
      BY <3>1, <1>b, <1>c, <1>d
  <2>2. stack_tick' \in [Stack -> Nat]
    BY <1>b, <1>c, <1>d DEF IInv, TypeOK
  <2> QED
    BY <2>1, <2>2, <1>a DEF IInv, TypeOK
<1>2. ClientShape'
  <2>1. \A q \in Proc, u \in Thread : thr'[q][u] # "idle" => thr[q][u] # "idle"
    <3>1. thr \in [Proc -> [Thread -> {"idle", "sent", "answered"}]]
      BY DEF IInv, TypeOK
    <3> QED
      BY <3>1, <1>b, <1>c, <1>d
  <2> QED
    BY <2>1, <1>a DEF IInv, ClientShape
<1>3. CtlShape'
  BY <1>a DEF IInv, CtlShape, Logout, Unlisted
<1>4. SlotShape'
  BY <1>a, <1>e DEF IInv, SlotShape, Logout, Unlisted
<1>5. ASSUME NEW d \in Conn PROVE InstShape(d)'
  BY <1>a DEF IInv, InstShape
<1>6. ASSUME NEW d \in Conn PROVE TickShape(d)'
  BY <1>a, <1>e DEF IInv, TickShape
<1>7. ASSUME NEW s \in Stack PROVE StackShape(s)'
  <2>1. s[1] \in Conn /\ StackShape(s)
    BY StackParts DEF IInv
  <2>2. CASE s = cur
    BY <2>1, <2>2, <1>a, <1>b, <1>c, <1>d, <1>e DEF IInv, TypeOK, StackShape, c, t
  <2>3. CASE s # cur
    BY <2>1, <2>3, <1>a, <1>b, <1>e DEF IInv, TypeOK, StackShape
  <2> QED
    BY <2>2, <2>3
<1>8. ASSUME NEW s \in Stack PROVE AnswerShape(s)'
  <2>1. s[1] \in Conn /\ AnswerShape(s)
    BY StackParts DEF IInv
  <2>2. CASE s = cur
    BY <2>1, <2>2, <1>a, <1>b, <1>c, <1>f DEF IInv, TypeOK, AnswerShape, c, t, p
  <2>3. CASE s # cur
    BY <2>1, <2>3, <1>a, <1>e, <1>g DEF AnswerShape
  <2> QED
    BY <2>2, <2>3
<1>9. ConnsShape'
  BY <1>a, <1>g DEF IInv, TypeOK, ConnsShape
<1>10. ASSUME NEW g \in Fwd PROVE FwdShape(g)'
  BY <1>a, <1>g DEF IInv, TypeOK, FwdShape
<1>11. ASSUME NEW g \in Fwd, NEW d \in Conn PROVE HoldShape(g, d)'
  BY <1>a, <1>e DEF IInv, HoldShape, Holds, Draining
<1>12. SlotCount'
  BY <1>a DEF IInv, SlotCount, Used
<1> QED
  BY <1>1, <1>2, <1>3, <1>4, <1>5, <1>6, <1>7, <1>8, <1>9, <1>10, <1>11, <1>12
  DEF IInv

(* EPOLLHUP. *)
LEMMA HandleHupKeeps ==
  ASSUME IInv, NEW c \in Conn, HandleHup(c)
  PROVE  IInv'
<1> USE DEF HandleHup, GoEnd, clientVars, connVars, mgrVars, instVars, stackVars, fwdVars
<1>1. TypeOK'
  BY DEF IInv, TypeOK
<1>2. CtlShape'
  BY DEF IInv, CtlShape, Listed, Logout, Unlisted
<1>3. SlotShape'
  BY DEF IInv, SlotShape, Listed, Logout, Unlisted
<1>4. ASSUME NEW d \in Conn PROVE InstShape(d)'
  BY DEF IInv, InstShape
<1>5. ASSUME NEW d \in Conn PROVE TickShape(d)'
  BY DEF IInv, TickShape, Current, Listed
<1>6. ASSUME NEW s \in Stack PROVE StackShape(s)'
  BY DEF IInv, StackShape, Current, Listed
<1>7. ASSUME NEW s \in Stack PROVE AnswerShape(s)'
  BY DEF IInv, AnswerShape, Current, Listed
<1>8. ASSUME NEW g \in Fwd, NEW d \in Conn PROVE HoldShape(g, d)'
  BY DEF IInv, HoldShape, Holds, Listed, Draining
<1>9. /\ ClientShape'
      /\ ConnsShape'
      /\ \A g \in Fwd : FwdShape(g)'
      /\ SlotCount'
  BY DEF IInv, ClientShape, ConnsShape, FwdShape, SlotCount, Used
<1> QED
  BY <1>1, <1>2, <1>3, <1>4, <1>5, <1>6, <1>7, <1>8, <1>9 DEF IInv

(* END without a logout. *)
LEMMA EndPlainKeeps ==
  ASSUME IInv, EndPlain
  PROVE  IInv'
<1> USE DEF EndPlain, FreeSockfd, ByPid, mgrVars, instVars, stackVars, fwdVars
<1>1. TypeOK'
  BY DEF IInv, TypeOK
<1>2. ClientShape'
  BY DEF IInv, TypeOK, ClientShape
<1>3. CtlShape'
  BY DEF IInv, CtlShape, Listed, Logout, Unlisted
<1>4. SlotShape'
  BY DEF IInv, SlotShape, Listed, Logout, Unlisted
<1>5. ASSUME NEW d \in Conn PROVE InstShape(d)'
  BY DEF IInv, TypeOK, InstShape
<1>6. ASSUME NEW d \in Conn PROVE TickShape(d)'
  BY DEF IInv, TickShape, Current, Listed
<1>7. ASSUME NEW s \in Stack PROVE StackShape(s)'
  BY DEF IInv, StackShape, Current, Listed
<1>8. ASSUME NEW s \in Stack PROVE AnswerShape(s)'
  <2>1. s[1] \in Conn /\ (s[2] \in stack_array[s[1]] => pid[s[1]] \in Proc)
    BY StackParts, StackOwner
  <2> QED
    BY <2>1, InstanceAssumption DEF IInv, TypeOK, CtlShape, AnswerShape, Current, Listed
<1>9. ASSUME NEW g \in Fwd, NEW d \in Conn PROVE HoldShape(g, d)'
  BY DEF IInv, HoldShape, Holds, Listed, Draining
<1>10. /\ ConnsShape'
       /\ \A g \in Fwd : FwdShape(g)'
       /\ SlotCount'
  BY DEF IInv, ConnsShape, FwdShape, SlotCount, Used
<1> QED
  BY <1>1, <1>2, <1>3, <1>4, <1>5, <1>6, <1>7, <1>8, <1>9, <1>10 DEF IInv

(* instance_cur_tick++: what remembered the old tick is off. *)
LEMMA LogoutTickKeeps ==
  ASSUME IInv, LogoutTick
  PROVE  IInv'
<1>a. PICK c \in ByPid(pid[cur]) :
        victim' = c /\ tick' = [tick EXCEPT ![slot[c]] = @ + 1]
  BY DEF LogoutTick
<1>b. /\ ctl_pc = "end" /\ ctl_pc' = "unlist" /\ cur \in Conn /\ victim = None
      /\ UNCHANGED <<main, thr, conn, pid, hup, named, instances,
                     cur_instance_num, mem, slot, reg_tick, reg_state,
                     stack_array, socket_size, range, stack_mem, stack_tick, cur,
                     sample, fwd_pc, fwd_inst, fwd_stack, loop_count, conns>>
  BY DEF LogoutTick, IInv, CtlShape, Logout, clientVars, connVars, instVars,
         stackVars, fwdVars
<1>c. c \in Conn /\ c # None /\ Listed(c) /\ mem[c] = "live"
  <2>1. pid[cur] \in Proc \cup {None}
    BY <1>b DEF IInv, TypeOK
  <2> QED
    BY <2>1, FoundIsListed, InstanceAssumption
<1>d. \A d \in Conn : /\ Listed(d)' <=> Listed(d)
                      /\ Current(d) <=> Listed(d)
                      /\ Current(d)' <=> Listed(d) /\ d # c
  BY <1>a, <1>b DEF Current, Listed
<1>1. TypeOK'
  BY <1>a, <1>b, <1>c DEF IInv, TypeOK
<1>2. CtlShape'
  BY <1>a, <1>b, <1>c, <1>d DEF IInv, CtlShape, Logout, Unlisted
<1>3. SlotShape'
  BY <1>b, <1>d DEF IInv, SlotShape, Logout, Unlisted
<1>4. ASSUME NEW d \in Conn PROVE InstShape(d)'
  BY <1>b DEF IInv, InstShape
<1>5. ASSUME NEW d \in Conn PROVE TickShape(d)'
  <2>1. /\ TickShape(d)
        /\ slot[c] \in Slot /\ slot[d] \in Slot /\ tick \in [Slot -> Nat]
        /\ reg_tick[d] \in Nat
    BY <1>c DEF IInv, TypeOK
  <2>2. CASE slot[d] = slot[c]
    <3>1. Listed(d) => d = c
      BY <2>2, <1>c DEF Listed
    <3> QED
      BY <3>1, <2>1, <2>2, <1>a, <1>b, <1>d DEF TickShape
  <2>3. CASE slot[d] # slot[c]
    BY <2>1, <2>3, <1>a, <1>b, <1>d DEF TickShape
  <2> QED
    BY <2>2, <2>3
<1>6. ASSUME NEW s \in Stack PROVE StackShape(s)' /\ AnswerShape(s)'
  <2>1. s[1] \in Conn /\ StackShape(s) /\ AnswerShape(s)
    BY StackParts DEF IInv
  <2> QED
    BY <2>1, <1>b, <1>d DEF StackShape, AnswerShape
<1>7. ASSUME NEW g \in Fwd, NEW d \in Conn PROVE HoldShape(g, d)'
  BY <1>b, <1>d DEF IInv, HoldShape, Holds, Draining
<1>8. /\ ClientShape' /\ ConnsShape' /\ SlotCount'
      /\ \A g \in Fwd : FwdShape(g)'
  BY <1>b DEF IInv, ClientShape, ConnsShape, SlotCount, Used, FwdShape
<1> QED
  BY <1>1, <1>2, <1>3, <1>4, <1>5, <1>6, <1>7, <1>8 DEF IInv

(* gazelle_set_instance_null_by_pid: the slot is free. *)
LEMMA LogoutUnlistKeeps ==
  ASSUME IInv, LogoutUnlist
  PROVE  IInv'
<1> DEFINE i == slot[victim]
<1>a. /\ ctl_pc = "unlist" /\ ctl_pc' = "sample_rx"
      /\ instances' = [instances EXCEPT ![i] = None]
      /\ cur_instance_num' = cur_instance_num - 1
      /\ UNCHANGED <<main, thr, conn, pid, hup, named, tick, mem, slot, reg_tick,
                     reg_state, stack_array, socket_size, range, stack_mem,
                     stack_tick, cur, victim, sample, fwd_pc, fwd_inst,
                     fwd_stack, loop_count, conns>>
  BY DEF LogoutUnlist, clientVars, connVars, instVars, stackVars, fwdVars
<1>b. /\ victim \in Conn /\ victim # None /\ mem[victim] = "live" /\ Listed(victim)
      /\ i \in Slot /\ instances[i] = victim
      /\ instances \in [Slot -> Conn \cup {None}] /\ slot \in [Conn -> Slot]
  BY <1>a, InstanceAssumption DEF IInv, TypeOK, CtlShape, Listed, Logout
<1>c. \A d \in Conn : /\ Listed(d)' <=> Listed(d) /\ d # victim
                      /\ Current(d) <=> Listed(d) /\ d # victim
                      /\ Current(d)' <=> Listed(d) /\ d # victim
  <2>1. \A d \in Conn : Listed(d)' <=> Listed(d) /\ d # victim
    BY <1>a, <1>b, InstanceAssumption DEF Listed
  <2> QED
    BY <2>1, <1>a DEF Current
<1>d. /\ Used' = Used \ {i} /\ i \in Used /\ IsFiniteSet(Used)
      /\ Cardinality(Used') = Cardinality(Used) - 1 /\ Cardinality(Used) \in Nat
      /\ Cardinality(Used) # 0
  <2>1. Used' = Used \ {i} /\ i \in Used /\ IsFiniteSet(Used)
    BY <1>a, <1>b, SlotsFinite DEF Used
  <2>2. Cardinality(Used') = Cardinality(Used) - 1 /\ Cardinality(Used) \in Nat
    BY <2>1, FS_RemoveElement, FS_CardinalityType
  <2>3. Cardinality(Used) # 0
    BY <2>1, FS_EmptySet
  <2> QED
    BY <2>1, <2>2, <2>3
<1>e. SlotCount /\ cur_instance_num \in 0..MaxInstance
  BY DEF IInv, TypeOK
<1> HIDE DEF i
<1>1. TypeOK'
  <2>1. cur_instance_num' \in 0..MaxInstance
    BY <1>a, <1>d, <1>e, InstanceAssumption DEF SlotCount
  <2>2. instances' \in [Slot -> Conn \cup {None}]
    BY <1>a, <1>b
  <2> QED
    BY <2>1, <2>2, <1>a DEF IInv, TypeOK
<1>2. CtlShape'
  BY <1>a, <1>b, <1>c DEF IInv, CtlShape, Logout, Unlisted
<1>3. SlotShape'
  <2>1. SlotShape
    BY DEF IInv
  <2> QED
    BY <2>1, <1>a, <1>b, <1>c DEF SlotShape, Logout, Unlisted
<1>4. ASSUME NEW d \in Conn PROVE InstShape(d)'
  BY <1>a DEF IInv, InstShape
<1>5. ASSUME NEW d \in Conn PROVE TickShape(d)'
  BY <1>a, <1>c DEF IInv, TickShape
<1>6. ASSUME NEW s \in Stack PROVE StackShape(s)' /\ AnswerShape(s)'
  <2>1. s[1] \in Conn /\ StackShape(s) /\ AnswerShape(s)
    BY StackParts DEF IInv
  <2> QED
    BY <2>1, <1>a, <1>c DEF StackShape, AnswerShape
<1>7. ASSUME NEW g \in Fwd, NEW d \in Conn PROVE HoldShape(g, d)'
  <2>1. HoldShape(g, d)
    BY DEF IInv
  <2> QED
    BY <2>1, <1>a, <1>c DEF HoldShape, Holds, Draining
<1>8. SlotCount'
  BY <1>a, <1>d, <1>e DEF SlotCount
<1>9. ClientShape' /\ ConnsShape' /\ \A g \in Fwd : FwdShape(g)'
  BY <1>a DEF IInv, ClientShape, ConnsShape, FwdShape
<1> QED
  BY <1>1, <1>2, <1>3, <1>4, <1>5, <1>6, <1>7, <1>8, <1>9 DEF IInv

(* wait_forward_done: what rx holds of the victim, it holds in this pass. *)
LEMMA SampleRxKeeps ==
  ASSUME IInv, SampleRx
  PROVE  IInv'
<1> USE DEF SampleRx, clientVars, connVars, mgrVars, instVars, stackVars, fwdVars
<1>1. TypeOK'
  BY DEF IInv, TypeOK
<1>2. CtlShape'
  BY DEF IInv, CtlShape, Listed, Logout, Unlisted
<1>3. SlotShape'
  BY DEF IInv, SlotShape, Listed, Logout, Unlisted
<1>4. ASSUME NEW d \in Conn PROVE InstShape(d)'
  BY DEF IInv, InstShape
<1>5. ASSUME NEW d \in Conn PROVE TickShape(d)'
  BY DEF IInv, TickShape, Current, Listed
<1>6. ASSUME NEW s \in Stack PROVE StackShape(s)'
  BY DEF IInv, StackShape, Current, Listed
<1>7. ASSUME NEW s \in Stack PROVE AnswerShape(s)'
  BY DEF IInv, AnswerShape, Current, Listed
<1>8. ASSUME NEW g \in Fwd, NEW d \in Conn PROVE HoldShape(g, d)'
  BY DEF IInv, TypeOK, HoldShape, Holds, Listed, Draining
<1>9. /\ ClientShape'
      /\ ConnsShape'
      /\ \A g \in Fwd : FwdShape(g)'
      /\ SlotCount'
  BY DEF IInv, ClientShape, ConnsShape, FwdShape, SlotCount, Used
<1> QED
  BY <1>1, <1>2, <1>3, <1>4, <1>5, <1>6, <1>7, <1>8, <1>9 DEF IInv

(* wait_forward_done: the same for tx. *)
LEMMA SampleTxKeeps ==
  ASSUME IInv, SampleTx
  PROVE  IInv'
<1> USE DEF SampleTx, clientVars, connVars, mgrVars, instVars, stackVars, fwdVars
<1>1. TypeOK'
  BY DEF IInv, TypeOK
<1>2. CtlShape'
  BY DEF IInv, CtlShape, Listed, Logout, Unlisted
<1>3. SlotShape'
  BY DEF IInv, SlotShape, Listed, Logout, Unlisted
<1>4. ASSUME NEW d \in Conn PROVE InstShape(d)'
  BY DEF IInv, InstShape
<1>5. ASSUME NEW d \in Conn PROVE TickShape(d)'
  BY DEF IInv, TickShape, Current, Listed
<1>6. ASSUME NEW s \in Stack PROVE StackShape(s)'
  BY DEF IInv, StackShape, Current, Listed
<1>7. ASSUME NEW s \in Stack PROVE AnswerShape(s)'
  BY DEF IInv, AnswerShape, Current, Listed
<1>8. ASSUME NEW g \in Fwd, NEW d \in Conn PROVE HoldShape(g, d)'
  BY DEF IInv, TypeOK, HoldShape, Holds, Listed, Draining
<1>9. /\ ClientShape'
      /\ ConnsShape'
      /\ \A g \in Fwd : FwdShape(g)'
      /\ SlotCount'
  BY DEF IInv, ClientShape, ConnsShape, FwdShape, SlotCount, Used
<1> QED
  BY <1>1, <1>2, <1>3, <1>4, <1>5, <1>6, <1>7, <1>8, <1>9 DEF IInv

(* The counter of tx has moved, so tx holds nothing of the victim. *)
LEMMA WaitTxKeeps ==
  ASSUME IInv, WaitTx
  PROVE  IInv'
<1> USE DEF WaitTx, clientVars, connVars, mgrVars, instVars, stackVars, fwdVars
<1>1. TypeOK'
  BY DEF IInv, TypeOK
<1>2. CtlShape'
  BY DEF IInv, CtlShape, Listed, Logout, Unlisted
<1>3. SlotShape'
  BY DEF IInv, SlotShape, Listed, Logout, Unlisted
<1>4. ASSUME NEW d \in Conn PROVE InstShape(d)'
  BY DEF IInv, InstShape
<1>5. ASSUME NEW d \in Conn PROVE TickShape(d)'
  BY DEF IInv, TickShape, Current, Listed
<1>6. ASSUME NEW s \in Stack PROVE StackShape(s)'
  BY DEF IInv, StackShape, Current, Listed
<1>7. ASSUME NEW s \in Stack PROVE AnswerShape(s)'
  BY DEF IInv, AnswerShape, Current, Listed
<1>8. ASSUME NEW g \in Fwd, NEW d \in Conn PROVE HoldShape(g, d)'
  BY DEF IInv, HoldShape, Holds, Listed, Draining
<1>9. /\ ClientShape'
      /\ ConnsShape'
      /\ \A g \in Fwd : FwdShape(g)'
      /\ SlotCount'
  BY DEF IInv, ClientShape, ConnsShape, FwdShape, SlotCount, Used
<1> QED
  BY <1>1, <1>2, <1>3, <1>4, <1>5, <1>6, <1>7, <1>8, <1>9 DEF IInv

(* The same for rx; what tx does meanwhile does not matter. *)
LEMMA WaitRxKeeps ==
  ASSUME IInv, WaitRx
  PROVE  IInv'
<1> USE DEF WaitRx, clientVars, connVars, mgrVars, instVars, stackVars, fwdVars
<1>1. TypeOK'
  BY DEF IInv, TypeOK
<1>2. CtlShape'
  BY DEF IInv, CtlShape, Listed, Logout, Unlisted
<1>3. SlotShape'
  BY DEF IInv, SlotShape, Listed, Logout, Unlisted
<1>4. ASSUME NEW d \in Conn PROVE InstShape(d)'
  BY DEF IInv, InstShape
<1>5. ASSUME NEW d \in Conn PROVE TickShape(d)'
  BY DEF IInv, TickShape, Current, Listed
<1>6. ASSUME NEW s \in Stack PROVE StackShape(s)'
  BY DEF IInv, StackShape, Current, Listed
<1>7. ASSUME NEW s \in Stack PROVE AnswerShape(s)'
  BY DEF IInv, AnswerShape, Current, Listed
<1>8. ASSUME NEW g \in Fwd, NEW d \in Conn PROVE HoldShape(g, d)'
  BY DEF IInv, HoldShape, Holds, Listed, Draining, Fwd
<1>9. /\ ClientShape'
      /\ ConnsShape'
      /\ \A g \in Fwd : FwdShape(g)'
      /\ SlotCount'
  BY DEF IInv, ClientShape, ConnsShape, FwdShape, SlotCount, Used
<1> QED
  BY <1>1, <1>2, <1>3, <1>4, <1>5, <1>6, <1>7, <1>8, <1>9 DEF IInv

(* handle_inst_logout_for_reg_thrd_ring: nobody holds what is freed. *)
LEMMA FreeStacksKeeps ==
  ASSUME IInv, FreeStacks
  PROVE  IInv'
<1>a. /\ ctl_pc = "free_stacks" /\ ctl_pc' = "detach"
      /\ UNCHANGED <<main, thr, conn, pid, hup, named, instances, tick,
                     cur_instance_num, mem, slot, reg_tick, reg_state,
                     socket_size, range, stack_tick, cur, victim, sample, fwd_pc,
                     fwd_inst, fwd_stack, loop_count, conns>>
  BY DEF FreeStacks, clientVars, connVars, mgrVars, fwdVars
<1>b. /\ victim \in Conn /\ mem[victim] = "live" /\ ~Listed(victim)
      /\ ~Current(victim) /\ cur \in Conn
      /\ stack_array[victim] # {} => reg_state[victim] = "thrd"
  BY <1>a DEF IInv, CtlShape, Logout, Unlisted, Current, InstShape
<1>c. /\ stack_mem' \in [Stack -> {"none", "live", "freed"}]
      /\ stack_array' \in [Conn -> SUBSET Thread]
      /\ stack_array'[victim] = {}
      /\ \A d \in Conn \ {victim} : stack_array'[d] = stack_array[d]
      /\ \A s \in Stack : IF s[1] = victim /\ s[2] \in stack_array[victim]
                            THEN stack_mem'[s] = "freed"
                            ELSE stack_mem'[s] = stack_mem[s]
  <2>1. /\ stack_mem \in [Stack -> {"none", "live", "freed"}]
        /\ stack_array \in [Conn -> SUBSET Thread]
    BY DEF IInv, TypeOK
  <2>2. CASE reg_state[victim] = "thrd"
    BY <2>1, <2>2, <1>b DEF FreeStacks
  <2>3. CASE reg_state[victim] # "thrd"
    BY <2>1, <2>3, <1>b DEF FreeStacks
  <2> QED
    BY <2>2, <2>3
<1>d. \A d \in Conn : (Current(d)' <=> Current(d)) /\ (Listed(d)' <=> Listed(d))
  BY <1>a DEF Current, Listed
<1>e. \A g \in Fwd : ~Holds(g, victim)
  BY <1>a, <1>b DEF IInv, HoldShape, Draining
<1>1. TypeOK'
  BY <1>a, <1>c DEF IInv, TypeOK
<1>2. CtlShape'
  BY <1>a, <1>b, <1>c, <1>d DEF IInv, CtlShape, Logout, Unlisted
<1>3. SlotShape'
  BY <1>a, <1>d DEF IInv, SlotShape, Logout, Unlisted
<1>4. ASSUME NEW d \in Conn PROVE InstShape(d)'
  BY <1>a, <1>c DEF IInv, InstShape
<1>5. ASSUME NEW d \in Conn PROVE TickShape(d)'
  BY <1>a, <1>d DEF IInv, TickShape
<1>6. ASSUME NEW s \in Stack PROVE StackShape(s)' /\ AnswerShape(s)'
  <2>1. s[1] \in Conn /\ StackShape(s) /\ AnswerShape(s)
    BY StackParts DEF IInv
  <2> QED
    BY <2>1, <1>a, <1>b, <1>c, <1>d DEF StackShape, AnswerShape
<1>7. ASSUME NEW g \in Fwd PROVE FwdShape(g)'
  <2>1. /\ FwdShape(g)
        /\ fwd_stack[g] # None => fwd_stack[g][1] \in Conn \ {victim}
    BY <1>e, StackParts DEF IInv, TypeOK, Holds
  <2> QED
    BY <2>1, <1>a, <1>c DEF FwdShape
<1>8. ASSUME NEW g \in Fwd, NEW d \in Conn PROVE HoldShape(g, d)'
  BY <1>a, <1>b, <1>d, <1>e DEF IInv, HoldShape, Holds, Draining
<1>9. ClientShape' /\ ConnsShape' /\ SlotCount'
  BY <1>a DEF IInv, ClientShape, ConnsShape, SlotCount, Used
<1> QED
  BY <1>1, <1>2, <1>3, <1>4, <1>5, <1>6, <1>7, <1>8, <1>9 DEF IInv

(* handle_inst_logout_reg_proc_att: nothing of the victim is attached. *)
LEMMA DetachKeeps ==
  ASSUME IInv, Detach
  PROVE  IInv'
<1>a. /\ ctl_pc = "detach" /\ ctl_pc' = "free_inst"
      /\ UNCHANGED <<main, thr, conn, pid, hup, named, instances, tick,
                     cur_instance_num, mem, slot, reg_tick, reg_state,
                     stack_array, stack_mem, stack_tick, cur, victim, sample,
                     fwd_pc, fwd_inst, fwd_stack, loop_count, conns>>
  BY DEF Detach, clientVars, connVars, mgrVars, stackVars, fwdVars
<1>b. /\ victim \in Conn /\ mem[victim] = "live" /\ ~Listed(victim)
      /\ ~Current(victim) /\ cur \in Conn /\ stack_array[victim] = {}
      /\ range[victim] = "attached" => reg_state[victim] \in {"att", "thrd"}
      /\ range[victim] = "reserved" => socket_size[victim]
  BY <1>a DEF IInv, CtlShape, Logout, Unlisted, Current, InstShape
<1>c. /\ range' \in [Conn -> {"free", "reserved", "attached"}]
      /\ socket_size' \in [Conn -> BOOLEAN]
      /\ range'[victim] # "attached"
      /\ range'[victim] = "reserved" => socket_size'[victim]
      /\ \A d \in Conn \ {victim} :
           range'[d] = range[d] /\ socket_size'[d] = socket_size[d]
  <2>1. /\ range \in [Conn -> {"free", "reserved", "attached"}]
        /\ socket_size \in [Conn -> BOOLEAN]
    BY DEF IInv, TypeOK
  <2>2. CASE reg_state[victim] \in {"att", "thrd"}
    BY <2>1, <2>2, <1>b DEF Detach
  <2>3. CASE reg_state[victim] \notin {"att", "thrd"}
    BY <2>1, <2>3, <1>b DEF Detach
  <2> QED
    BY <2>2, <2>3
<1>d. \A d \in Conn : (Current(d)' <=> Current(d)) /\ (Listed(d)' <=> Listed(d))
  BY <1>a DEF Current, Listed
<1>1. TypeOK'
  BY <1>a, <1>c DEF IInv, TypeOK
<1>2. CtlShape'
  BY <1>a, <1>b, <1>c, <1>d DEF IInv, CtlShape, Logout, Unlisted
<1>3. SlotShape'
  BY <1>a, <1>d DEF IInv, SlotShape, Logout, Unlisted
<1>4. ASSUME NEW d \in Conn PROVE InstShape(d)'
  BY <1>a, <1>b, <1>c DEF IInv, InstShape
<1>5. ASSUME NEW d \in Conn PROVE TickShape(d)'
  BY <1>a, <1>b, <1>c, <1>d DEF IInv, TickShape
<1>6. ASSUME NEW s \in Stack PROVE StackShape(s)' /\ AnswerShape(s)'
  <2>1. s[1] \in Conn /\ StackShape(s) /\ AnswerShape(s)
    BY StackParts DEF IInv
  <2> QED
    BY <2>1, <1>a, <1>d DEF StackShape, AnswerShape
<1>7. ASSUME NEW g \in Fwd, NEW d \in Conn PROVE HoldShape(g, d)'
  BY <1>a, <1>d DEF IInv, HoldShape, Holds, Draining
<1>8. /\ ClientShape' /\ ConnsShape' /\ SlotCount'
      /\ \A g \in Fwd : FwdShape(g)'
  BY <1>a DEF IInv, ClientShape, ConnsShape, SlotCount, Used, FwdShape
<1> QED
  BY <1>1, <1>2, <1>3, <1>4, <1>5, <1>6, <1>7, <1>8 DEF IInv

(* handle_inst_logout_reg_proc_mem: the victim, which nobody holds. *)
LEMMA FreeInstanceKeeps ==
  ASSUME IInv, FreeInstance
  PROVE  IInv'
<1>a. /\ ctl_pc = "free_inst" /\ ctl_pc' = "idle" /\ cur' = None
      /\ victim' = None /\ mem' = [mem EXCEPT ![victim] = "freed"]
      /\ UNCHANGED <<pid, hup, named, instances, tick, cur_instance_num, slot,
                     reg_tick, reg_state, stack_array, socket_size, stack_mem,
                     stack_tick, sample, fwd_pc, fwd_inst, fwd_stack, loop_count,
                     conns>>
  BY DEF FreeInstance, FreeSockfd, mgrVars, stackVars, fwdVars
<1>b. /\ victim \in Conn /\ mem[victim] = "live" /\ ~Listed(victim)
      /\ ~Current(victim) /\ cur \in Conn /\ stack_array[victim] = {}
      /\ range[victim] # "attached"
      /\ range[victim] = "reserved" => socket_size[victim]
  BY <1>a DEF IInv, CtlShape, Logout, Unlisted, Current, InstShape
<1>c. /\ range' \in [Conn -> {"free", "reserved", "attached"}]
      /\ range'[victim] = "free"
      /\ \A d \in Conn \ {victim} : range'[d] = range[d]
  <2>1. range \in [Conn -> {"free", "reserved", "attached"}]
    BY DEF IInv, TypeOK
  <2>2. range' = IF socket_size[victim] THEN [range EXCEPT ![victim] = "free"]
                                        ELSE range
    BY DEF FreeInstance
  <2> QED
    BY <2>1, <2>2, <1>b
<1>d. \A d \in Conn : (Current(d)' <=> Current(d)) /\ (Listed(d)' <=> Listed(d))
  BY <1>a DEF Current, Listed
<1>e. \A g \in Fwd : ~Holds(g, victim)
  BY <1>a, <1>b DEF IInv, HoldShape, Draining
<1>f. FreeSockfd(cur)
  BY DEF FreeInstance
<1>g. /\ conn' \in [Conn -> {"unused", "mem", "mem_ok", "att", "up", "closed"}]
      /\ conn'[cur] = "closed" /\ \A d \in Conn \ {cur} : conn'[d] = conn[d]
  BY <1>b, <1>f DEF IInv, TypeOK, FreeSockfd
<1>h. /\ main' = [p \in Proc |-> IF main[p] = cur THEN None ELSE main[p]]
      /\ thr' = [p \in Proc |-> IF main[p] = cur THEN [t \in Thread |-> "idle"]
                                                 ELSE thr[p]]
  BY <1>f DEF FreeSockfd
<1>1. TypeOK'
  <2>1. /\ main' \in [Proc -> Conn \cup {None}]
        /\ thr' \in [Proc -> [Thread -> {"idle", "sent", "answered"}]]
        /\ mem' \in [Conn -> {"none", "live", "freed"}]
    BY <1>a, <1>b, <1>h DEF IInv, TypeOK
  <2> QED
    BY <2>1, <1>a, <1>c, <1>g DEF IInv, TypeOK
<1>2. ClientShape'
  BY <1>a, <1>b, <1>g, <1>h, InstanceAssumption DEF IInv, TypeOK, ClientShape
<1>3. CtlShape'
  BY <1>a DEF IInv, CtlShape, Logout, Unlisted
<1>4. SlotShape'
  <2>1. ASSUME NEW i \in Slot, instances'[i] # None
        PROVE  slot'[instances'[i]] = i /\ mem'[instances'[i]] = "live"
    <3>1. /\ instances[i] \in Conn /\ slot[instances[i]] = i
          /\ mem[instances[i]] = "live"
      BY <2>1, <1>a DEF IInv, TypeOK, SlotShape
    <3>2. instances[i] # victim
      BY <3>1, <1>b DEF Listed
    <3> QED
      BY <3>1, <3>2, <1>a DEF IInv, TypeOK
  <2>2. ASSUME NEW d \in Conn, mem'[d] = "live"
        PROVE  Listed(d)' /\ pid'[d] \in Proc /\ conn'[d] # "unused"
    BY <2>2, <1>a, <1>b, <1>d, <1>g DEF IInv, TypeOK, SlotShape
  <2>3. ASSUME NEW p \in Proc, main'[p] # None,
               conn'[main'[p]] \in {"mem_ok", "att", "up"},
               NEW d \in Conn, Listed(d)', pid'[d] = p
        PROVE  d = main'[p]
    BY <2>3, <1>a, <1>b, <1>d, <1>g, <1>h, InstanceAssumption
    DEF IInv, TypeOK, SlotShape
  <2> QED
    BY <2>1, <2>2, <2>3, <1>a, <1>d DEF IInv, SlotShape
<1>5. ASSUME NEW d \in Conn PROVE InstShape(d)'
  BY <1>a, <1>b, <1>c, <1>g DEF IInv, TypeOK, InstShape
<1>6. ASSUME NEW d \in Conn PROVE TickShape(d)'
  <2>1. TickShape(d) /\ mem \in [Conn -> {"none", "live", "freed"}]
    BY DEF IInv, TypeOK
  <2> QED
    BY <2>1, <1>a, <1>b, <1>c, <1>d, <1>g DEF TickShape
<1>7. ASSUME NEW s \in Stack PROVE StackShape(s)'
  <2>1. s[1] \in Conn /\ StackShape(s) /\ mem \in [Conn -> {"none", "live", "freed"}]
    BY StackParts DEF IInv, TypeOK
  <2> QED
    BY <2>1, <1>a, <1>b, <1>d, <1>g DEF StackShape
<1>8. ASSUME NEW s \in Stack PROVE AnswerShape(s)'
  <2>1. /\ s[1] \in Conn /\ s[1] # None /\ AnswerShape(s)
        /\ s[2] \in stack_array[s[1]] => pid[s[1]] \in Proc
    BY StackParts, StackOwner, InstanceAssumption DEF IInv
  <2> QED
    BY <2>1, <1>a, <1>d, <1>h DEF AnswerShape
<1>9. ASSUME NEW g \in Fwd, NEW d \in Conn PROVE HoldShape(g, d)'
  <2>1. HoldShape(g, d) /\ mem \in [Conn -> {"none", "live", "freed"}]
    BY DEF IInv, TypeOK
  <2>2. Holds(g, d)' => Holds(g, d) /\ d # victim
    BY <1>a, <1>e DEF Holds
  <2> QED
    BY <2>1, <2>2, <1>a, <1>b, <1>d DEF HoldShape, Draining
<1>10. ConnsShape' /\ SlotCount' /\ \A g \in Fwd : FwdShape(g)'
  BY <1>a DEF IInv, ConnsShape, SlotCount, Used, FwdShape
<1> QED
  BY <1>1, <1>2, <1>3, <1>4, <1>5, <1>6, <1>7, <1>8, <1>9, <1>10 DEF IInv

(* A forward thread takes an instance that is listed. *)
LEMMA LoadInstanceKeeps ==
  ASSUME IInv, NEW f \in Fwd, NEW i \in Slot, LoadInstance(f, i)
  PROVE  IInv'
<1>a. /\ instances[i] \in Conn /\ Listed(instances[i]) /\ mem[instances[i]] = "live"
      /\ fwd_stack[f] = None
  BY DEF LoadInstance, IInv, TypeOK, SlotShape, FwdShape, Listed
<1> USE DEF LoadInstance, clientVars, connVars, mgrVars, instVars, stackVars, ctlVars
<1>1. TypeOK'
  BY DEF IInv, TypeOK
<1>2. ASSUME NEW g \in Fwd PROVE FwdShape(g)'
  BY DEF IInv, TypeOK, FwdShape
<1>3. ASSUME NEW g \in Fwd, NEW d \in Conn PROVE HoldShape(g, d)'
  <2>1. HoldShape(g, d) /\ d # None
    BY InstanceAssumption DEF IInv
  <2>2. Holds(g, d)' => Holds(g, d) \/ d = instances[i]
    BY <1>a, InstanceAssumption DEF Holds, IInv, TypeOK
  <2> QED
    BY <2>1, <2>2, <1>a DEF HoldShape, Listed, Draining
<1>4. /\ ClientShape'
      /\ CtlShape'
      /\ SlotShape'
      /\ \A d \in Conn : InstShape(d)'
      /\ \A d \in Conn : TickShape(d)'
      /\ \A s \in Stack : StackShape(s)'
      /\ \A s \in Stack : AnswerShape(s)'
      /\ ConnsShape'
      /\ SlotCount'
  BY DEF IInv, ClientShape, CtlShape, SlotShape, InstShape, TickShape,
    StackShape, AnswerShape, ConnsShape, SlotCount, Current, Listed, Logout,
    Unlisted, Used
<1> QED
  BY <1>1, <1>2, <1>3, <1>4 DEF IInv

(* It takes a stack of the instance it holds. *)
LEMMA LoadStackKeeps ==
  ASSUME IInv, NEW f \in Fwd, NEW t \in Thread, LoadStack(f, t)
  PROVE  IInv'
<1>a. <<fwd_inst[f], t>> \in Stack /\ fwd_inst[f] # None
  BY DEF LoadStack, IInv, TypeOK, FwdShape, Stack
<1> USE DEF LoadStack, clientVars, connVars, mgrVars, instVars, stackVars, ctlVars
<1>1. TypeOK'
  BY <1>a DEF IInv, TypeOK
<1>2. ASSUME NEW g \in Fwd PROVE FwdShape(g)'
  BY <1>a, InstanceAssumption DEF IInv, TypeOK, FwdShape
<1>3. ASSUME NEW g \in Fwd, NEW d \in Conn PROVE HoldShape(g, d)'
  BY DEF IInv, HoldShape, Holds, Listed, Draining
<1>4. /\ ClientShape'
      /\ CtlShape'
      /\ SlotShape'
      /\ \A d \in Conn : InstShape(d)'
      /\ \A d \in Conn : TickShape(d)'
      /\ \A s \in Stack : StackShape(s)'
      /\ \A s \in Stack : AnswerShape(s)'
      /\ ConnsShape'
      /\ SlotCount'
  BY DEF IInv, ClientShape, CtlShape, SlotShape, InstShape, TickShape,
    StackShape, AnswerShape, ConnsShape, SlotCount, Current, Listed, Logout,
    Unlisted, Used
<1> QED
  BY <1>1, <1>2, <1>3, <1>4 DEF IInv

(* INSTANCE_IS_ON. *)
LEMMA TestOnKeeps ==
  ASSUME IInv, NEW f \in Fwd, TestOn(f)
  PROVE  IInv'
<1> USE DEF TestOn, IsOn, clientVars, connVars, mgrVars, instVars, stackVars, ctlVars
<1>1. TypeOK'
  BY DEF IInv, TypeOK
<1>2. ASSUME NEW g \in Fwd PROVE FwdShape(g)'
  BY DEF IInv, TypeOK, FwdShape
<1>3. ASSUME NEW g \in Fwd, NEW d \in Conn PROVE HoldShape(g, d)'
  BY DEF IInv, TypeOK, HoldShape, Holds, Listed, Draining
<1>4. /\ ClientShape'
      /\ CtlShape'
      /\ SlotShape'
      /\ \A d \in Conn : InstShape(d)'
      /\ \A d \in Conn : TickShape(d)'
      /\ \A s \in Stack : StackShape(s)'
      /\ \A s \in Stack : AnswerShape(s)'
      /\ ConnsShape'
      /\ SlotCount'
  BY DEF IInv, ClientShape, CtlShape, SlotShape, InstShape, TickShape,
    StackShape, AnswerShape, ConnsShape, SlotCount, Current, Listed, Logout,
    Unlisted, Used
<1> QED
  BY <1>1, <1>2, <1>3, <1>4 DEF IInv

(* A table entry for the stack in use. *)
LEMMA AddConnKeeps ==
  ASSUME IInv, AddConn
  PROVE  IInv'
<1>a. /\ fwd_stack["rx"] \in Stack /\ fwd_stack["rx"][1] \in Conn
      /\ stack_tick[fwd_stack["rx"]] # Off
  BY StackParts DEF AddConn, IInv, TypeOK, FwdShape, Fwd
<1> USE DEF AddConn, clientVars, connVars, mgrVars, instVars, stackVars, ctlVars
<1>1. TypeOK'
  <2>1. [stack |-> fwd_stack["rx"], slot |-> slot[fwd_stack["rx"][1]],
         tick |-> stack_tick[fwd_stack["rx"]]] \in [stack : Stack, slot : Slot, tick : Nat]
    BY <1>a DEF IInv, TypeOK
  <2>2. conns' \subseteq [stack : Stack, slot : Slot, tick : Nat]
    BY <2>1 DEF IInv, TypeOK
  <2> QED
    BY <2>2 DEF IInv, TypeOK
<1>2. ConnsShape'
  BY <1>a DEF IInv, ConnsShape
<1>3. /\ ClientShape'
      /\ CtlShape'
      /\ SlotShape'
      /\ \A d \in Conn : InstShape(d)'
      /\ \A d \in Conn : TickShape(d)'
      /\ \A s \in Stack : StackShape(s)'
      /\ \A s \in Stack : AnswerShape(s)'
      /\ \A g \in Fwd : FwdShape(g)'
      /\ \A g \in Fwd, d \in Conn : HoldShape(g, d)'
      /\ SlotCount'
  BY DEF IInv, ClientShape, CtlShape, SlotShape, InstShape, TickShape,
    StackShape, AnswerShape, FwdShape, HoldShape, SlotCount, Current,
    Draining, Holds, Listed, Logout, Unlisted, Used
<1> QED
  BY <1>1, <1>2, <1>3 DEF IInv

(* An entry that is on leads to a stack of a listed instance. *)
LEMMA FindConnKeeps ==
  ASSUME IInv, NEW e \in conns, FindConn(e)
  PROVE  IInv'
<1>a. /\ e.stack \in Stack /\ e.stack[1] \in Conn /\ IsOn(e.stack)
      /\ stack_tick[e.stack] # Off
  BY StackParts DEF FindConn, IInv, TypeOK, ConnsShape, IsOn
<1>b. /\ Listed(e.stack[1]) /\ mem[e.stack[1]] = "live"
      /\ e.stack[2] \in stack_array[e.stack[1]]
  BY <1>a, OnIsCurrent
<1> USE DEF FindConn, clientVars, connVars, mgrVars, instVars, stackVars, ctlVars
<1>1. TypeOK'
  BY DEF IInv, TypeOK
<1>2. ASSUME NEW g \in Fwd PROVE FwdShape(g)'
  <2>1. FwdShape(g) /\ FwdShape("rx") /\ fwd_pc["rx"] = "scan"
    BY DEF IInv, Fwd
  <2> QED
    BY <2>1, <1>a, <1>b, InstanceAssumption DEF IInv, TypeOK, FwdShape
<1>3. ASSUME NEW g \in Fwd, NEW d \in Conn PROVE HoldShape(g, d)'
  <2>1. HoldShape(g, d) /\ d # None
    BY InstanceAssumption DEF IInv
  <2>2. Holds(g, d)' => Holds(g, d) \/ d = e.stack[1]
    BY <1>a, InstanceAssumption DEF Holds, IInv, TypeOK
  <2> QED
    BY <2>1, <2>2, <1>b DEF HoldShape, Listed, Draining
<1>4. /\ ClientShape'
      /\ CtlShape'
      /\ SlotShape'
      /\ \A d \in Conn : InstShape(d)'
      /\ \A d \in Conn : TickShape(d)'
      /\ \A s \in Stack : StackShape(s)'
      /\ \A s \in Stack : AnswerShape(s)'
      /\ ConnsShape'
      /\ SlotCount'
  BY DEF IInv, ClientShape, CtlShape, SlotShape, InstShape, TickShape,
    StackShape, AnswerShape, ConnsShape, SlotCount, Current, Listed, Logout,
    Unlisted, Used
<1> QED
  BY <1>1, <1>2, <1>3, <1>4 DEF IInv

(* An entry goes. *)
LEMMA DropConnKeeps ==
  ASSUME IInv, NEW e \in conns, DropConn(e)
  PROVE  IInv'
<1> USE DEF DropConn, clientVars, connVars, mgrVars, instVars, stackVars, ctlVars
<1>1. TypeOK'
  BY DEF IInv, TypeOK
<1>2. ConnsShape'
  BY DEF IInv, ConnsShape
<1>3. /\ ClientShape'
      /\ CtlShape'
      /\ SlotShape'
      /\ \A d \in Conn : InstShape(d)'
      /\ \A d \in Conn : TickShape(d)'
      /\ \A s \in Stack : StackShape(s)'
      /\ \A s \in Stack : AnswerShape(s)'
      /\ \A g \in Fwd : FwdShape(g)'
      /\ \A g \in Fwd, d \in Conn : HoldShape(g, d)'
      /\ SlotCount'
  BY DEF IInv, ClientShape, CtlShape, SlotShape, InstShape, TickShape,
    StackShape, AnswerShape, FwdShape, HoldShape, SlotCount, Current,
    Draining, Holds, Listed, Logout, Unlisted, Used
<1> QED
  BY <1>1, <1>2, <1>3 DEF IInv

(* The stack is let go. *)
LEMMA UseDoneKeeps ==
  ASSUME IInv, NEW f \in Fwd, UseDone(f)
  PROVE  IInv'
<1> USE DEF UseDone, clientVars, connVars, mgrVars, instVars, stackVars, ctlVars
<1>1. TypeOK'
  BY DEF IInv, TypeOK
<1>2. ASSUME NEW g \in Fwd PROVE FwdShape(g)'
  BY DEF IInv, TypeOK, FwdShape
<1>3. ASSUME NEW g \in Fwd, NEW d \in Conn PROVE HoldShape(g, d)'
  BY DEF IInv, HoldShape, Holds, Listed, Draining
<1>4. /\ ClientShape'
      /\ CtlShape'
      /\ SlotShape'
      /\ \A d \in Conn : InstShape(d)'
      /\ \A d \in Conn : TickShape(d)'
      /\ \A s \in Stack : StackShape(s)'
      /\ \A s \in Stack : AnswerShape(s)'
      /\ ConnsShape'
      /\ SlotCount'
  BY DEF IInv, ClientShape, CtlShape, SlotShape, InstShape, TickShape,
    StackShape, AnswerShape, ConnsShape, SlotCount, Current, Listed, Logout,
    Unlisted, Used
<1> QED
  BY <1>1, <1>2, <1>3, <1>4 DEF IInv

(* The instance is let go. *)
LEMMA LeaveInstanceKeeps ==
  ASSUME IInv, NEW f \in Fwd, LeaveInstance(f)
  PROVE  IInv'
<1> USE DEF LeaveInstance, clientVars, connVars, mgrVars, instVars, stackVars, ctlVars
<1>1. TypeOK'
  BY DEF IInv, TypeOK
<1>2. ASSUME NEW g \in Fwd PROVE FwdShape(g)'
  BY DEF IInv, TypeOK, FwdShape
<1>3. ASSUME NEW g \in Fwd, NEW d \in Conn PROVE HoldShape(g, d)'
  BY InstanceAssumption DEF IInv, TypeOK, HoldShape, Holds, Listed,
    Draining
<1>4. /\ ClientShape'
      /\ CtlShape'
      /\ SlotShape'
      /\ \A d \in Conn : InstShape(d)'
      /\ \A d \in Conn : TickShape(d)'
      /\ \A s \in Stack : StackShape(s)'
      /\ \A s \in Stack : AnswerShape(s)'
      /\ ConnsShape'
      /\ SlotCount'
  BY DEF IInv, ClientShape, CtlShape, SlotShape, InstShape, TickShape,
    StackShape, AnswerShape, ConnsShape, SlotCount, Current, Listed, Logout,
    Unlisted, Used
<1> QED
  BY <1>1, <1>2, <1>3, <1>4 DEF IInv

(* A pass is counted by a thread that holds nothing. *)
LEMMA EndPassKeeps ==
  ASSUME IInv, NEW f \in Fwd, EndPass(f)
  PROVE  IInv'
<1> USE DEF EndPass, clientVars, connVars, mgrVars, instVars, stackVars, ctlVars
<1>1. TypeOK'
  <2>1. (loop_count[f] + 1) % LoopMod \in 0..(LoopMod - 1)
    BY InstanceAssumption DEF IInv, TypeOK
  <2> QED
    BY <2>1 DEF IInv, TypeOK
<1>2. ASSUME NEW g \in Fwd, NEW d \in Conn PROVE HoldShape(g, d)'
  <2>1. HoldShape(g, d) /\ FwdShape(f) /\ fwd_pc[f] = "scan" /\ d # None
    BY InstanceAssumption DEF IInv
  <2>2. CASE g = f
    BY <2>1, <2>2 DEF HoldShape, FwdShape, Holds
  <2>3. CASE g # f
    BY <2>1, <2>3 DEF IInv, TypeOK, HoldShape, Holds, Listed, Draining
  <2> QED
    BY <2>2, <2>3
<1>3. /\ ClientShape'
      /\ CtlShape'
      /\ SlotShape'
      /\ \A d \in Conn : InstShape(d)'
      /\ \A d \in Conn : TickShape(d)'
      /\ \A s \in Stack : StackShape(s)'
      /\ \A s \in Stack : AnswerShape(s)'
      /\ ConnsShape'
      /\ \A g \in Fwd : FwdShape(g)'
      /\ SlotCount'
  BY DEF IInv, ClientShape, CtlShape, SlotShape, InstShape, TickShape,
    StackShape, AnswerShape, ConnsShape, FwdShape, SlotCount, Current,
    Listed, Logout, Unlisted, Used
<1> QED
  BY <1>1, <1>2, <1>3 DEF IInv

(* The initial state: nothing registered, nothing held. *)
LEMMA InitInv == Init => IInv
<1> SUFFICES ASSUME Init PROVE IInv
  OBVIOUS
<1>1. TypeOK
  BY InstanceAssumption DEF Init, TypeOK, Slot, Off, Fwd
<1>2. ClientShape /\ CtlShape
  BY InstanceAssumption DEF Init, ClientShape, CtlShape, Logout, Unlisted
<1>3. SlotShape
  BY InstanceAssumption DEF Init, SlotShape, Listed, Slot
<1>4. \A c \in Conn : InstShape(c) /\ TickShape(c)
  BY InstanceAssumption DEF Init, InstShape, TickShape, Current, Listed, Off, Slot
<1>5. ASSUME NEW s \in Stack PROVE StackShape(s) /\ AnswerShape(s)
  BY StackParts DEF Init, StackShape, AnswerShape
<1>6. ConnsShape /\ \A f \in Fwd : FwdShape(f)
  BY DEF Init, ConnsShape, FwdShape
<1>7. \A f \in Fwd, c \in Conn : HoldShape(f, c)
  BY InstanceAssumption DEF Init, HoldShape, Holds
<1>8. SlotCount
  <2>1. Used = {}
    BY DEF Init, Used
  <2> QED
    BY <2>1, FS_EmptySet DEF Init, SlotCount
<1> QED
  BY <1>1, <1>2, <1>3, <1>4, <1>5, <1>6, <1>7, <1>8 DEF IInv

(* Every step keeps the invariant. *)
LEMMA StepInv == IInv /\ [Next]_vars => IInv'
<1> SUFFICES ASSUME IInv, [Next]_vars PROVE IInv'
  OBVIOUS
<1>1. CASE ClientStep
  BY <1>1, ConnectKeeps, SendAttachKeeps, CloseKeeps, SendThreadKeeps DEF ClientStep
<1>2. CASE HandleStep
  BY <1>2, RefuseMemKeeps, RefuseAttachKeeps, RegProcAttKeeps, HandleHupKeeps,
     RegProcMemKeeps, AnswerThreadKeeps, RegThrdRingKeeps, StackOnKeeps
  DEF HandleStep
<1>3. CASE LogoutStep
  BY <1>3, EndPlainKeeps, LogoutTickKeeps, LogoutUnlistKeeps, SampleRxKeeps,
     SampleTxKeeps, WaitTxKeeps, WaitRxKeeps, FreeStacksKeeps, DetachKeeps,
     FreeInstanceKeeps
  DEF LogoutStep
<1>4. CASE \E f \in Fwd : ForwardStep(f)
  BY <1>4, LoadInstanceKeeps, LoadStackKeeps, TestOnKeeps, UseDoneKeeps,
     LeaveInstanceKeeps, EndPassKeeps
  DEF ForwardStep
<1>5. CASE RxStep
  BY <1>5, AddConnKeeps, FindConnKeeps, DropConnKeeps DEF RxStep
<1>6. CASE UNCHANGED vars
  <2>1. /\ TypeOK' /\ ClientShape' /\ CtlShape' /\ SlotShape'
        /\ ConnsShape' /\ SlotCount'
    BY <1>6 DEF vars, IInv, TypeOK, ClientShape, CtlShape, SlotShape, ConnsShape,
                SlotCount, Used, Listed
  <2>2. /\ \A c \in Conn : InstShape(c)' /\ TickShape(c)'
        /\ \A s \in Stack : StackShape(s)' /\ AnswerShape(s)'
    BY <1>6 DEF vars, IInv, InstShape, TickShape, StackShape, AnswerShape, Current,
                Listed
  <2>3. /\ \A f \in Fwd : FwdShape(f)'
        /\ \A f \in Fwd, c \in Conn : HoldShape(f, c)'
    BY <1>6 DEF vars, IInv, FwdShape, HoldShape, Holds, Listed
  <2> QED
    BY <2>1, <2>2, <2>3 DEF IInv
<1> QED
  BY <1>1, <1>2, <1>3, <1>4, <1>5, <1>6 DEF Next

-----------------------------------------------------------------------------
(* The inductive invariant holds in every reachable state. *)
THEOREM Invariant == Spec => []IInv
  BY InitInv, StepInv, PTL DEF Spec

(* The types, and at most max_instance_num instances. *)
THEOREM TypeCorrect == Spec => []TypeOK
<1>1. IInv => TypeOK
  BY DEF IInv
<1> QED
  BY <1>1, Invariant, PTL

(* For any number of clients and threads, and counters of any width of at   *)
(* least one bit: what a forward thread holds has not been freed, and the   *)
(* memory of a stack it uses is attached.                                   *)
THEOREM NoUseAfterFreeCorrect == Spec => []NoUseAfterFree
<1>1. IInv => NoUseAfterFree
  <2> SUFFICES ASSUME IInv, NEW f \in Fwd
               PROVE  /\ fwd_inst[f] # None => mem[fwd_inst[f]] = "live"
                      /\ fwd_stack[f] # None => stack_mem[fwd_stack[f]] = "live"
                      /\ fwd_pc[f] = "use" => range[fwd_stack[f][1]] = "attached"
    BY DEF NoUseAfterFree
  <2>1. /\ FwdShape(f)
        /\ fwd_inst[f] # None => fwd_inst[f] \in Conn
        /\ fwd_stack[f] # None => fwd_stack[f] \in Stack /\ fwd_stack[f][1] \in Conn
    BY StackParts DEF IInv, TypeOK
  <2>2. fwd_inst[f] # None => mem[fwd_inst[f]] = "live"
    BY <2>1 DEF IInv, HoldShape, Holds
  <2>3. fwd_stack[f] # None => stack_mem[fwd_stack[f]] = "live"
    BY <2>1 DEF IInv, FwdShape, StackShape
  <2>4. fwd_pc[f] = "use" => range[fwd_stack[f][1]] = "attached"
    BY <2>1 DEF IInv, FwdShape, InstShape
  <2> QED
    BY <2>2, <2>3, <2>4
<1> QED
  BY <1>1, Invariant, PTL

(* For any number of clients that come and go in a slot: a table entry that *)
(* is on names a live stack of the instance in that slot.                   *)
THEOREM StaleEntryStaysOffCorrect == Spec => []StaleEntryStaysOff
<1>1. IInv => StaleEntryStaysOff
  <2> SUFFICES ASSUME IInv, NEW e \in conns, e.tick = tick[e.slot]
               PROVE  stack_mem[e.stack] = "live" /\ instances[e.slot] = e.stack[1]
    BY DEF StaleEntryStaysOff
  <2>1. e.stack \in Stack /\ e.slot = slot[e.stack[1]] /\ IsOn(e.stack)
    BY DEF IInv, TypeOK, ConnsShape, IsOn
  <2> QED
    BY <2>1, OnIsCurrent DEF Listed
<1> QED
  BY <1>1, Invariant, PTL

(* Whatever failed, between two events of the control thread instances,     *)
(* slots, stacks, address ranges and cur_instance_num agree, and a thread   *)
(* that asks again finds its stack on.                                      *)
THEOREM NothingLeakedCorrect == Spec => []NothingLeaked
<1>1. IInv => NothingLeaked
  <2> SUFFICES ASSUME IInv, ctl_pc = "idle" PROVE NothingLeaked
    BY DEF NothingLeaked
  <2>1. \A c \in Conn : mem[c] = "live" <=> \E i \in Slot : instances[i] = c
    <3> SUFFICES ASSUME NEW c \in Conn
                 PROVE  mem[c] = "live" <=> \E i \in Slot : instances[i] = c
      OBVIOUS
    <3>1. c # None /\ slot[c] \in Slot
      BY InstanceAssumption DEF IInv, TypeOK
    <3> QED
      BY <3>1 DEF IInv, SlotShape, Listed, Unlisted, Logout
  <2>2. ASSUME NEW s \in Stack
        PROVE  stack_mem[s] = "live" <=> mem[s[1]] = "live" /\ s[2] \in stack_array[s[1]]
    BY StackParts DEF IInv, StackShape, InstShape
  <2>3. \A c \in Conn : range[c] # "free" => mem[c] = "live"
    BY DEF IInv, InstShape
  <2>4. ASSUME NEW p \in Proc, NEW t \in Thread, NEW c \in ByPid(p),
               thr[p][t] = "sent", t \in stack_array[c]
        PROVE  IsOn(<<c, t>>)
    <3>1. /\ c \in Conn /\ c = main[p] /\ pid[c] = p
          /\ Listed(c) /\ mem[c] = "live" /\ conn[c] = "up"
      BY <2>4, FoundForThread
    <3>2. <<c, t>> \in Stack /\ <<c, t>>[1] = c /\ <<c, t>>[2] = t
      BY <3>1 DEF Stack
    <3>3. Current(c)
      BY <3>1 DEF Current
    <3>4. stack_tick[<<c, t>>] # Off
      BY <2>4, <3>1, <3>2, <3>3 DEF IInv, AnswerShape
    <3>5. stack_tick[<<c, t>>] = reg_tick[c] /\ reg_tick[c] = tick[slot[c]]
      BY <3>1, <3>2, <3>3, <3>4 DEF IInv, StackShape, TickShape
    <3> QED
      BY <3>2, <3>4, <3>5 DEF IsOn
  <2>5. /\ cur_instance_num = Cardinality({i \in Slot : instances[i] # None})
        /\ \A i \in Slot : instances[i] # None => i <= MaxInstance
    BY DEF IInv, SlotCount, Used
  <2> QED
    BY <2>1, <2>2, <2>3, <2>4, <2>5 DEF NothingLeaked
<1> QED
  BY <1>1, Invariant, PTL

(* wait_forward_done is why: from the return of its wait to the last free,  *)
(* no forward thread holds the instance that goes, or a stack of it.        *)
THEOREM NobodyHoldsVictim ==
  Spec => [](ctl_pc \in {"free_stacks", "detach", "free_inst"} =>
               \A f \in Fwd : ~Holds(f, victim))
<1>1. IInv => (ctl_pc \in {"free_stacks", "detach", "free_inst"} =>
                 \A f \in Fwd : ~Holds(f, victim))
  BY DEF IInv, CtlShape, HoldShape, Logout, Unlisted, Draining
<1> QED
  BY <1>1, Invariant, PTL
=============================================================================
