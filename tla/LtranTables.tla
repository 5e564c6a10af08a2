----------------------------- MODULE LtranTables -----------------------------
(***************************************************************************)
(* The tables by which ltran's receive thread picks the stack for a packet *)
(* (src/ltran/ltran_tcp_conn.c, ltran_tcp_sock.c, ltran_timer.c and the    *)
(* handlers of src/ltran/ltran_forward.c), driven by the messages a        *)
(* client's stacks put on their reg_rings (vdev_reg_xmit) and by packets.  *)
(*                                                                         *)
(* Only the receive thread changes the tables.  The control thread holds   *)
(* mlock while it shows them, and switches a client off by its tick.       *)
(* A packet stands for any segment of its quintuple; the first one a stack *)
(* that listens sees opens a pcb there.  struct gazelle_tcp_sock is a cell *)
(* of memory, which the next allocation may hand out again.                *)
(***************************************************************************)
EXTENDS Integers, SequencesExt, FiniteSetsExt

CONSTANTS
  Proc, Stack, ProcOf, TidOf,  \* client processes, their stacks, and tids
  Addr, Hash,                  \* local (ip, port), its bucket of the sock table
  Quintuple, Dst,              \* connections, the local address of each
  Active,                      \* those a client opens with connect()
  Cell, None,                  \* memory for tcp_socks; no tcp_sock
  MaxConn,                     \* max_conn_num
  Timeout,                     \* GAZELLE_CONN_TIMEOUT, in scans
  ConMod,                      \* 2^32, the width of tcp_con_num
  MaxOps, RestartCost          \* bound: calls of the clients, and how many a
                               \* restart of ltran stands for

ASSUME TablesAssumption ==
  /\ ProcOf \in [Stack -> Proc]
  /\ Active \subseteq Quintuple
  /\ Dst \in [Quintuple -> Addr]
  /\ None \notin Cell
  /\ MaxConn \in Nat /\ MaxOps \in Nat /\ RestartCost \in Nat \ {0}
  /\ Timeout \in Nat \ {0}
  /\ ConMod \in Nat /\ ConMod > 4

VARIABLES
  life,                \* of a process: its instance is new, on or off
  listening, pcb, reg, \* of a stack: what it listens on, its pcbs, reg_ring
  rereg,               \* phase of thread_register it has yet to go through
  table,               \* the connection table thread_register looked at
  inbox,               \* packets ltran has passed on to a stack
  conns, socks, sock,  \* the two chains, newest first; the cells
  locked,              \* the control thread holds mlock
  scan,                \* the receive thread is between its two scans
  closed, carried,     \* history: listeners closed; pcbs older than a restart
  ops, restarts

clientVars == <<life, listening, pcb, rereg, table, closed, carried, ops, restarts>>
tableVars  == <<conns, socks, sock>>
vars == <<life, listening, pcb, reg, rereg, table, inbox, conns, socks, sock, locked,
          scan, closed, carried, ops, restarts>>

IsOn(k) == life[ProcOf[k]] = "on"

Init ==
  /\ life = [p \in Proc |-> "new"]
  /\ listening = [k \in Stack |-> {}]
  /\ pcb = [k \in Stack |-> {}]
  /\ reg = [k \in Stack |-> <<>>]
  /\ rereg = [k \in Stack |-> 0]
  /\ table = None
  /\ inbox = [k \in Stack |-> {}]
  /\ conns = <<>>
  /\ socks = <<>>
  /\ sock = [c \in Cell |-> None]
  /\ locked = FALSE
  /\ scan = FALSE
  /\ closed = {}
  /\ carried = {}
  /\ ops = 0
  /\ restarts = 0

-----------------------------------------------------------------------------
(* A client *)

Msg(type, arg) == [type |-> type, arg |-> arg]
Post(k, m) == reg' = [reg EXCEPT ![k] = Append(@, m)]
Op == ops < MaxOps /\ ops' = ops + 1

(* ltran has yet to read a message about a connection. *)
Pending(q) == \E k \in Stack : \E n \in DOMAIN reg[k] :
                 reg[k][n].type \in {"connect", "close"} /\ reg[k][n].arg = q

(* A process registers; the address belongs to one process at a time. *)
Start(p) ==
  /\ life[p] = "new"
  /\ \A q \in Proc : life[q] # "on"
  /\ life' = [life EXCEPT ![p] = "on"]
  /\ UNCHANGED <<listening, pcb, reg, rereg, table, inbox, tableVars, locked, scan,
                 closed, carried, ops, restarts>>

(* handle_instance_logout moves the tick: all stacks are off at once *)
Logout(p) ==
  /\ Op
  /\ life[p] = "on"
  /\ life' = [life EXCEPT ![p] = "off"]
  /\ LET Gone(f, empty) == [k \in Stack |-> IF ProcOf[k] = p THEN empty ELSE f[k]] IN
       /\ listening' = Gone(listening, {})
       /\ pcb' = Gone(pcb, {})
       /\ reg' = Gone(reg, <<>>)
       /\ rereg' = Gone(rereg, 0)
       /\ inbox' = Gone(inbox, {})
  /\ table' = None
  /\ UNCHANGED <<tableVars, locked, scan, closed, carried, restarts>>

(* REG_RING_TCP_LISTEN, REG_RING_TCP_LISTEN_CLOSE *)
Listen(k, a) ==
  /\ Op
  /\ IsOn(k) /\ a \notin listening[k]
  /\ \A q \in Active : Dst[q] # a
  /\ listening' = [listening EXCEPT ![k] = @ \cup {a}]
  /\ Post(k, Msg("listen", a))
  /\ UNCHANGED <<life, pcb, rereg, table, inbox, tableVars, locked, scan, closed,
                 carried, restarts>>

CloseListen(k, a) ==
  /\ Op
  /\ a \in listening[k]
  /\ listening' = [listening EXCEPT ![k] = @ \ {a}]
  /\ Post(k, Msg("listen_close", a))
  /\ closed' = closed \cup {<<k, a>>}
  /\ UNCHANGED <<life, pcb, rereg, table, inbox, tableVars, locked, scan, carried,
                 restarts>>

(* lwip takes a packet: a listener opens a pcb and sends the connect         *)
(* command.  Its peer does not use the quintuple again before ltran has read *)
(* that it was closed.                                                       *)
Receive(k, q) ==
  /\ q \in inbox[k]
  /\ inbox' = [inbox EXCEPT ![k] = @ \ {q}]
  /\ IF Dst[q] \in listening[k] /\ q \notin pcb[k] /\ ~Pending(q)
       THEN /\ pcb' = [pcb EXCEPT ![k] = @ \cup {q}]
            /\ Post(k, Msg("connect", q))
       ELSE UNCHANGED <<pcb, reg>>
  /\ UNCHANGED <<life, listening, rereg, table, tableVars, locked, scan, closed,
                 carried, ops, restarts>>

(* connect(): a local port nobody uses *)
Connect(k, q) ==
  /\ Op
  /\ IsOn(k) /\ q \in Active
  /\ \A j \in Stack : q \notin pcb[j]
  /\ ~Pending(q)
  /\ pcb' = [pcb EXCEPT ![k] = @ \cup {q}]
  /\ Post(k, Msg("connect", q))
  /\ UNCHANGED <<life, listening, rereg, table, inbox, tableVars, locked, scan, closed,
                 carried, restarts>>

CloseConn(k, q) ==
  /\ Op
  /\ q \in pcb[k]
  /\ pcb' = [pcb EXCEPT ![k] = @ \ {q}]
  /\ Post(k, Msg("close", q))
  /\ UNCHANGED <<life, listening, rereg, table, inbox, tableVars, locked, scan, closed,
                 carried, restarts>>

(* thread_register asks one stack after the other for its connections ...    *)
ConnTable(k) ==
  /\ rereg[k] # 0 /\ table = None
  /\ \A j \in Stack : ProcOf[j] = ProcOf[k] /\ rereg[j] = 1 => rereg[k] = 1
  /\ table' = [stack |-> k, conn |-> pcb[k], listen |-> listening[k]]
  /\ UNCHANGED <<life, listening, pcb, reg, rereg, inbox, tableVars, locked, scan,
                 closed, carried, ops, restarts>>

(* ... and lets it send them: thread_register_phase1, thread_register_phase2 *)
Register(k, phase, msgs) ==
  /\ table # None /\ table.stack = k
  /\ rereg[k] = phase
  /\ rereg' = [rereg EXCEPT ![k] = (phase + 1) % 3]
  /\ reg' = [reg EXCEPT ![k] = @ \o SetToSeq(msgs)]
  /\ table' = None
  /\ UNCHANGED <<life, listening, pcb, inbox, tableVars, locked, scan, closed,
                 carried, ops, restarts>>

RegisterPhase1(k) == Register(k, 1, {Msg("connect", q) : q \in table.conn})

RegisterPhase2(k) == Register(k, 2, {Msg("listen", a) : a \in table.listen})

-----------------------------------------------------------------------------
(* ltran *)

(* A restart; the clients notice the broken connection and register again. *)
Restart ==
  /\ ops + RestartCost <= MaxOps
  /\ ops' = ops + RestartCost
  /\ restarts' = restarts + 1
  /\ conns' = <<>>
  /\ socks' = <<>>
  /\ sock' = [c \in Cell |-> None]
  /\ locked' = FALSE
  /\ scan' = FALSE
  /\ inbox' = [k \in Stack |-> {}]
  /\ rereg' = [k \in Stack |-> IF IsOn(k) THEN 1 ELSE 0]
  /\ table' = None
  /\ carried' = {kq \in Stack \X Quintuple : kq[2] \in pcb[kq[1]]}
  /\ UNCHANGED <<life, listening, pcb, reg, closed>>

(* handle_resp_ltran_sock, handle_resp_ltran_conn hold mlock *)
ShowTables ==
  /\ locked' = ~locked
  /\ UNCHANGED <<clientVars, reg, inbox, tableVars, scan>>

(* gazelle_conn_get_by_quintuple, gazelle_conn_del_by_quintuple: the first   *)
(* entry of the chain, on or not for the latter; 0 if there is none          *)
First(ns) == IF ns = {} THEN 0 ELSE Min(ns)
GetConn(q) == First({n \in DOMAIN conns : conns[n].q = q /\ IsOn(conns[n].stack)})
ConnToDel(q) == First({n \in DOMAIN conns : conns[n].q = q})

(* gazelle_conn_add_by_quintuple, and what its callers fill in *)
WithConn(cs, q, k, c, t) == <<[q |-> q, stack |-> k, sock |-> c, timeout |-> t]>> \o cs

(* tcp_con_num is unsigned *)
IncCon(c) == [sock EXCEPT ![c].con_num = (@ + 1) % ConMod]
DecCon(s, c) ==
  IF c = None \/ s[c] = None THEN s
                             ELSE [s EXCEPT ![c].con_num = (@ + ConMod - 1) % ConMod]

(* gazelle_sock_get_by_min_conn: GAZELLE_STACK_MAX_TCP_CON_NUM is 2^30 *)
MinSock(a) ==
  LET cand == {n \in DOMAIN socks :
                 LET s == sock[socks[n]] IN
                   IsOn(s.stack) /\ s.addr = a /\ s.con_num < ConMod \div 4}
      least == {n \in cand : \A m \in cand :
                  sock[socks[n]].con_num <= sock[socks[m]].con_num}
  IN  First(least)

Deliver(k, q) == inbox' = [inbox EXCEPT ![k] = @ \cup {q}]

(* tcp_handle: the packet of a connection, or of one that is created for the *)
(* listener with the fewest                                                  *)
Packet(q) ==
  /\ ~scan
  /\ \/ /\ GetConn(q) # 0
        /\ Deliver(conns[GetConn(q)].stack, q)
        /\ UNCHANGED tableVars
     \/ /\ GetConn(q) = 0
        /\ MinSock(Dst[q]) # 0 /\ Len(conns) < MaxConn
        /\ LET c == socks[MinSock(Dst[q])] IN
             /\ conns' = WithConn(conns, q, sock[c].stack, c, Timeout)
             /\ sock' = IncCon(c)
             /\ Deliver(sock[c].stack, q)
        /\ UNCHANGED socks
  /\ UNCHANGED <<clientVars, reg, locked, scan>>

(* gazelle_sock_add_by_ipporttid finds an entry of the tid in the bucket *)
Bucket(a) == {n \in DOMAIN socks : Hash[sock[socks[n]].addr] = Hash[a]}
OfTid(k) == {n \in DOMAIN socks : TidOf[sock[socks[n]].stack] = TidOf[k]}

Recovered(n, k, a) == Dst[conns[n].q] = a /\ TidOf[conns[n].stack] = TidOf[k]

HandleListen(k, a) ==
  IF \E n \in Bucket(a) \cap OfTid(k) : IsOn(sock[socks[n]].stack)
  THEN UNCHANGED tableVars
  ELSE \E c \in Cell \ Range(socks) :
         /\ socks' = <<c>> \o socks
         /\ sock' = [sock EXCEPT ![c] =
              [addr |-> a, stack |-> k,
               con_num |-> Cardinality({n \in DOMAIN conns : Recovered(n, k, a)})]]
         /\ conns' = [n \in DOMAIN conns |->
              IF Recovered(n, k, a) /\ conns[n].sock = None
                THEN [conns[n] EXCEPT !.sock = c] ELSE conns[n]]

(* free(): nobody looks at what a freed cell holds until it is used again.   *)
Unlist(kept) ==
  /\ socks' = kept
  /\ sock' = [c \in Cell |-> IF c \in Range(kept) THEN sock[c] ELSE None]

(* Mutant of HandleListenClose: the tid is not compared. *)
HandleListenClose_AnyTid(k, a) ==
  /\ Unlist(LET n == First(Bucket(a)) IN IF n = 0 THEN socks ELSE RemoveAt(socks, n))
  /\ UNCHANGED conns

(* gazelle_sock_del_by_ipporttid: connections keep their pointer *)
HandleListenClose(k, a) ==
  /\ Unlist(LET n == First(Bucket(a) \cap OfTid(k)) IN
               IF n = 0 THEN socks ELSE RemoveAt(socks, n))
  /\ UNCHANGED conns

NewConn(cs, k, q) == IF Len(cs) < MaxConn THEN WithConn(cs, q, k, None, -1) ELSE cs

(* Mutant of HandleConnect: the old entry is not deleted. *)
HandleConnect_KeepOld(k, q) ==
  /\ conns' = IF GetConn(q) # 0 /\ conns[GetConn(q)].timeout >= 0
               THEN [conns EXCEPT ![GetConn(q)].timeout = -1]
               ELSE NewConn(conns, k, q)
  /\ UNCHANGED <<socks, sock>>

(* Mutant of HandleConnect: an entry that is there is left as it is. *)
HandleConnect_KeepTimeout(k, q) ==
  /\ conns' = IF GetConn(q) # 0 THEN conns ELSE NewConn(conns, k, q)
  /\ UNCHANGED <<socks, sock>>

(* tcp_hash_table_add_conn: a half-open entry is confirmed, an old one that  *)
(* was confirmed gives way to a new one                                      *)
HandleConnect(k, q) ==
  /\ conns' = IF GetConn(q) # 0 /\ conns[GetConn(q)].timeout >= 0
               THEN [conns EXCEPT ![GetConn(q)].timeout = -1]
               ELSE NewConn(IF GetConn(q) # 0 THEN RemoveAt(conns, ConnToDel(q)) ELSE conns, k, q)
  /\ UNCHANGED <<socks, sock>>

(* tcp_hash_table_del_conn *)
HandleClose(q) ==
  LET c == conns[GetConn(q)].sock IN
  /\ UNCHANGED socks
  /\ IF GetConn(q) = 0
     THEN UNCHANGED <<conns, sock>>
     ELSE /\ sock' = IF c # None /\ sock[c] # None /\ sock[c].con_num > 0
                       THEN DecCon(sock, c) ELSE sock
          /\ conns' = RemoveAt(conns, ConnToDel(q))

(* tcp_hash_table_handle, message by message.  What was passed on until a    *)
(* close is read belongs to the old connection and opens no new one.         *)
Message(k) ==
  /\ ~scan /\ ~locked
  /\ IsOn(k) /\ rereg[k] # 1 /\ reg[k] # <<>>
  /\ LET m == Head(reg[k]) IN
       \/ m.type = "listen" /\ HandleListen(k, m.arg)
       \/ m.type = "listen_close" /\ HandleListenClose(k, m.arg)
       \/ m.type = "connect" /\ HandleConnect(k, m.arg)
       \/ m.type = "close" /\ HandleClose(m.arg)
  /\ inbox' = LET m == Head(reg[k]) IN
       IF m.type = "close" THEN [inbox EXCEPT ![k] = @ \ {m.arg}] ELSE inbox
  /\ reg' = [reg EXCEPT ![k] = Tail(@)]
  /\ UNCHANGED <<clientVars, locked, scan>>

(* gazelle_delete_aging_conn.  A stack answers within GAZELLE_CONN_TIMEOUT.  *)
Aged(n) == conns[n].timeout = 1
Answering(n) ==
  LET k == conns[n].stack IN
    conns[n].q \in inbox[k] \/ Contains(reg[k], Msg("connect", conns[n].q))

RemoveAged ==
  /\ \A n \in DOMAIN conns : Aged(n) => ~Answering(n)
  /\ conns' = LET older == [n \in DOMAIN conns |->
                    IF conns[n].timeout < 0 THEN conns[n]
                                            ELSE [conns[n] EXCEPT !.timeout = @ - 1]]
              IN  SelectSeq(older, LAMBDA e : e.timeout # 0)
  /\ sock' = FoldSet(LAMBDA n, s : DecCon(s, conns[n].sock), sock,
                     {n \in DOMAIN conns : Aged(n)})
  /\ UNCHANGED <<clientVars, reg, inbox, socks, locked, scan>>

(* Mutant of Age: no pthread_mutex_trylock. *)
Age_NoLock == ~scan /\ RemoveAged

Age == ~scan /\ ~locked /\ RemoveAged

(* gazelle_detect_conn_logout, or nothing when mlock is taken *)
DetectConnLogout ==
  /\ ~scan
  /\ scan' = TRUE
  /\ conns' = IF locked THEN conns ELSE SelectSeq(conns, LAMBDA e : IsOn(e.stack))
  /\ UNCHANGED <<clientVars, reg, inbox, socks, sock, locked>>

(* gazelle_detect_sock_logout *)
DetectSockLogout ==
  /\ scan
  /\ scan' = FALSE
  /\ Unlist(IF locked THEN socks ELSE SelectSeq(socks, LAMBDA c : IsOn(sock[c].stack)))
  /\ UNCHANGED <<clientVars, reg, inbox, conns, locked>>

-----------------------------------------------------------------------------
ClientStep ==
  \/ \E p \in Proc : Start(p) \/ Logout(p)
  \/ \E k \in Stack, a \in Addr : Listen(k, a) \/ CloseListen(k, a)
  \/ \E k \in Stack, q \in Quintuple : Receive(k, q) \/ Connect(k, q) \/ CloseConn(k, q)
  \/ \E k \in Stack : ConnTable(k) \/ RegisterPhase1(k) \/ RegisterPhase2(k)

LtranStep ==
  \/ \E q \in Quintuple : Packet(q)
  \/ \E k \in Stack : Message(k)
  \/ Age \/ DetectConnLogout \/ DetectSockLogout

Next == ClientStep \/ LtranStep \/ ShowTables \/ Restart

Spec == Init /\ [][Next]_vars

-----------------------------------------------------------------------------
(* The types; no more entries than max_conn_num, and ages that aging and the *)
(* lookups know: half-open, or confirmed (-1), never in between.             *)
TypeOK ==
  /\ life \in [Proc -> {"new", "on", "off"}]
  /\ \A k \in Stack : listening[k] \subseteq Addr /\ pcb[k] \subseteq Quintuple
                     /\ inbox[k] \subseteq Quintuple /\ rereg[k] \in 0..2
  /\ Len(conns) <= MaxConn
  /\ \A n \in DOMAIN conns :
       /\ conns[n].q \in Quintuple /\ conns[n].stack \in Stack
       /\ conns[n].sock \in Cell \cup {None}
       /\ conns[n].timeout = -1 \/ conns[n].timeout \in 1..Timeout
  /\ IsInjective(socks) /\ Range(socks) \subseteq Cell
  /\ \A c \in Range(socks) : sock[c] # None /\ sock[c].con_num \in 0..(ConMod - 1)
  /\ locked \in BOOLEAN /\ scan \in BOOLEAN

(* A quintuple has at most one entry that is on, and no older one of a dead  *)
(* client is in front of it: gazelle_conn_del_by_quintuple, which does not   *)
(* look at the ticks, deletes the entry that its caller has found.           *)
OneLiveConn ==
  \A q \in Quintuple :
    LET live == {n \in DOMAIN conns : conns[n].q = q /\ IsOn(conns[n].stack)} IN
    /\ Cardinality(live) <= 1
    /\ live # {} => ConnToDel(q) \in live

(* A stack whose messages are all read is in the table for exactly the       *)
(* addresses it listens on, but for one closed while it registered again.    *)
TableMatchesListeners ==
  \A k \in Stack, a \in Addr : IsOn(k) /\ reg[k] = <<>> /\ rereg[k] = 0 =>
    LET listed == \E c \in Range(socks) : sock[c].stack = k /\ sock[c].addr = a IN
    /\ a \in listening[k] => listed
    /\ listed => a \in listening[k] \/ (restarts > 0 /\ <<k, a>> \in closed)

(* What conn->sock names is the listener the connection came through, unless *)
(* the client is gone or that listener closed.                               *)
SockAlive ==
  \A n \in DOMAIN conns :
    LET e == conns[n] IN
    \/ e.sock = None
    \/ ~IsOn(e.stack) \/ <<e.stack, Dst[e.q]>> \in closed
    \/ /\ e.sock \in Range(socks)
       /\ sock[e.sock].stack = e.stack /\ sock[e.sock].addr = Dst[e.q]

(* The count by which gazelle_sock_get_by_min_conn shares connections out is *)
(* the number of entries that came through the listener, as long as no       *)
(* client has gone and no listener closed.  A connection that is registered  *)
(* twice when ltran restarts may stay counted, but never goes uncounted.     *)
CountExact ==
  closed = {} /\ (\A p \in Proc : life[p] # "off") =>
    \A c \in Range(socks) :
      LET through == Cardinality({n \in DOMAIN conns : conns[n].sock = c}) IN
      /\ sock[c].con_num >= through
      /\ restarts = 0 => sock[c].con_num = through

Told(k, q) ==
  /\ q \in pcb[k] /\ rereg[k] = 0 /\ ~Pending(q)

Served(k, q) ==
  /\ GetConn(q) # 0
  /\ conns[GetConn(q)].stack = k /\ conns[GetConn(q)].timeout = -1

(* The stack that has a connection gets its packets, and it does not age,    *)
(* once ltran has read the message about it, as long as ltran lives.         *)
OwnerServed ==
  restarts = 0 =>
    \A k \in Stack, q \in Quintuple : Told(k, q) => Served(k, q) \/ Len(conns) = MaxConn

(* "register all connected conn before listen conn, avoid creating new conn" *)
(* (lstack_control_plane.c:603): a connection older than the restart of ltran *)
(* keeps its stack.                                                          *)
ReregisteredServed ==
  \A k \in Stack, q \in Quintuple :
    Told(k, q) /\ <<k, q>> \in carried => Served(k, q)

(* While gazellectl's thread walks the chains under mlock no entry goes away *)
(* under it.                                                                 *)
NoRemovalWhileShown ==
  [][locked /\ locked' => Len(conns') >= Len(conns) /\ Len(socks') >= Len(socks)]_vars
=============================================================================
