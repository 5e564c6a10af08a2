--------------------------------- MODULE Dfx ---------------------------------
(***************************************************************************)
(* Statistics and diagnostics: gazellectl (src/ltran/ltran_dfx.c), the     *)
(* control thread of ltran (ltran_monitor.c, ltran_stat.c) and the control *)
(* thread of an lstack process (src/lstack/core/lstack_control_plane.c,    *)
(* lstack_stack_stat.c), over unix stream sockets.                         *)
(*                                                                         *)
(* With ltran, gazellectl asks ltran on a connection of its own, and what  *)
(* only lstack knows ltran fetches over the long connection on which the   *)
(* process registered.  ltran's control thread is one thread: while it     *)
(* waits for lstack it serves nobody, the registrations lstack may itself  *)
(* be waiting for included.  Without ltran, gazellectl asks lstack.        *)
(*                                                                         *)
(* A connection of gazellectl is named <<c, n>>, the n-th that process c   *)
(* made.  A frame is one fixed-size answer structure; its kind stands for  *)
(* the size, and it carries the request it answers.  Contents are left     *)
(* out.                                                                    *)
(***************************************************************************)
EXTENDS Naturals, Sequences, FiniteSets

CONSTANTS
  Ctl,         \* gazellectl processes
  Plans,       \* what the users type: a command, or None, for each of them
  StackNum,    \* stack_group->stack_num
  MaxDfx,      \* GAZELLE_MAX_DFX_FD_NUM
  MaxConn,     \* bound: connections of one gazellectl, the probe not counted
  MaxRestart,  \* bound: how often ltran is started again
  None

Stacks == 1..StackNum

(* parse_dfx_ltran_set_args, parse_dfx_ltran_show_args: the requests a       *)
(* command about ltran stands for.  MODE_MAX says that the request before it *)
(* is repeated.                                                              *)
LtranCommand ==
  [ltran_quit         |-> <<"LTRAN_QUIT">>,
   ltran_set_loglevel |-> <<"LTRAN_LOG_LEVEL_SET">>,
   ltran_show         |-> <<"LTRAN_SHOW">>,
   ltran_rate         |-> <<"LTRAN_SHOW_RATE", "MODE_MAX">>,
   ltran_instance     |-> <<"LTRAN_SHOW_INSTANCE">>,
   ltran_burst        |-> <<"LTRAN_SHOW_BURST", "MODE_MAX">>,
   ltran_socktable    |-> <<"LTRAN_SHOW_SOCKTABLE">>,
   ltran_conntable    |-> <<"LTRAN_SHOW_CONNTABLE">>,
   ltran_latency      |-> <<"LTRAN_START_LATENCY", "LTRAN_STOP_LATENCY",
                            "LTRAN_SHOW_LATENCY">>]

(* parse_dfx_lstack_set_args, parse_dfx_lstack_show_args *)
LstackCommand ==
  [lstack_set_loglevel |-> <<"LSTACK_LOG_LEVEL_SET">>,
   lstack_lowpower    |-> <<"LSTACK_LOW_POWER_MDF">>,
   lstack_show        |-> <<"LSTACK_SHOW">>,
   lstack_rate        |-> <<"LSTACK_SHOW_RATE", "MODE_MAX">>,
   lstack_snmp        |-> <<"LSTACK_SHOW_SNMP">>,
   lstack_connect     |-> <<"LSTACK_SHOW_CONN">>,
   lstack_xstats      |-> <<"LSTACK_SHOW_XSTATS">>,
   lstack_latency     |-> <<"LTRAN_START_LATENCY", "LTRAN_STOP_LATENCY",
                            "LSTACK_SHOW_LATENCY">>,
   lstack_aggregate   |-> <<"LTRAN_START_LATENCY", "LTRAN_STOP_LATENCY",
                            "LSTACK_SHOW_AGGREGATE">>]

(* parse_dfx_cmd_args *)
Command ==
  [cmd \in DOMAIN LtranCommand \cup DOMAIN LstackCommand |->
     IF cmd \in DOMAIN LtranCommand THEN LtranCommand[cmd] ELSE LstackCommand[cmd]]

ASSUME DfxAssumption ==
  /\ StackNum \in Nat \ {0} /\ MaxDfx \in Nat
  /\ MaxConn \in Nat /\ MaxConn >= 4     \* the longest command has four requests
  /\ MaxRestart \in Nat
  /\ None \notin Ctl
  /\ Plans \subseteq [Ctl -> DOMAIN Command \cup {None}]

(* parse_dfx_lstack_show_args: ltran's share of the latency, if there is one *)
Requests(cmd, use) ==
  IF cmd = "lstack_latency" /\ use
  THEN Append(Command[cmd], "LTRAN_SHOW_LATENCY") ELSE Command[cmd]

(* check_cmd_support: what can be asked without ltran *)
Supported(reqs) ==
  \/ reqs[1] \in {"LSTACK_LOG_LEVEL_SET", "LSTACK_SHOW", "LSTACK_SHOW_SNMP",
                  "LSTACK_SHOW_CONN", "LSTACK_SHOW_LATENCY",
                  "LSTACK_LOW_POWER_MDF", "LSTACK_SHOW_XSTATS",
                  "LSTACK_SHOW_AGGREGATE"}
  \/ /\ reqs[1] = "LTRAN_START_LATENCY"
     /\ reqs[Len(reqs)] \in {"LSTACK_SHOW_LATENCY", "LSTACK_SHOW_AGGREGATE"}

(* g_gazelle_dfx_tbl: the structure gazellectl reads, by request *)
RecvKind ==
  [LTRAN_SHOW |-> "ltotal", LTRAN_SHOW_RATE |-> "ltotal",
   LTRAN_SHOW_BURST |-> "ltotal", LTRAN_SHOW_INSTANCE |-> "client",
   LTRAN_SHOW_LATENCY |-> "lat", LTRAN_QUIT |-> "none",
   LTRAN_START_LATENCY |-> "none", LTRAN_STOP_LATENCY |-> "none",
   LTRAN_LOG_LEVEL_SET |-> "none", LTRAN_SHOW_SOCKTABLE |-> "table",
   LTRAN_SHOW_CONNTABLE |-> "table", LSTACK_LOG_LEVEL_SET |-> "none",
   LSTACK_SHOW |-> "total", LSTACK_SHOW_RATE |-> "total",
   LSTACK_SHOW_SNMP |-> "dfx", LSTACK_SHOW_CONN |-> "dfx",
   LSTACK_SHOW_LATENCY |-> "dfx", LSTACK_LOW_POWER_MDF |-> "dfx",
   LSTACK_SHOW_XSTATS |-> "dfx", LSTACK_SHOW_AGGREGATE |-> "dfx"]

(* main changes one entry of it when there is no ltran. *)
FirstKind_NotChanged(mode, use) == RecvKind[mode]
FirstKind(mode, use) ==
  IF mode = "LSTACK_SHOW" /\ ~use THEN "dfx" ELSE RecvKind[mode]

(* The print functions.  These show the one frame dfx_loop has read ...     *)
PrintsTables  == {"LSTACK_SHOW_XSTATS", "LTRAN_SHOW_CONNTABLE", "LTRAN_SHOW_SOCKTABLE"}
PrintsLtran   == {"LTRAN_SHOW", "LTRAN_SHOW_RATE"}
PrintsClients == {"LTRAN_SHOW_INSTANCE", "LTRAN_SHOW_BURST"}
PrintsPower   == {"LSTACK_LOW_POWER_MDF"}
Once == PrintsTables \cup PrintsLtran \cup PrintsClients \cup PrintsPower

(* ... and these read on until eof. *)
PrintsLatency   == {"LTRAN_SHOW_LATENCY"}
PrintsBrief     == {"LSTACK_SHOW"}
PrintsDelays    == {"LSTACK_SHOW_LATENCY"}
PrintsRate      == {"LSTACK_SHOW_RATE"}
PrintsSnmp      == {"LSTACK_SHOW_SNMP"}
PrintsConn      == {"LSTACK_SHOW_CONN"}
PrintsAggregate == {"LSTACK_SHOW_AGGREGATE"}
UntilEof == PrintsLatency \cup PrintsBrief \cup PrintsDelays \cup PrintsRate
            \cup PrintsSnmp \cup PrintsConn \cup PrintsAggregate

ASSUME PrintAssumption ==
  /\ Once \cap UntilEof = {}
  /\ Once \cup UntilEof = {m \in DOMAIN RecvKind : RecvKind[m] # "none"}

(* What is written on a connection: the messages of a registration, a       *)
(* request, and the structures of the answers.                              *)
Kind == {"mem", "att", "ok", "err", "req", "ltotal", "client", "table", "lat",
         "total", "dfx"}

(* None is none of the other values. *)
ASSUME NoneAssumption ==
  None \notin Kind \cup DOMAIN RecvKind \cup DOMAIN Command \cup {"dfx", "reg"}

VARIABLES
  use_ltran,    \* how this host is set up
  lt,           \* ltran's control thread
  starts,       \* how often ltran was started again
  g_dfx_fd_cnt,
  inst, regs,   \* in ltran: the instance of the lstack process, its stacks
  latency,      \* g_start_latency of ltran, latency_start of lstack
  link,         \* the long connection: what is on the way up and down, which
                \* ends are open, whether ltran gave up waiting on it
  ring,         \* each stack: its client_reg_thrd_ring
  ls,           \* lstack's control thread
  ctl,          \* each gazellectl
  chan          \* each connection of gazellectl

vars == <<use_ltran, lt, starts, g_dfx_fd_cnt, inst, regs, latency, link,
          ring, ls, ctl, chan>>
instVars == <<inst, regs>>
ctlVars  == <<ctl, chan>>

Conn == Ctl \X (0..MaxConn)

NoChan == [path |-> None, srv |-> "none", cli |-> FALSE, mode |-> None,
           out |-> <<>>]
NoLink == [up |-> <<>>, dn |-> <<>>, l |-> FALSE, t |-> FALSE, late |-> FALSE]
LtAt(p) == [pc |-> p, ch |-> None, mode |-> None]
LsAt(p, first) ==
  [pc |-> p, first |-> first, mode |-> None, id |-> None, to |-> None, i |-> 0]
CtlAt(p) == [pc |-> p, cmd |-> None, use |-> FALSE, n |-> 0, i |-> 1,
             want |-> None, begun |-> FALSE]
Frame(k, h, last) == [kind |-> k, id |-> h, eof |-> last, mode |-> None]
Msg(k) == Frame(k, None, FALSE)
Req(h, m) == [kind |-> "req", id |-> h, eof |-> FALSE, mode |-> m]

Init ==
  /\ use_ltran \in BOOLEAN
  /\ lt \in {LtAt("down")} \cup (IF use_ltran THEN {LtAt("loop")} ELSE {})
  /\ starts = 0
  /\ g_dfx_fd_cnt = 0
  /\ inst = "none" /\ regs = {}
  /\ latency = [lt |-> FALSE, ls |-> FALSE]
  /\ link = NoLink
  /\ ring = [k \in Stacks |-> "idle"]
  /\ ls = LsAt(IF use_ltran THEN "connect" ELSE "boot", TRUE)
  /\ \E plan \in Plans :
       ctl = [c \in Ctl |-> [CtlAt("idle") EXCEPT !.cmd = plan[c]]]
  /\ chan = [h \in Conn |-> NoChan]

Live == {h \in Conn : chan[h].srv \in {"backlog", "open"}}
LtUp == use_ltran /\ lt.pc # "down"

(* One end of a connection is closed.  What the other end has not read yet *)
(* it may still read; a connection both have closed is gone.               *)
ShutByCtl(r) ==
  IF r.srv = "shut" THEN NoChan ELSE [r EXCEPT !.cli = FALSE, !.out = <<>>]
ShutByServer(r) == IF r.cli THEN [r EXCEPT !.srv = "shut"] ELSE NoChan
ShutByLstack(r) == IF r.t THEN [r EXCEPT !.l = FALSE, !.dn = <<>>] ELSE NoLink
ShutByLtran(r)  == IF r.l THEN [r EXCEPT !.t = FALSE, !.up = <<>>] ELSE NoLink

(* What is written to a gazellectl that is gone is lost. *)
Write(r, frames) == IF r.cli THEN [r EXCEPT !.out = @ \o frames] ELSE r

-----------------------------------------------------------------------------
(* gazellectl *)

(* main: the probe that decides g_use_ltran, then the arguments.  The probe *)
(* is a connection of its own, closed at once.                              *)
Start(c) ==
  /\ ctl[c].pc = "idle" /\ ctl[c].cmd # None
  /\ ctl' = [ctl EXCEPT ![c] =
       IF LtUp \/ Supported(Requests(ctl[c].cmd, LtUp))
       THEN [@ EXCEPT !.pc = "connect", !.use = LtUp]
       ELSE CtlAt("done")]
  /\ chan' = IF LtUp
             THEN [chan EXCEPT ![<<c, 0>>].path = "dfx", ![<<c, 0>>].srv = "backlog"]
             ELSE chan
  /\ UNCHANGED <<use_ltran, lt, starts, g_dfx_fd_cnt, instVars, latency, link, ring, ls>>

Mode(c) == Requests(ctl[c].cmd, ctl[c].use)[ctl[c].i]
Mine(c) == <<c, ctl[c].n>>

(* gazelle_client.sock is ltran's in one set-up and lstack's in the other. *)
Reachable(use) ==
  IF use_ltran THEN LtUp ELSE ~use /\ ls.pc \notin {"boot", "down"}

(* dfx_loop, dfx_stat_conn_to_ltran: connect and write the request *)
Connect(c) ==
  LET h == <<c, ctl[c].n + 1>>
      m == Mode(c)
      w == FirstKind(m, ctl[c].use)
  IN /\ ctl[c].pc = "connect"
     /\ IF Reachable(ctl[c].use)
        THEN /\ ctl' = [ctl EXCEPT ![c].n = @ + 1, ![c].want = w,
                          ![c].begun = FALSE,
                          ![c].pc = IF w = "none" THEN "sleep" ELSE "read"]
             /\ chan' = [chan EXCEPT ![h] =
                  [path |-> IF ctl[c].use THEN "dfx" ELSE "reg",
                   srv |-> "backlog", cli |-> TRUE, mode |-> m, out |-> <<>>]]
        ELSE /\ ctl' = [ctl EXCEPT ![c] = CtlAt("done")]
             /\ UNCHANGED chan
     /\ UNCHANGED <<use_ltran, lt, starts, g_dfx_fd_cnt, instVars, latency, link,
                    ring, ls>>

(* The end of the body of dfx_loop: close, and the next request.  The user *)
(* ends a repeated one after MaxConn connections.                          *)
Advance(c) ==
  LET reqs == Requests(ctl[c].cmd, ctl[c].use)
      i    == ctl[c].i + 1
      rep  == i <= Len(reqs) /\ reqs[i] = "MODE_MAX"
  IN /\ chan' = [chan EXCEPT ![Mine(c)] = ShutByCtl(@)]
     /\ ctl' = [ctl EXCEPT ![c] =
          IF i > Len(reqs) \/ (rep /\ ctl[c].n = MaxConn)
          THEN CtlAt("done")
          ELSE [@ EXCEPT !.pc = "connect", !.want = None, !.begun = FALSE,
                         !.i = IF rep THEN ctl[c].i ELSE i]]

(* gazelle_print_ltran_wait, gazelle_print_ltran_start_latency *)
Wake(c) ==
  /\ ctl[c].pc = "sleep"
  /\ Advance(c)
  /\ UNCHANGED <<use_ltran, lt, starts, g_dfx_fd_cnt, instVars, latency, link, ring, ls>>

(* dfx_stat_read_from_ltran and the loops of the print functions.  With     *)
(* ltran, gazelle_print_lstack_stat_total reads what ltran counted, to its  *)
(* eof, and then what lstack counted.                                       *)
ReadFrame(c) ==
  LET h == Mine(c)
      f == Head(chan[h].out)
      second == /\ Mode(c) = "LSTACK_SHOW" /\ ctl[c].use
                /\ f.eof /\ ctl[c].want = "total"
      more == Mode(c) \in UntilEof /\ ~f.eof
  IN /\ ctl[c].pc = "read"
     /\ chan[h].out # <<>>
     /\ IF more \/ second
        THEN /\ chan' = [chan EXCEPT ![h].out = Tail(@)]
             /\ ctl' = [ctl EXCEPT ![c].begun = TRUE,
                          ![c].want = IF second THEN "dfx" ELSE @]
        ELSE Advance(c)
     /\ UNCHANGED <<use_ltran, lt, starts, g_dfx_fd_cnt, instVars, latency, link,
                    ring, ls>>

(* read returned 0.  Before the first frame dfx_loop gives up; a print     *)
(* function only returns, and dfx_loop goes on.                            *)
ReadFails(c) ==
  /\ ctl[c].pc = "read"
  /\ chan[Mine(c)].out = <<>> /\ chan[Mine(c)].srv = "shut"
  /\ IF ctl[c].begun
     THEN Advance(c)
     ELSE /\ ctl' = [ctl EXCEPT ![c] = CtlAt("done")]
          /\ chan' = [chan EXCEPT ![Mine(c)] = ShutByCtl(@)]
  /\ UNCHANGED <<use_ltran, lt, starts, g_dfx_fd_cnt, instVars, latency, link, ring, ls>>

(* The user interrupts the command. *)
Interrupt(c) ==
  /\ ctl[c].pc \in {"read", "sleep"}
  /\ ctl' = [ctl EXCEPT ![c] = CtlAt("done")]
  /\ chan' = [chan EXCEPT ![Mine(c)] = ShutByCtl(@)]
  /\ UNCHANGED <<use_ltran, lt, starts, g_dfx_fd_cnt, instVars, latency, link, ring, ls>>

CtlStep(c) ==
  \/ Connect(c)
  \/ Wake(c)
  \/ ReadFrame(c)
  \/ ReadFails(c)

-----------------------------------------------------------------------------
(* ltran's control thread: gazellectl's connections *)

(* dfx_server_msg_proc.  The test lets one more in than the message says.   *)
(* A connection gazellectl has closed already (the probe) is counted,       *)
(* reported with EPOLLHUP and closed again: dfx_conn_msg_proc.              *)
LtAccept(h) ==
  /\ lt.pc = "loop"
  /\ chan[h].path = "dfx" /\ chan[h].srv = "backlog"
  /\ IF g_dfx_fd_cnt > MaxDfx \/ ~chan[h].cli
     THEN /\ chan' = [chan EXCEPT ![h] = ShutByServer(@)]
          /\ UNCHANGED g_dfx_fd_cnt
     ELSE /\ chan' = [chan EXCEPT ![h].srv = "open"]
          /\ g_dfx_fd_cnt' = g_dfx_fd_cnt + 1
  /\ UNCHANGED <<use_ltran, lt, starts, instVars, latency, link, ring, ls, ctl>>

(* dfx_conn_msg_proc, label END: the command's connection is always closed. *)
EndRequest(r, h) ==
  /\ g_dfx_fd_cnt' = g_dfx_fd_cnt - 1
  /\ chan' = [chan EXCEPT ![h] = ShutByServer(r)]
  /\ lt' = LtAt("loop")

(* EPOLLHUP comes with EPOLLIN: a request whose sender is gone is not read. *)
LtDropped(h) ==
  /\ lt.pc = "loop"
  /\ chan[h].path = "dfx" /\ chan[h].srv = "open" /\ ~chan[h].cli
  /\ EndRequest(chan[h], h)
  /\ UNCHANGED <<use_ltran, starts, instVars, latency, link, ring, ls, ctl>>

Asks(h, modes) ==
  /\ lt.pc = "loop"
  /\ chan[h].path = "dfx" /\ chan[h].srv = "open" /\ chan[h].cli
  /\ chan[h].mode \in modes

(* gazelle_filling_lstack_stat_total: the counters of one stack *)
StackTotal(h, last) == Frame("total", h, last)

(* handle_resp_lstack_total: one structure per stack, the last with eof; one *)
(* with eof if there is none yet.                                            *)
Totals(h) ==
  LET n == Cardinality(regs)
  IN IF inst # "on" THEN <<>>
     ELSE IF n = 0 THEN <<StackTotal(h, TRUE)>>
     ELSE [i \in 1..n |-> StackTotal(h, i = n)]

(* handle_resp_ltran_latency: no eof if the instance is not on *)
Latencies(h) ==
  LET n == Cardinality(regs)
  IN IF inst = "mem" THEN <<>>
     ELSE [i \in 1..(n + 1) |-> Frame("lat", h, i = n + 1)]

(* handle_resp_ltran_total, handle_resp_ltran_client, and _sock and _conn    *)
LtranTotal(h)  == <<Frame("ltotal", h, FALSE)>>
Clients(h)     == <<Frame("client", h, FALSE)>>
TableLines(h)  == <<Frame("table", h, FALSE)>>

OwnModes == {"LTRAN_SHOW", "LTRAN_SHOW_RATE", "LTRAN_SHOW_BURST",
             "LTRAN_SHOW_INSTANCE", "LTRAN_SHOW_SOCKTABLE",
             "LTRAN_SHOW_CONNTABLE", "LTRAN_SHOW_LATENCY", "LSTACK_SHOW_RATE",
             "LTRAN_LOG_LEVEL_SET", "LSTACK_SHOW_XSTATS", "LSTACK_SHOW_AGGREGATE"}

(* What ltran_req_mode_process and lstack_req_mode_process answer by         *)
(* themselves.  Two modes lstack would know are not recognised here.         *)
OwnAnswer(h, mode) ==
  CASE mode \in {"LTRAN_SHOW", "LTRAN_SHOW_RATE", "LTRAN_SHOW_BURST"} ->
         LtranTotal(h)
    [] mode = "LTRAN_SHOW_INSTANCE" -> Clients(h)
    [] mode \in {"LTRAN_SHOW_SOCKTABLE", "LTRAN_SHOW_CONNTABLE"} -> TableLines(h)
    [] mode = "LTRAN_SHOW_LATENCY" -> Latencies(h)
    [] mode = "LSTACK_SHOW_RATE" -> Totals(h)
    [] OTHER -> <<>>

LtAnswer(h) ==
  /\ Asks(h, OwnModes)
  /\ EndRequest(Write(chan[h], OwnAnswer(h, chan[h].mode)), h)
  /\ UNCHANGED <<use_ltran, starts, instVars, latency, link, ring, ls, ctl>>

(* ltran stops: gazelle_ctl_destroy closes everything. *)
LtQuit(h) ==
  /\ Asks(h, {"LTRAN_QUIT"})
  /\ lt' = LtAt("down")
  /\ g_dfx_fd_cnt' = 0
  /\ inst' = "none" /\ regs' = {}
  /\ latency' = [latency EXCEPT !.lt = FALSE]
  /\ link' = ShutByLtran(link)
  /\ ring' = [k \in Stacks |-> IF ring[k] = "asked" THEN "err" ELSE ring[k]]
  /\ chan' = [g \in Conn |-> IF g \in Live THEN ShutByServer(chan[g])
                             ELSE chan[g]]
  /\ UNCHANGED <<use_ltran, starts, ls, ctl>>

(* ltran is started (again): gazelle_ctl_init *)
LtStart ==
  /\ use_ltran /\ lt.pc = "down" /\ starts < MaxRestart
  /\ lt' = LtAt("loop")
  /\ starts' = starts + 1
  /\ UNCHANGED <<use_ltran, g_dfx_fd_cnt, instVars, latency, link, ring, ls, ctlVars>>

-----------------------------------------------------------------------------
(* handle_resp_lstack_transfer *)

ToLstack == {"LTRAN_START_LATENCY", "LTRAN_STOP_LATENCY", "LSTACK_LOG_LEVEL_SET",
             "LSTACK_SHOW", "LSTACK_SHOW_SNMP", "LSTACK_SHOW_CONN",
             "LSTACK_SHOW_LATENCY", "LSTACK_LOW_POWER_MDF"}
Forwarded == ToLstack \ {"LTRAN_START_LATENCY", "LTRAN_STOP_LATENCY",
                         "LSTACK_LOG_LEVEL_SET"}

(* Leaving it.  ltran begins to stamp packets after lstack began to measure. *)
EndTransfer(r, h, mode) ==
  /\ EndRequest(r, h)
  /\ latency' = IF mode = "LTRAN_START_LATENCY"
                THEN [latency EXCEPT !.lt = TRUE] ELSE latency

(* Is there an instance to ask?  It is on once it has been told RSP_OK. *)
MayAsk_AnyState == inst # "none"
MayAsk == inst = "on"

LtTransfer(h) ==
  LET m == chan[h].mode
      r == IF m = "LSTACK_SHOW" THEN Write(chan[h], Totals(h)) ELSE chan[h]
  IN /\ Asks(h, ToLstack)
     /\ IF MayAsk
        THEN /\ lt' = [pc |-> "xfer", ch |-> h, mode |-> m]
             /\ link' = IF link.l THEN [link EXCEPT !.dn = Append(@, Req(h, m))]
                        ELSE link
             /\ chan' = [chan EXCEPT ![h] = r]
             /\ latency' = IF m = "LTRAN_STOP_LATENCY"
                           THEN [latency EXCEPT !.lt = FALSE] ELSE latency
             /\ UNCHANGED g_dfx_fd_cnt
        ELSE /\ EndRequest(r, h)
             /\ latency' = CASE m = "LTRAN_STOP_LATENCY" -> [latency EXCEPT !.lt = FALSE]
                             [] m = "LTRAN_START_LATENCY" -> [latency EXCEPT !.lt = TRUE]
                             [] OTHER -> latency
             /\ UNCHANGED link
     /\ UNCHANGED <<use_ltran, starts, instVars, ring, ls, ctl>>

(* A frame arrives.  It is read to the last one even if nobody wants it. *)
LtForward_Stops ==
  LET f == Head(link.up)
      h == lt.ch
      r == IF lt.mode \in Forwarded THEN Write(chan[h], <<f>>) ELSE chan[h]
  IN /\ lt.pc = "xfer" /\ link.up # <<>>
     /\ link' = [link EXCEPT !.up = Tail(@)]
     /\ IF f.eof \/ ~chan[h].cli
        THEN EndTransfer(r, h, lt.mode)
        ELSE /\ chan' = [chan EXCEPT ![h] = r]
             /\ UNCHANGED <<lt, g_dfx_fd_cnt, latency>>
     /\ UNCHANGED <<use_ltran, starts, instVars, ring, ls, ctl>>
LtForward ==
  LET f == Head(link.up)
      h == lt.ch
      r == IF lt.mode \in Forwarded THEN Write(chan[h], <<f>>) ELSE chan[h]
  IN /\ lt.pc = "xfer" /\ link.up # <<>>
     /\ link' = [link EXCEPT !.up = Tail(@)]
     /\ IF f.eof
        THEN EndTransfer(r, h, lt.mode)
        ELSE /\ chan' = [chan EXCEPT ![h] = r]
             /\ UNCHANGED <<lt, g_dfx_fd_cnt, latency>>
     /\ UNCHANGED <<use_ltran, starts, instVars, ring, ls, ctl>>

(* lstack closed the connection. *)
LtPeerGone ==
  /\ lt.pc = "xfer" /\ link.up = <<>> /\ ~link.l
  /\ EndTransfer(chan[lt.ch], lt.ch, lt.mode)
  /\ UNCHANGED <<use_ltran, starts, instVars, link, ring, ls, ctl>>

(* SO_RCVTIMEO, set in reg_server_msg_proc: nothing came for 60 seconds. *)
LtTimeout_Never ==
  /\ lt.pc = "xfer" /\ FALSE
  /\ UNCHANGED vars
LtTimeout ==
  /\ lt.pc = "xfer" /\ link.up = <<>> /\ link.l
  /\ EndTransfer(chan[lt.ch], lt.ch, lt.mode)
  /\ link' = [link EXCEPT !.late = TRUE]
  /\ UNCHANGED <<use_ltran, starts, instVars, ring, ls, ctl>>

-----------------------------------------------------------------------------
(* ltran's control thread: reg_conn_msg_proc *)

UpKind == IF link.up = <<>> THEN None ELSE Head(link.up).kind

(* Label END for the long connection: handle_instance_logout, close *)
Logout_InstanceStays ==
  /\ link' = ShutByLtran(link)
  /\ UNCHANGED instVars
Logout ==
  /\ link' = ShutByLtran(link)
  /\ inst' = "none" /\ regs' = {}

(* handle_reg_msg_proc_mem: refused if the process is still known, which is *)
(* then logged out under its pid                                            *)
LtMem ==
  /\ lt.pc = "loop" /\ link.t /\ link.l /\ UpKind = "mem"
  /\ IF inst = "none"
     THEN /\ inst' = "mem"
          /\ link' = [link EXCEPT !.up = Tail(@), !.dn = Append(@, Msg("ok"))]
          /\ UNCHANGED regs
     ELSE /\ link' = ShutByLtran([link EXCEPT !.dn = Append(@, Msg("err"))])
          /\ inst' = "none" /\ regs' = {}
  /\ UNCHANGED <<use_ltran, lt, starts, g_dfx_fd_cnt, latency, ring, ls, ctlVars>>

(* handle_reg_msg_proc_att *)
LtAtt ==
  /\ lt.pc = "loop" /\ link.t /\ link.l /\ UpKind = "att"
  /\ inst' = "on"
  /\ link' = [link EXCEPT !.up = Tail(@), !.dn = Append(@, Msg("ok"))]
  /\ UNCHANGED <<use_ltran, lt, starts, g_dfx_fd_cnt, regs, latency, ring, ls, ctlVars>>

(* handle_reg_msg_thrd_ring, on a connection the stack made for it *)
LtRing(k) ==
  /\ lt.pc = "loop" /\ ring[k] = "asked"
  /\ IF inst = "none"
     THEN ring' = [ring EXCEPT ![k] = "err"] /\ UNCHANGED regs
     ELSE ring' = [ring EXCEPT ![k] = "ok"] /\ regs' = regs \cup {k}
  /\ UNCHANGED <<use_ltran, lt, starts, g_dfx_fd_cnt, inst, latency, link, ls, ctlVars>>

(* EPOLLHUP on the long connection *)
LtHup ==
  /\ lt.pc = "loop" /\ link.t /\ ~link.l
  /\ Logout
  /\ UNCHANGED <<use_ltran, lt, starts, g_dfx_fd_cnt, latency, ring, ls, ctlVars>>

(* An answer nobody waits for any more is read as requests to register, one *)
(* sizeof(struct reg_request_msg) at a time.  Whole ones are not recognised; *)
(* what is left at the end is shorter, and the read waits for the rest.      *)
(* Other events that ltran may handle between two chunks are left out.       *)
LtLate ==
  /\ lt.pc \in {"loop", "late"} /\ link.t /\ UpKind = "dfx"
  /\ lt.pc = "loop" => link.l
  /\ lt' = LtAt("late")
  /\ link' = [link EXCEPT !.up = Tail(@)]
  /\ UNCHANGED <<use_ltran, starts, g_dfx_fd_cnt, instVars, latency, ring, ls, ctlVars>>

(* ... until it times out, or lstack closes. *)
LtLateEnd ==
  /\ lt.pc = "late" /\ link.up = <<>>
  /\ lt' = LtAt("loop")
  /\ Logout
  /\ UNCHANGED <<use_ltran, starts, g_dfx_fd_cnt, latency, ring, ls, ctlVars>>

(* gazellectl found no ltran when it probed, and took ltran's socket for the *)
(* one of lstack: its request is too short to be one to register.            *)
LtStray(h) ==
  /\ lt.pc = "loop" /\ use_ltran
  /\ chan[h].path = "reg" /\ chan[h].srv = "backlog"
  /\ lt' = [pc |-> "stray", ch |-> h, mode |-> None]
  /\ chan' = [chan EXCEPT ![h].srv = "open"]
  /\ UNCHANGED <<use_ltran, starts, g_dfx_fd_cnt, instVars, latency, link, ring, ls, ctl>>

(* It times out, or gazellectl closes.  No process is logged out: data->pid *)
(* is 0.                                                                    *)
LtStrayEnd ==
  /\ lt.pc = "stray"
  /\ lt' = LtAt("loop")
  /\ chan' = [chan EXCEPT ![lt.ch] = ShutByServer(@)]
  /\ UNCHANGED <<use_ltran, starts, g_dfx_fd_cnt, instVars, latency, link, ring, ls, ctl>>

LtStep ==
  \/ \E h \in Live : \/ LtAccept(h) \/ LtDropped(h) \/ LtAnswer(h)
                     \/ LtQuit(h) \/ LtTransfer(h) \/ LtStray(h)
  \/ LtForward \/ LtPeerGone \/ LtTimeout
  \/ LtMem \/ LtAtt \/ (\E k \in Stacks : LtRing(k)) \/ LtHup
  \/ LtLate \/ LtLateEnd \/ LtStrayEnd

-----------------------------------------------------------------------------
(* lstack: registration *)

(* control_init_client: connect_to_ltran tries for ever.  An instance of    *)
(* this process that ltran has not logged out yet is refused, and the       *)
(* attempt repeated: LtranInstance has that, here it waits.                 *)
LsConnect ==
  /\ ls.pc = "connect" /\ LtUp /\ ~link.l /\ ~link.t
  /\ link' = [NoLink EXCEPT !.l = TRUE, !.t = TRUE, !.up = <<Msg("mem")>>]
  /\ ls' = [ls EXCEPT !.pc = "mem"]
  /\ ring' = [k \in Stacks |-> "idle"]
  /\ UNCHANGED <<use_ltran, lt, starts, g_dfx_fd_cnt, instVars, latency, ctlVars>>

DnKind == IF link.dn = <<>> THEN None ELSE Head(link.dn).kind

(* client_reg_proc_memory has its answer: client_reg_proc_attach *)
LsMemOk ==
  /\ ls.pc = "mem" /\ DnKind = "ok"
  /\ link' = [link EXCEPT !.dn = Tail(@),
                !.up = IF link.t THEN Append(@, Msg("att")) ELSE @]
  /\ ls' = [ls EXCEPT !.pc = "att"]
  /\ UNCHANGED <<use_ltran, lt, starts, g_dfx_fd_cnt, instVars, latency, ring, ctlVars>>

LsAttOk ==
  /\ ls.pc = "att" /\ DnKind = "ok"
  /\ link' = [link EXCEPT !.dn = Tail(@)]
  /\ ls' = [ls EXCEPT !.pc = IF ls.first THEN "init" ELSE "thr"]
  /\ UNCHANGED <<use_ltran, lt, starts, g_dfx_fd_cnt, instVars, latency, ring, ctlVars>>

(* Lost while registering: the first time the process gives up, later it    *)
(* tries again.                                                             *)
LsLose ==
  /\ link' = ShutByLstack(link)
  /\ ls' = LsAt(IF ls.first THEN "down" ELSE "connect", ls.first)
  /\ ring' = [k \in Stacks |-> IF ring[k] = "asked" /\ ls.first THEN "idle"
                               ELSE ring[k]]

LsRefused ==
  /\ ls.pc \in {"mem", "att"}
  /\ \/ DnKind \notin {"ok", None}
     \/ DnKind = None /\ ~link.t
  /\ LsLose
  /\ UNCHANGED <<use_ltran, lt, starts, g_dfx_fd_cnt, instVars, latency, ctlVars>>

(* client_reg_thrd_ring: at start every stack thread by itself, later one   *)
(* after the other, called from thread_register                             *)
LsAsk(k) ==
  /\ ring[k] = "idle" /\ LtUp
  /\ \/ ls.pc = "init"
     \/ ls.pc = "thr" /\ \A j \in 1..(k - 1) : ring[j] = "ok"
  /\ ring' = [ring EXCEPT ![k] = "asked"]
  /\ UNCHANGED <<use_ltran, lt, starts, g_dfx_fd_cnt, instVars, latency, link, ls, ctlVars>>

LsRingErr ==
  /\ ls.pc \in {"init", "thr"} /\ \E k \in Stacks : ring[k] = "err"
  /\ LsLose
  /\ UNCHANGED <<use_ltran, lt, starts, g_dfx_fd_cnt, instVars, latency, ctlVars>>

(* posix_api->ues_posix is cleared, or thread_register is done. *)
LsReady ==
  /\ ls.pc \in {"init", "thr"}
  /\ use_ltran => \A k \in Stacks : ring[k] = "ok"
  /\ ls' = LsAt("ready", FALSE)
  /\ UNCHANGED <<use_ltran, lt, starts, g_dfx_fd_cnt, instVars, latency, link, ring, ctlVars>>

-----------------------------------------------------------------------------
(* lstack: requests *)

(* control_client_thread: EPOLLHUP before anything else *)
LsHup ==
  /\ ls.pc = "ready" /\ link.l /\ ~link.t
  /\ link' = ShutByLstack(link)
  /\ ls' = LsAt("connect", FALSE)
  /\ UNCHANGED <<use_ltran, lt, starts, g_dfx_fd_cnt, instVars, latency, ring, ctlVars>>

(* handle_stat_request on the long connection *)
LsRequest ==
  LET q == Head(link.dn)
  IN /\ ls.pc = "ready" /\ link.t /\ DnKind = "req"
     /\ link' = [link EXCEPT !.dn = Tail(@)]
     /\ ls' = [ls EXCEPT !.pc = "answer", !.mode = q.mode, !.id = q.id,
                         !.to = "link", !.i = 1]
     /\ UNCHANGED <<use_ltran, lt, starts, g_dfx_fd_cnt, instVars, latency, ring, ctlVars>>

(* control_server_thread: its socket is there before the stacks are.  It    *)
(* answers when the process is up, keeps the connection, and closes it when *)
(* gazellectl has.                                                          *)
SrvListen ==
  /\ ls.pc = "boot"
  /\ ls' = [ls EXCEPT !.pc = "init"]
  /\ UNCHANGED <<use_ltran, lt, starts, g_dfx_fd_cnt, instVars, latency, link, ring, ctlVars>>

SrvAccept(h) ==
  /\ ~use_ltran /\ ls.pc = "ready" /\ chan[h].srv = "backlog"
  /\ chan' = [chan EXCEPT ![h].srv = "open"]
  /\ UNCHANGED <<use_ltran, lt, starts, g_dfx_fd_cnt, instVars, latency, link, ring, ls, ctl>>

SrvHup(h) ==
  /\ ~use_ltran /\ ls.pc = "ready" /\ chan[h].srv = "open" /\ ~chan[h].cli
  /\ chan' = [chan EXCEPT ![h] = ShutByServer(@)]
  /\ UNCHANGED <<use_ltran, lt, starts, g_dfx_fd_cnt, instVars, latency, link, ring, ls, ctl>>

SrvRequest(h) ==
  /\ ~use_ltran /\ ls.pc = "ready" /\ chan[h].srv = "open" /\ chan[h].cli
  /\ chan[h].mode # None
  /\ chan' = [chan EXCEPT ![h].mode = None]
  /\ ls' = [ls EXCEPT !.pc = "answer", !.mode = chan[h].mode, !.id = h,
                      !.to = "chan", !.i = 1]
  /\ UNCHANGED <<use_ltran, lt, starts, g_dfx_fd_cnt, instVars, latency, link, ring, ctl>>

(* handle_proc_cmd, dpdk_nic_xstats_get: one frame *)
OneFrame == {"LSTACK_LOG_LEVEL_SET", "LSTACK_LOW_POWER_MDF", "LSTACK_SHOW_XSTATS"}
Latency == {"LTRAN_START_LATENCY", "LTRAN_STOP_LATENCY"}

(* get_stack_dfx_data: what one stack has to tell, collected by calls into  *)
(* its thread                                                               *)
StackFrame(last) == Frame("dfx", ls.id, last)

(* set_latency_start_flag *)
SetLatency(mode) ==
  latency' = IF mode \in Latency
             THEN [latency EXCEPT !.ls = (mode = "LTRAN_START_LATENCY")]
             ELSE latency

(* handle_stack_cmd, send_control_cmd_data: a frame per stack;              *)
(* the last has eof.  Without ltran the latency switches are not answered.  *)
LsAnswer ==
  LET last   == ls.mode \in OneFrame \/ ls.i = StackNum
      f      == StackFrame(last)
      silent == ~use_ltran /\ ls.mode \in Latency
      gone   == IF ls.to = "link" THEN ~link.t ELSE ~chan[ls.id].cli
  IN /\ ls.pc = "answer"
     /\ SetLatency(ls.mode)
     /\ link' = IF ls.to = "link" /\ link.t THEN [link EXCEPT !.up = Append(@, f)]
                ELSE link
     /\ chan' = IF ls.to = "chan" /\ ~silent
                THEN [chan EXCEPT ![ls.id] = Write(@, <<f>>)] ELSE chan
     /\ ls' = IF last \/ (gone /\ ~silent) THEN LsAt("ready", FALSE)
              ELSE [ls EXCEPT !.i = @ + 1]
     /\ UNCHANGED <<use_ltran, lt, starts, g_dfx_fd_cnt, instVars, ring, ctl>>

(* The process ends; the kernel closes its connections. *)
LsDie ==
  /\ ls.pc # "down"
  /\ ls' = LsAt("down", FALSE)
  /\ link' = ShutByLstack(link)
  /\ ring' = [k \in Stacks |-> "idle"]
  /\ chan' = IF use_ltran THEN chan
             ELSE [h \in Conn |-> IF h \in Live THEN ShutByServer(chan[h])
                                  ELSE chan[h]]
  /\ UNCHANGED <<use_ltran, lt, starts, g_dfx_fd_cnt, instVars, latency, ctl>>

LsStep ==
  \/ LsConnect \/ LsMemOk \/ LsAttOk \/ LsRefused \/ LsRingErr \/ LsReady
  \/ LsHup \/ LsRequest \/ SrvListen \/ LsAnswer
  \/ \E h \in Live : SrvAccept(h) \/ SrvHup(h) \/ SrvRequest(h)

Next ==
  \/ \E c \in Ctl : Start(c) \/ CtlStep(c) \/ Interrupt(c)
  \/ LtStep
  \/ LtStart
  \/ LsStep
  \/ \E k \in Stacks : LsAsk(k)
  \/ LsDie

(* A gazellectl that was started, ltran's control thread, lstack's control  *)
(* thread and its stack threads run; nobody has to type a command, to start *)
(* ltran, or to fail.                                                       *)
Spec == Init /\ [][Next]_vars
Fairness ==
  /\ \A c \in Ctl : WF_vars(CtlStep(c))
  /\ WF_vars(LtStep)
  /\ WF_vars(LsStep)
  /\ \A k \in Stacks : WF_vars(LsAsk(k))
FairSpec == Spec /\ Fairness

-----------------------------------------------------------------------------
(* Properties *)

Message == [kind : Kind, id : Conn \cup {None}, eof : BOOLEAN,
            mode : DOMAIN RecvKind \cup {None}]
Channel(msgs) == \A k \in DOMAIN msgs : msgs[k] \in Message

(* Every variable has its type. *)
TypeOK ==
  /\ use_ltran \in BOOLEAN
  /\ lt \in [pc : {"down", "loop", "xfer", "late", "stray"},
             ch : Conn \cup {None}, mode : ToLstack \cup {None}]
  /\ starts \in 0..MaxRestart /\ g_dfx_fd_cnt \in 0..(MaxDfx + 1)
  /\ inst \in {"none", "mem", "on"} /\ regs \subseteq Stacks
  /\ latency \in [lt : BOOLEAN, ls : BOOLEAN]
  /\ Channel(link.up) /\ Channel(link.dn)
  /\ ring \in [Stacks -> {"idle", "asked", "ok", "err"}]
  /\ ls.pc \in {"boot", "connect", "mem", "att", "init", "thr", "ready", "answer", "down"}
  /\ \A c \in Ctl : /\ ctl[c].pc \in {"idle", "connect", "sleep", "read", "done"}
                   /\ ctl[c].n \in 0..MaxConn
  /\ \A h \in Conn : /\ chan[h].srv \in {"none", "backlog", "open", "shut"}
                    /\ Channel(chan[h].out)

(* A transfer only meets the answer to its own request: whatever is on the  *)
(* way up while ltran waits was asked for by the gazellectl it waits for,   *)
(* also when an earlier one went away in the middle of its answer.  Only a  *)
(* wait given up after 60 seconds leaves an answer behind.                  *)
AnswersMine ==
  lt.pc = "xfer" /\ ~link.late =>
    \A k \in DOMAIN link.up : link.up[k].id = lt.ch

(* The sizes agree: the structure that comes next is the one gazellectl     *)
(* reads next, through both loops of "lstack show", with and without ltran, *)
(* and while the stacks of the process are not registered yet.              *)
FrameFits ==
  \A c \in Ctl : ctl[c].pc = "read" /\ chan[Mine(c)].out # <<>> =>
    Head(chan[Mine(c)].out).kind = ctl[c].want

(* Registration and statistics share the long connection and are not        *)
(* mistaken for each other: lstack finds no request where it waits for the  *)
(* answer to a registration, and no such answer where it takes requests;    *)
(* ltran finds an answer among registrations only after a wait given up.    *)
DialoguesApart ==
  /\ ls.pc \in {"mem", "att"} => DnKind \in {None, "ok", "err"}
  /\ ls.pc = "ready" => DnKind \in {None, "req"}
  /\ lt.pc = "loop" /\ link.l /\ UpKind = "dfx" => link.late
  /\ lt.pc = "xfer" => UpKind \in {None, "dfx"}

(* A command that is not repeated comes back to its user, although ltran's  *)
(* control thread may be waiting for an lstack whose threads wait for it,   *)
(* and although ltran or lstack may stop.                                   *)
CommandEnds == \A c \in Ctl : (ctl[c].pc # "idle") ~> (ctl[c].pc = "done")

Served == /\ inst = "on" /\ regs = Stacks
          /\ ls.pc = "ready" /\ link.l /\ link.t /\ ~link.late

(* When no more commands come, a running lstack ends up registered at a     *)
(* running ltran with all its stacks, whatever answers were late and        *)
(* however often the connection broke.                                      *)
Healed == <>[](Served \/ ~LtUp \/ ls.pc = "down")
=============================================================================
