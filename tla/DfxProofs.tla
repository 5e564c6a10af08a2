------------------------------ MODULE DfxProofs ------------------------------
(***************************************************************************)
(* Statistics and diagnostics for any number of gazellectl processes, of   *)
(* stacks and of connections, and whatever the users type.                 *)
(*                                                                         *)
(* The invariant follows three dialogues.  On the long connection the      *)
(* stage of lstack and that of the instance in ltran determine what is on  *)
(* the way (LinkShape, DnShape); of the statistics on it, unless ltran     *)
(* gave up waiting, there is one request at a time, not yet read, being    *)
(* answered, or answered (Dialogue).  A gazellectl has one connection at a *)
(* time, whose contents the request it stands for and how far the answer   *)
(* was read determine (ChanShape, ReadShape).  The dialogues meet in       *)
(* ltran's control thread (LtShape), which passes on what comes.           *)
(***************************************************************************)
EXTENDS Dfx, FiniteSetTheorems, SequenceTheorems, TLAPS

LtRec == [pc : {"down", "loop", "xfer", "late", "stray"}, ch : Conn \cup {None},
          mode : ToLstack \cup {None}]
LinkRec == [up : Seq(Message), dn : Seq(Message), l : BOOLEAN, t : BOOLEAN,
            late : BOOLEAN]
LsRec == [pc : {"boot", "connect", "mem", "att", "init", "thr", "ready", "answer",
                "down"},
          first : BOOLEAN, mode : DOMAIN RecvKind \cup {None},
          id : Conn \cup {None}, to : {None, "link", "chan"}, i : 0..StackNum]
CtlRec == [pc : {"idle", "connect", "sleep", "read", "done"},
           cmd : DOMAIN Command \cup {None}, use : BOOLEAN, n : 0..MaxConn,
           i : Nat, want : Kind \cup {"none", None}, begun : BOOLEAN]
ChanRec == [path : {"dfx", "reg", None}, srv : {"none", "backlog", "open", "shut"},
            cli : BOOLEAN, mode : DOMAIN RecvKind \cup {None}, out : Seq(Message)]

Types ==
  /\ use_ltran \in BOOLEAN /\ lt \in LtRec
  /\ starts \in 0..MaxRestart
  /\ inst \in {"none", "mem", "on"} /\ regs \subseteq Stacks
  /\ latency \in [lt : BOOLEAN, ls : BOOLEAN] /\ link \in LinkRec
  /\ ring \in [Stacks -> {"idle", "asked", "ok", "err"}]
  /\ ls \in LsRec /\ ctl \in [Ctl -> CtlRec] /\ chan \in [Conn -> ChanRec]

AllOf(msgs, k) == \A j \in DOMAIN msgs : msgs[j].kind = k

(* Who has an end of the long connection, and what comes up on it. *)
Linked == {"mem", "att", "init", "thr", "ready", "answer"}
LinkShape ==
  /\ link.l <=> use_ltran /\ ls.pc \in Linked
  /\ ls.pc = "boot" => ~use_ltran
  /\ ls.pc \in {"boot", "init"} => ls.first
  /\ ls.pc \in {"connect", "mem", "att", "thr"} => use_ltran
  /\ ls.pc = "answer" =>
       ls.i \in 1..StackNum /\ ls.to = (IF use_ltran THEN "link" ELSE "chan")
                            /\ (~use_ltran => ls.id \in Conn)
  /\ lt.pc # "down" => use_ltran
  /\ link.t => lt.pc # "down"
  /\ ~link.t => link.up = <<>> /\ inst = "none"
  /\ inst = "none" /\ link.t => link.up = <<Msg("mem")>>
  /\ inst = "mem" => link.up \in {<<>>, <<Msg("att")>>}
  /\ inst = "on" => AllOf(link.up, "dfx")
  /\ lt.pc = "xfer" => inst = "on"

(* What goes down on it. *)
DnShape ==
  /\ ~link.l => link.dn = <<>>
  /\ ls.pc = "mem" =>
       /\ link.dn \in {<<>>, <<Msg("ok")>>}
       /\ inst = "none" /\ link.t => link.dn = <<>>
       /\ inst = "mem" => link.dn = <<Msg("ok")>> /\ link.up = <<>>
       /\ inst # "on"
  /\ ls.pc = "att" =>
       /\ link.t => inst # "none"
       /\ inst = "mem" => link.dn = <<>> /\ link.up = <<Msg("att")>>
       /\ inst = "on" => link.dn # <<>>
       /\ link.dn # <<>> => link.dn[1] = Msg("ok") /\ AllOf(Tail(link.dn), "req")
  /\ ls.pc \in {"init", "thr", "ready", "answer"} =>
       (link.t => inst = "on") /\ AllOf(link.dn, "req")

(* A request is not read yet, or is being answered, or the answer is there. *)
Asked == {k \in DOMAIN link.dn : link.dn[k].kind = "req"}
Answering == ls.pc = "answer" /\ ls.to = "link"
Quiet == Asked = {} /\ ~Answering /\ (inst = "on" => link.up = <<>>)
Dialogue ==
  ~link.late =>
    /\ lt.pc # "xfer" => Quiet
    /\ lt.pc = "xfer" =>
         /\ \A k \in Asked : /\ link.dn[k].id = lt.ch /\ Asked = {k}
                             /\ ~Answering /\ link.up = <<>>
         /\ Answering => ls.id = lt.ch /\ \A k \in DOMAIN link.up : ~link.up[k].eof
         /\ \A k \in DOMAIN link.up :
              link.up[k].id = lt.ch /\ (link.up[k].eof => k = Len(link.up))

(* How far a gazellectl is.  Each of its connections is new. *)
Repeats(reqs) == Len(reqs) = 2 /\ reqs[2] = "MODE_MAX"
Stage(r) ==
  LET reqs == Requests(r.cmd, r.use)
  IN r.pc \in {"connect", "read", "sleep"} =>
       /\ r.cmd # None /\ (r.use => use_ltran) /\ (~r.use => Supported(reqs))
       /\ r.i \in DOMAIN reqs /\ reqs[r.i] # "MODE_MAX"
       /\ IF Repeats(reqs) THEN r.i = 1
          ELSE r.n = (IF r.pc = "connect" THEN r.i - 1 ELSE r.i)
       /\ r.n \in (IF r.pc = "connect" THEN 0..(MaxConn - 1) ELSE 1..MaxConn)
CtlShape(c) ==
  LET r == ctl[c] IN
  /\ r.pc = "idle" => r.n = 0 /\ r.i = 1 /\ chan[<<c, 0>>] = NoChan
  /\ Stage(r)
  /\ r.pc # "done" => \A m \in (r.n + 1)..MaxConn : chan[<<c, m>>] = NoChan

(* ltran's control thread passes on the answer for this connection, or has  *)
(* not looked at its request yet.                                           *)
Serving(h) == lt.pc = "xfer" /\ lt.ch = h
Unasked(h) ==
  \/ chan[h].srv = "backlog"
  \/ chan[h].srv = "open" /\ ~Serving(h)
LtShape ==
  /\ lt.pc = "xfer" => /\ lt.ch \in Conn /\ lt.mode = chan[lt.ch].mode
                       /\ lt.mode \in ToLstack
                       /\ chan[lt.ch].path = "dfx" /\ chan[lt.ch].srv = "open"
  /\ lt.pc = "stray" => /\ lt.ch \in Conn
                        /\ chan[lt.ch].path = "reg" /\ chan[lt.ch].srv = "open"

ChanShape(h) ==
  LET r == chan[h] IN
  /\ r.path = "dfx" => use_ltran
  /\ ~r.cli => r.out = <<>>
  /\ r.path = "reg" => AllOf(r.out, "dfx")
  /\ r.path = "dfx" /\ Unasked(h) => r.out = <<>>
  /\ r.path = "dfx" /\ r.mode \notin {None, "LSTACK_SHOW"} =>
       AllOf(r.out, RecvKind[r.mode])

(* "lstack show" with ltran: what ltran counted, the last with eof, and then *)
(* what lstack counted.  Some of the first is still to be read, or none.    *)
TotalsFirst(out) ==
  \E k \in DOMAIN out :
    /\ \A j \in DOMAIN out : out[j].kind = IF j <= k THEN "total" ELSE "dfx"
    /\ \A j \in 1..k : out[j].eof <=> j = k
TotalsLeft(h) ==
  /\ chan[h].out = <<>> \/ TotalsFirst(chan[h].out)
  /\ Serving(h) => chan[h].out # <<>>
DfxLeft(h) == AllOf(chan[h].out, "dfx") /\ ~Unasked(h)

ReadAt(c, h) ==
  LET r == chan[h]
      w == ctl[c].want
  IN /\ ctl[c].pc \in {"read", "sleep"} =>
          /\ r.cli /\ r.srv # "none"
          /\ r.path = (IF ctl[c].use THEN "dfx" ELSE "reg")
          /\ r.mode # Mode(c) => ~ctl[c].use /\ r.mode = None
     /\ ctl[c].pc = "read" =>
          /\ w # "none"
          /\ IF ctl[c].use /\ Mode(c) = "LSTACK_SHOW"
             THEN \/ w = "total" /\ TotalsLeft(h)
                  \/ w = "dfx" /\ DfxLeft(h)
             ELSE w = FirstKind(Mode(c), ctl[c].use)
ReadShape(c) == ReadAt(c, Mine(c))

(* The connections dfx_server_msg_proc has counted. *)
Opened == {h \in Conn : chan[h].path = "dfx" /\ chan[h].srv = "open"}
Counted ==
  /\ IsFiniteSet(Opened) /\ g_dfx_fd_cnt = Cardinality(Opened)
  /\ g_dfx_fd_cnt <= MaxDfx + 1

LinkInv == LinkShape /\ DnShape /\ Dialogue
ChanInv ==
  /\ LtShape
  /\ \A c \in Ctl : CtlShape(c) /\ ReadShape(c)
  /\ \A h \in Conn : ChanShape(h)
IInv == Types /\ LinkInv /\ ChanInv /\ Counted

-----------------------------------------------------------------------------
(* Sequences of messages *)

(* One more at the end, and the first one removed. *)
LEMMA AppendFacts ==
  ASSUME NEW S, NEW s \in Seq(S), NEW e \in S
  PROVE  /\ Append(s, e) \in Seq(S) /\ Len(Append(s, e)) = Len(s) + 1
         /\ Len(s) \in Nat /\ DOMAIN s = 1..Len(s)
         /\ DOMAIN Append(s, e) = 1..(Len(s) + 1)
         /\ \A i \in 1..Len(s) : Append(s, e)[i] = s[i]
         /\ Append(s, e)[Len(s) + 1] = e /\ Append(s, e) # <<>>
  OBVIOUS

LEMMA TailFacts ==
  ASSUME NEW S, NEW s \in Seq(S), s # <<>>
  PROVE  /\ Tail(s) \in Seq(S) /\ Len(Tail(s)) = Len(s) - 1
         /\ Head(s) = s[1] /\ s[1] \in S /\ 1 \in DOMAIN s
         /\ Len(s) \in Nat \ {0} /\ DOMAIN s = 1..Len(s)
         /\ DOMAIN Tail(s) = 1..(Len(s) - 1)
         /\ \A i \in 1..(Len(s) - 1) : Tail(s)[i] = s[i + 1]
  OBVIOUS

LEMMA FourthFacts ==
  ASSUME NEW S, NEW s \in Seq(S), NEW e \in S
  PROVE  Len(s) = 3 =>
           /\ Append(s, e) \in Seq(S) /\ Len(Append(s, e)) = 4
           /\ DOMAIN s = 1..3 /\ DOMAIN Append(s, e) = 1..4
           /\ \A i \in 1..4 : Append(s, e)[i] = IF i = 4 THEN e ELSE s[i]
<1>1. /\ Append(s, e) \in Seq(S) /\ Len(Append(s, e)) = Len(s) + 1
      /\ DOMAIN s = 1..Len(s) /\ DOMAIN Append(s, e) = 1..(Len(s) + 1)
      /\ \A i \in 1..Len(s) : Append(s, e)[i] = s[i]
      /\ Append(s, e)[Len(s) + 1] = e
  BY AppendFacts
<1> QED
  BY <1>1

(* What is written is written at the end. *)
LEMMA WriteOne ==
  ASSUME NEW S, NEW s \in Seq(S), NEW e \in S
  PROVE  s \o <<e>> = Append(s, e)
  OBVIOUS

LEMMA WriteFirst ==
  ASSUME NEW S, NEW s \in Seq(S)
  PROVE  <<>> \o s = s
  OBVIOUS

(* All of one kind, after a message of it and without the first one. *)
LEMMA AllOfFacts ==
  ASSUME NEW S, NEW s \in Seq(S), NEW k, AllOf(s, k)
  PROVE  /\ \A e \in S : e.kind = k => AllOf(Append(s, e), k)
         /\ s # <<>> => AllOf(Tail(s), k) /\ Head(s).kind = k
<1>1. ASSUME NEW e \in S, e.kind = k PROVE AllOf(Append(s, e), k)
  <2>1. /\ Len(s) \in Nat /\ DOMAIN s = 1..Len(s)
        /\ DOMAIN Append(s, e) = 1..(Len(s) + 1)
        /\ \A i \in 1..Len(s) : Append(s, e)[i] = s[i]
        /\ Append(s, e)[Len(s) + 1] = e
    BY AppendFacts
  <2>2. ASSUME NEW j \in DOMAIN Append(s, e) PROVE Append(s, e)[j].kind = k
    <3>1. CASE j \in 1..Len(s)
      BY <2>1, <3>1 DEF AllOf
    <3>2. CASE j = Len(s) + 1
      BY <1>1, <2>1, <3>2
    <3> QED
      BY <2>1, <3>1, <3>2
  <2> QED
    BY <2>2 DEF AllOf
<1>2. ASSUME s # <<>> PROVE AllOf(Tail(s), k) /\ Head(s).kind = k
  BY <1>2, TailFacts DEF AllOf
<1> QED
  BY <1>1, <1>2

(* Nothing, and one message. *)
LEMMA AllOfFew ==
  /\ \A k : AllOf(<<>>, k)
  /\ \A e, k : AllOf(<<e>>, k) <=> e.kind = k
<1>1. \A k : AllOf(<<>>, k)
  BY DEF AllOf
<1>2. \A e : DOMAIN <<e>> = {1} /\ <<e>>[1] = e
  OBVIOUS
<1> QED
  BY <1>1, <1>2 DEF AllOf

-----------------------------------------------------------------------------
(* The tables of commands *)

(* What the users can type, by whom it is about. *)
LEMMA Commands ==
  /\ DOMAIN LtranCommand =
       {"ltran_quit", "ltran_set_loglevel", "ltran_show", "ltran_rate", "ltran_instance",
        "ltran_burst", "ltran_socktable", "ltran_conntable", "ltran_latency"}
  /\ DOMAIN LstackCommand =
       {"lstack_set_loglevel", "lstack_lowpower", "lstack_show", "lstack_rate",
        "lstack_snmp", "lstack_connect", "lstack_xstats", "lstack_latency",
        "lstack_aggregate"}
  BY DEF LtranCommand, LstackCommand

(* The requests there are. *)
LEMMA Modes ==
  DOMAIN RecvKind =
    {"LTRAN_SHOW", "LTRAN_SHOW_RATE", "LTRAN_SHOW_BURST", "LTRAN_SHOW_INSTANCE",
     "LTRAN_SHOW_LATENCY", "LTRAN_QUIT", "LTRAN_START_LATENCY", "LTRAN_STOP_LATENCY",
     "LTRAN_LOG_LEVEL_SET", "LTRAN_SHOW_SOCKTABLE", "LTRAN_SHOW_CONNTABLE",
     "LSTACK_LOG_LEVEL_SET", "LSTACK_SHOW", "LSTACK_SHOW_RATE", "LSTACK_SHOW_SNMP",
     "LSTACK_SHOW_CONN", "LSTACK_SHOW_LATENCY", "LSTACK_LOW_POWER_MDF",
     "LSTACK_SHOW_XSTATS", "LSTACK_SHOW_AGGREGATE"}
  BY DEF RecvKind

(* The shape of what a command stands for: one to four requests, of which   *)
(* the second of two may say that the first is repeated.                    *)
Listed(reqs) ==
  /\ reqs \in Seq(DOMAIN RecvKind \cup {"MODE_MAX"})
  /\ Len(reqs) \in 1..4
  /\ \A i \in DOMAIN reqs : reqs[i] = "MODE_MAX" => i = 2 /\ Len(reqs) = 2

(* One request; two, or one that is repeated; three; one more. *)
LEMMA ListedOne ==
  ASSUME NEW a \in DOMAIN RecvKind
  PROVE  Listed(<<a>>)
<1>1. a # "MODE_MAX"
  BY Modes
<1> QED
  BY <1>1 DEF Listed
LEMMA ListedTwo ==
  ASSUME NEW a \in DOMAIN RecvKind, NEW b \in DOMAIN RecvKind \cup {"MODE_MAX"}
  PROVE  Listed(<<a, b>>)
<1>1. a # "MODE_MAX"
  BY Modes
<1> QED
  BY <1>1 DEF Listed
LEMMA ListedThree ==
  ASSUME NEW a \in DOMAIN RecvKind, NEW b \in DOMAIN RecvKind, NEW c \in DOMAIN RecvKind
  PROVE  Listed(<<a, b, c>>)
<1>1. a # "MODE_MAX" /\ b # "MODE_MAX" /\ c # "MODE_MAX"
  BY Modes
<1> QED
  BY <1>1 DEF Listed
LEMMA ListedFour ==
  ASSUME NEW reqs, Listed(reqs), Len(reqs) = 3, NEW d \in DOMAIN RecvKind
  PROVE  Listed(Append(reqs, d))
<1>1. PICK modes : modes = DOMAIN RecvKind \cup {"MODE_MAX"}
  OBVIOUS
<1>2. d # "MODE_MAX" /\ d \in modes
  BY <1>1, Modes
<1>3. reqs \in Seq(modes) /\ DOMAIN reqs = 1..3
  BY <1>1 DEF Listed
<1>4. \A i \in DOMAIN reqs : reqs[i] # "MODE_MAX"
  BY DEF Listed
<1>5. /\ Append(reqs, d) \in Seq(modes) /\ Len(Append(reqs, d)) = 4
      /\ DOMAIN Append(reqs, d) = 1..4
      /\ \A i \in 1..4 : Append(reqs, d)[i] = IF i = 4 THEN d ELSE reqs[i]
  BY <1>2, <1>3, FourthFacts
<1>6. \A i \in 1..4 : Append(reqs, d)[i] # "MODE_MAX"
  BY <1>2, <1>3, <1>4, <1>5
<1> QED
  BY <1>1, <1>5, <1>6 DEF Listed

(* The requests a command about ltran stands for.  None can be asked of     *)
(* lstack.                                                                  *)
LEMMA LtranRequests ==
  ASSUME NEW cmd \in DOMAIN LtranCommand, NEW use \in BOOLEAN
  PROVE  Listed(Requests(cmd, use)) /\ ~Supported(Requests(cmd, FALSE))
<1> DEFINE reqs == LtranCommand[cmd]
<1>1. Requests(cmd, use) = reqs /\ Requests(cmd, FALSE) = reqs
  BY Commands DEF Requests, Command
<1>2. CASE cmd \in {"ltran_quit", "ltran_set_loglevel", "ltran_show", "ltran_instance",
                   "ltran_socktable", "ltran_conntable"}
  <2>1. reqs = <<reqs[1]>> /\ reqs[1] \in {"LTRAN_QUIT", "LTRAN_LOG_LEVEL_SET",
          "LTRAN_SHOW", "LTRAN_SHOW_INSTANCE", "LTRAN_SHOW_SOCKTABLE", "LTRAN_SHOW_CONNTABLE"}
    BY <1>2 DEF LtranCommand
  <2> HIDE DEF reqs
  <2>2. Listed(reqs)
    BY <2>1, Modes, ListedOne
  <2>3. ~Supported(reqs)
    BY <2>1 DEF Supported
  <2> QED
    BY <1>1, <2>2, <2>3
<1>3. CASE cmd \in {"ltran_rate", "ltran_burst"}
  <2>1. reqs = <<reqs[1], "MODE_MAX">> /\ reqs[1] \in {"LTRAN_SHOW_RATE", "LTRAN_SHOW_BURST"}
    BY <1>3 DEF LtranCommand
  <2> HIDE DEF reqs
  <2>2. Listed(reqs)
    BY <2>1, Modes, ListedTwo
  <2>3. ~Supported(reqs)
    BY <2>1 DEF Supported
  <2> QED
    BY <1>1, <2>2, <2>3
<1>4. CASE cmd = "ltran_latency"
  <2>1. reqs = <<"LTRAN_START_LATENCY", "LTRAN_STOP_LATENCY", "LTRAN_SHOW_LATENCY">>
    BY <1>4 DEF LtranCommand
  <2> HIDE DEF reqs
  <2>2. Listed(reqs)
    BY <2>1, Modes, ListedThree
  <2>3. reqs[1] = "LTRAN_START_LATENCY" /\ reqs[Len(reqs)] = "LTRAN_SHOW_LATENCY"
    BY <2>1
  <2>4. ~Supported(reqs)
    BY <2>3 DEF Supported
  <2> QED
    BY <1>1, <2>2, <2>4
<1> QED
  BY <1>2, <1>3, <1>4, Commands

(* The requests a command about lstack stands for.  Without ltran they are  *)
(* answered with structures of one size, or not at all.                     *)
LEMMA LstackRequests ==
  ASSUME NEW cmd \in DOMAIN LstackCommand, NEW use \in BOOLEAN
  PROVE  /\ Listed(Requests(cmd, use))
         /\ Supported(Requests(cmd, FALSE)) =>
              \A i \in DOMAIN Requests(cmd, FALSE) :
                FirstKind(Requests(cmd, FALSE)[i], FALSE) \in {"none", "dfx"}
<1> DEFINE reqs == LstackCommand[cmd]
<1>1. Command[cmd] = reqs
  BY Commands DEF Command
<1>2. \A m \in {"LTRAN_START_LATENCY", "LTRAN_STOP_LATENCY", "LSTACK_SHOW_LATENCY",
               "LSTACK_SHOW_AGGREGATE", "LSTACK_LOG_LEVEL_SET", "LSTACK_LOW_POWER_MDF",
               "LSTACK_SHOW", "LSTACK_SHOW_SNMP", "LSTACK_SHOW_CONN", "LSTACK_SHOW_XSTATS"} :
        FirstKind(m, FALSE) \in {"none", "dfx"}
  BY DEF FirstKind, RecvKind
<1>3. CASE cmd = "lstack_latency"
  <2>1. reqs = <<"LTRAN_START_LATENCY", "LTRAN_STOP_LATENCY", "LSTACK_SHOW_LATENCY">>
    BY <1>3 DEF LstackCommand
  <2> HIDE DEF reqs
  <2>2. /\ Requests(cmd, FALSE) = reqs
        /\ Requests(cmd, TRUE) = Append(reqs, "LTRAN_SHOW_LATENCY")
    BY <1>1, <1>3 DEF Requests
  <2>3. Listed(reqs) /\ Listed(Requests(cmd, TRUE))
    <3>1. Listed(reqs)
      BY <2>1, Modes, ListedThree
    <3>2. Listed(Append(reqs, "LTRAN_SHOW_LATENCY"))
      BY <2>1, <3>1, Modes, ListedFour
    <3> QED
      BY <2>2, <3>1, <3>2
  <2>4. \A i \in DOMAIN reqs : reqs[i] \in {"LTRAN_START_LATENCY", "LTRAN_STOP_LATENCY",
                                             "LSTACK_SHOW_LATENCY"}
    BY <2>1
  <2> QED
    BY <1>2, <2>2, <2>3, <2>4
<1>4. CASE cmd # "lstack_latency"
  <2>1. Requests(cmd, use) = reqs /\ Requests(cmd, FALSE) = reqs
    BY <1>1, <1>4 DEF Requests
  <2>2. CASE cmd = "lstack_aggregate"
    <3>1. reqs = <<"LTRAN_START_LATENCY", "LTRAN_STOP_LATENCY", "LSTACK_SHOW_AGGREGATE">>
      BY <2>2 DEF LstackCommand
    <3> HIDE DEF reqs
    <3>2. \A i \in DOMAIN reqs : reqs[i] \in {"LTRAN_START_LATENCY", "LTRAN_STOP_LATENCY",
                                               "LSTACK_SHOW_AGGREGATE"}
      BY <3>1
    <3>3. Listed(reqs)
      BY <3>1, Modes, ListedThree
    <3> QED
      BY <1>2, <2>1, <3>2, <3>3
  <2>3. CASE cmd = "lstack_rate"
    <3>1. reqs = <<"LSTACK_SHOW_RATE", "MODE_MAX">>
      BY <2>3 DEF LstackCommand
    <3> HIDE DEF reqs
    <3>2. ~Supported(reqs)
      BY <3>1 DEF Supported
    <3> QED
      BY <2>1, <3>1, <3>2, Modes, ListedTwo
  <2>4. CASE cmd \in {"lstack_set_loglevel", "lstack_lowpower", "lstack_show",
                     "lstack_snmp", "lstack_connect", "lstack_xstats"}
    <3>1. reqs = <<reqs[1]>> /\ reqs[1] \in {"LSTACK_LOG_LEVEL_SET", "LSTACK_LOW_POWER_MDF",
            "LSTACK_SHOW", "LSTACK_SHOW_SNMP", "LSTACK_SHOW_CONN", "LSTACK_SHOW_XSTATS"}
      BY <2>4 DEF LstackCommand
    <3> HIDE DEF reqs
    <3>2. \A i \in DOMAIN reqs : reqs[i] = reqs[1]
      BY <3>1
    <3> QED
      BY <1>2, <2>1, <3>1, <3>2, Modes, ListedOne
  <2> QED
    BY <1>4, <2>2, <2>3, <2>4, Commands
<1> QED
  BY <1>3, <1>4

(* The same for every command. *)
LEMMA RequestFacts ==
  ASSUME NEW cmd \in DOMAIN Command, NEW use \in BOOLEAN
  PROVE  /\ Listed(Requests(cmd, use))
         /\ Supported(Requests(cmd, FALSE)) =>
              \A i \in DOMAIN Requests(cmd, FALSE) :
                FirstKind(Requests(cmd, FALSE)[i], FALSE) \in {"none", "dfx"}
<1>1. CASE cmd \in DOMAIN LtranCommand
  BY <1>1, LtranRequests
<1>2. CASE cmd \in DOMAIN LstackCommand
  BY <1>2, LstackRequests
<1> QED
  BY <1>1, <1>2 DEF Command

-----------------------------------------------------------------------------
(* Values and their types *)

(* None is none of the values it stands in for. *)
LEMMA NoneApart ==
  /\ None \notin Kind /\ None \notin DOMAIN RecvKind /\ None \notin DOMAIN Command
  /\ None # "dfx" /\ None # "reg"
  BY NoneAssumption

LEMMA MessageFacts ==
  /\ \A k \in Kind, h \in Conn \cup {None}, last \in BOOLEAN :
       /\ Frame(k, h, last) \in Message
       /\ Frame(k, h, last).kind = k /\ Frame(k, h, last).id = h
       /\ Frame(k, h, last).eof = last
  /\ \A k \in Kind :
       Msg(k) \in Message /\ Msg(k).kind = k /\ Msg(k).id = None /\ Msg(k).eof = FALSE
  /\ \A h \in Conn, m \in DOMAIN RecvKind :
       /\ Req(h, m) \in Message /\ Req(h, m).kind = "req" /\ Req(h, m).id = h
       /\ Req(h, m).mode = m
<1> USE DEF Message, Frame, Msg, Req
<1>1. "req" \in Kind
  BY DEF Kind
<1> QED
  BY <1>1

LEMMA Blank ==
  /\ NoChan \in ChanRec /\ NoChan.srv = "none" /\ ~NoChan.cli /\ NoChan.out = <<>>
  /\ NoChan.path = None /\ NoChan.mode = None
  /\ NoLink \in LinkRec /\ NoLink.up = <<>> /\ NoLink.dn = <<>>
  /\ NoLink.l = FALSE /\ NoLink.t = FALSE /\ NoLink.late = FALSE
  /\ \A p \in {"down", "loop", "xfer", "late", "stray"} :
       LtAt(p) \in LtRec /\ LtAt(p).pc = p
  /\ \A p \in {"boot", "connect", "mem", "att", "init", "thr", "ready", "answer", "down"},
        b \in BOOLEAN :
       LsAt(p, b) \in LsRec /\ LsAt(p, b).pc = p /\ LsAt(p, b).first = b
  /\ \A p \in {"idle", "connect", "sleep", "read", "done"} :
       CtlAt(p) \in CtlRec /\ CtlAt(p).pc = p /\ CtlAt(p).n = 0 /\ CtlAt(p).i = 1
<1>1. <<>> \in Seq(Message)
  OBVIOUS
<1>2. 0 \in 0..MaxConn /\ 0 \in 0..StackNum
  BY DfxAssumption
<1> QED
  BY <1>1, <1>2 DEF NoChan, NoLink, LtAt, LsAt, CtlAt, ChanRec, LinkRec, LtRec, LsRec, CtlRec

(* The two ends of a gazellectl's connection are closed. *)
LEMMA ShutFacts ==
  ASSUME NEW r \in ChanRec
  PROVE  /\ ShutByServer(r) \in ChanRec
         /\ r.cli => /\ ShutByServer(r).cli /\ ShutByServer(r).srv = "shut"
                     /\ ShutByServer(r).path = r.path /\ ShutByServer(r).mode = r.mode
                     /\ ShutByServer(r).out = r.out
         /\ ~r.cli => ShutByServer(r) = NoChan
         /\ ShutByServer(r).srv \in {"none", "shut"}
         /\ ShutByCtl(r) \in ChanRec /\ ~ShutByCtl(r).cli /\ ShutByCtl(r).out = <<>>
         /\ r.srv = "shut" => ShutByCtl(r) = NoChan
         /\ r.srv # "shut" => /\ ShutByCtl(r).srv = r.srv /\ ShutByCtl(r).path = r.path
                              /\ ShutByCtl(r).mode = r.mode
<1>1. <<>> \in Seq(Message)
  OBVIOUS
<1>2. r.cli \in BOOLEAN
  BY DEF ChanRec
<1>3. /\ r.cli => ShutByServer(r) = [r EXCEPT !.srv = "shut"]
      /\ ~r.cli => ShutByServer(r) = NoChan
  BY DEF ShutByServer
<1>4. /\ [r EXCEPT !.srv = "shut"] \in ChanRec
      /\ LET q == [r EXCEPT !.srv = "shut"]
         IN q.srv = "shut" /\ q.cli = r.cli /\ q.path = r.path /\ q.mode = r.mode
                           /\ q.out = r.out
  BY DEF ChanRec
<1>5. /\ [r EXCEPT !.cli = FALSE, !.out = <<>>] \in ChanRec
      /\ LET q == [r EXCEPT !.cli = FALSE, !.out = <<>>]
         IN ~q.cli /\ q.out = <<>> /\ q.srv = r.srv /\ q.path = r.path /\ q.mode = r.mode
  BY <1>1 DEF ChanRec
<1>6. /\ ShutByServer(r) \in ChanRec
      /\ r.cli => /\ ShutByServer(r).cli /\ ShutByServer(r).srv = "shut"
                  /\ ShutByServer(r).path = r.path /\ ShutByServer(r).mode = r.mode
                  /\ ShutByServer(r).out = r.out
      /\ ShutByServer(r).srv \in {"none", "shut"}
  BY <1>2, <1>3, <1>4, Blank
<1>7. ShutByCtl(r) = IF r.srv = "shut" THEN NoChan ELSE [r EXCEPT !.cli = FALSE, !.out = <<>>]
  BY DEF ShutByCtl
<1> QED
  BY <1>3, <1>5, <1>6, <1>7, Blank

(* The two ends of the long connection are closed. *)
LEMMA ShutLinkFacts ==
  ASSUME NEW r \in LinkRec
  PROVE  /\ ShutByLtran(r) \in LinkRec /\ ~ShutByLtran(r).t /\ ShutByLtran(r).up = <<>>
         /\ ShutByLtran(r).l = r.l
         /\ r.l => ShutByLtran(r).dn = r.dn /\ ShutByLtran(r).late = r.late
         /\ ~r.l => ShutByLtran(r).dn = <<>>
         /\ ShutByLstack(r) \in LinkRec /\ ~ShutByLstack(r).l /\ ShutByLstack(r).dn = <<>>
         /\ ShutByLstack(r).t = r.t
         /\ r.t => ShutByLstack(r).up = r.up /\ ShutByLstack(r).late = r.late
         /\ ~r.t => ShutByLstack(r) = NoLink
<1>1. <<>> \in Seq(Message)
  OBVIOUS
<1>2. r.l \in BOOLEAN /\ r.t \in BOOLEAN
  BY DEF LinkRec
<1>3. /\ [r EXCEPT !.t = FALSE, !.up = <<>>] \in LinkRec
      /\ LET q == [r EXCEPT !.t = FALSE, !.up = <<>>]
         IN ~q.t /\ q.up = <<>> /\ q.l = r.l /\ q.dn = r.dn /\ q.late = r.late
      /\ [r EXCEPT !.l = FALSE, !.dn = <<>>] \in LinkRec
      /\ LET q == [r EXCEPT !.l = FALSE, !.dn = <<>>]
         IN ~q.l /\ q.dn = <<>> /\ q.t = r.t /\ q.up = r.up /\ q.late = r.late
  BY <1>1 DEF LinkRec
<1>4. /\ ShutByLtran(r) = IF r.l THEN [r EXCEPT !.t = FALSE, !.up = <<>>] ELSE NoLink
      /\ ShutByLstack(r) = IF r.t THEN [r EXCEPT !.l = FALSE, !.dn = <<>>] ELSE NoLink
  BY DEF ShutByLtran, ShutByLstack
<1>5. CASE r.l /\ r.t
  BY <1>3, <1>4, <1>5
<1>6. CASE r.l /\ r.t = FALSE
  BY <1>3, <1>4, <1>6, Blank
<1>7. CASE r.l = FALSE /\ r.t
  BY <1>3, <1>4, <1>7, Blank
<1>8. CASE r.l = FALSE /\ r.t = FALSE
  BY <1>3, <1>4, <1>8, Blank
<1> QED
  BY <1>2, <1>5, <1>6, <1>7, <1>8

(* What is written arrives unless the other end is gone. *)
LEMMA WriteFacts ==
  ASSUME NEW r \in ChanRec, NEW frames \in Seq(Message)
  PROVE  /\ Write(r, frames) \in ChanRec
         /\ Write(r, frames).srv = r.srv /\ Write(r, frames).cli = r.cli
         /\ Write(r, frames).path = r.path /\ Write(r, frames).mode = r.mode
         /\ Write(r, frames).out = IF r.cli THEN r.out \o frames ELSE r.out
<1>1. r.out \in Seq(Message) /\ r.out \o frames \in Seq(Message)
  BY DEF ChanRec
<1> QED
  BY <1>1 DEF Write, ChanRec

-----------------------------------------------------------------------------
(* What a step leaves alone *)

(* The long connection and whom it concerns are left alone. *)
LEMMA LinkSame ==
  ASSUME LinkInv, UNCHANGED <<use_ltran, lt, inst, link, ls>>
  PROVE  LinkInv'
  BY DEF LinkInv, LinkShape, DnShape, Dialogue, Quiet, Asked, Answering, AllOf

(* ltran's control thread does something else than waiting for lstack. *)
LEMMA LinkIdle ==
  ASSUME LinkInv, UNCHANGED <<use_ltran, inst, link, ls>>,
         lt.pc \in {"loop", "late", "stray"}, lt'.pc \in {"loop", "late", "stray"}
  PROVE  LinkInv'
<1>1. LinkShape'
  BY DEF LinkInv, LinkShape, AllOf
<1>2. DnShape'
  BY DEF LinkInv, DnShape, AllOf
<1>3. Dialogue'
  BY DEF LinkInv, Dialogue, Quiet, Asked, Answering
<1> QED
  BY <1>1, <1>2, <1>3 DEF LinkInv

(* Connections and their users are left alone, and ltran's control thread   *)
(* serves the same one or none.                                             *)
LEMMA ChanSame ==
  ASSUME ChanInv, UNCHANGED <<use_ltran, ctl, chan>>,
         \/ UNCHANGED lt
         \/ lt.pc \in {"loop", "late", "down"} /\ lt'.pc \in {"loop", "late", "down"}
  PROVE  ChanInv'
<1>1. LtShape'
  BY DEF ChanInv, LtShape
<1>2. \A h : (Serving(h)' <=> Serving(h)) /\ (Unasked(h)' <=> Unasked(h))
  BY DEF Serving, Unasked
<1>3. \A h : (TotalsLeft(h)' <=> TotalsLeft(h)) /\ (DfxLeft(h)' <=> DfxLeft(h))
  BY <1>2 DEF TotalsLeft, DfxLeft, TotalsFirst, AllOf
<1>4. \A c \in Ctl : CtlShape(c)'
  BY DEF ChanInv, CtlShape, Stage
<1>5. \A c \in Ctl : ReadShape(c)'
  BY <1>3 DEF ChanInv, ReadShape, ReadAt, Mine, Mode
<1>6. \A h \in Conn : ChanShape(h)'
  BY <1>2 DEF ChanInv, ChanShape, AllOf
<1> QED
  BY <1>1, <1>4, <1>5, <1>6 DEF ChanInv

(* What a server may do to a connection: nothing to one that is not in use, *)
(* and what gazellectl relies on stays.                                     *)
Kept(h) ==
  LET r == chan[h]
      q == chan'[h]
  IN /\ r = NoChan => q = NoChan
     /\ r.cli => /\ q.cli /\ q.path = r.path /\ (r.srv # "none" => q.srv # "none")
                 /\ q.mode # r.mode => r.path # "dfx" /\ q.mode = None
     /\ r.cli /\ r.path = "dfx" /\ r.mode = "LSTACK_SHOW" =>
          (TotalsLeft(h) => TotalsLeft(h)') /\ (DfxLeft(h) => DfxLeft(h)')

(* The connection a gazellectl reads from, by its name. *)
LEMMA ReadByName ==
  ASSUME NEW c, NEW h
  PROVE  /\ h = Mine(c) => (ReadShape(c) <=> ReadAt(c, h))
         /\ h = Mine(c)' => (ReadShape(c)' <=> ReadAt(c, h)')
  BY DEF ReadShape, ReadAt, TotalsLeft, DfxLeft, TotalsFirst, AllOf, Unasked, Serving

LEMMA ServerStep ==
  ASSUME Types, ChanInv, UNCHANGED <<use_ltran, ctl>>, LtShape',
         \A h \in Conn : Kept(h) /\ ChanShape(h)'
  PROVE  ChanInv'
<1>1. ASSUME NEW c \in Ctl PROVE CtlShape(c)' /\ ReadShape(c)'
  <2>1. CtlShape(c) /\ ReadShape(c) /\ ctl[c] \in CtlRec /\ c \in Ctl
    BY DEF ChanInv, Types
  <2>2. 0 \in 0..MaxConn /\ \A m \in (ctl[c].n + 1)..MaxConn : m \in 0..MaxConn
    BY <2>1, DfxAssumption DEF CtlRec
  <2>3. \A m \in 0..MaxConn : Kept(<<c, m>>)
    BY <2>1 DEF Conn
  <2>4. CtlShape(c)'
    BY <2>1, <2>2, <2>3 DEF CtlShape, Stage, Kept
  <2>5. PICK h \in Conn : h = Mine(c) /\ h = Mine(c)'
    BY <2>1 DEF Mine, Conn, CtlRec
  <2>6. Kept(h) /\ ReadAt(c, h)
    BY <2>1, <2>5, ReadByName
  <2>7. Mode(c)' = Mode(c)
    BY DEF Mode
  <2>8. ReadAt(c, h)'
    BY <2>6, <2>7 DEF ReadAt, Kept
  <2>9. ReadShape(c)'
    BY <2>5, <2>8, ReadByName
  <2> QED
    BY <2>4, <2>9
<1> QED
  BY <1>1 DEF ChanInv

(* A connection left alone, or one the server closes, is kept. *)
LEMMA SameKept ==
  ASSUME NEW h, UNCHANGED <<use_ltran, chan[h]>>, Serving(h)' <=> Serving(h)
  PROVE  /\ Kept(h)
         /\ ChanShape(h) => ChanShape(h)'
<1>1. Unasked(h)' <=> Unasked(h)
  BY DEF Unasked
<1>2. (TotalsLeft(h) => TotalsLeft(h)') /\ (DfxLeft(h) => DfxLeft(h)')
  BY <1>1 DEF TotalsLeft, DfxLeft, TotalsFirst, AllOf
<1>3. Kept(h)
  BY <1>2 DEF Kept
<1>4. ChanShape(h) => ChanShape(h)'
  BY <1>1 DEF ChanShape, AllOf
<1> QED
  BY <1>3, <1>4

(* The server closes a connection, after it may have written to it. *)
Written(h, r) ==
  /\ r \in ChanRec /\ r.srv = chan[h].srv /\ r.cli = chan[h].cli
  /\ r.path = chan[h].path /\ r.mode = chan[h].mode
  /\ r.path = "reg" => AllOf(r.out, "dfx")
  /\ r.path = "dfx" /\ r.mode \notin {None, "LSTACK_SHOW"} =>
       AllOf(r.out, RecvKind[r.mode])
  /\ r.path = "dfx" /\ r.mode = "LSTACK_SHOW" =>
       /\ TotalsLeft(h) => r.out = <<>> \/ TotalsFirst(r.out)
       /\ DfxLeft(h) => AllOf(r.out, "dfx")

LEMMA ShutKept ==
  ASSUME Types, NEW h \in Conn, NEW r, Written(h, r), ChanShape(h), UNCHANGED use_ltran,
         chan[h].srv \in {"backlog", "open"}, chan'[h] = ShutByServer(r), ~Serving(h)'
  PROVE  Kept(h) /\ ChanShape(h)'
<1>1. /\ r \in ChanRec /\ r.cli = chan[h].cli /\ r.path = chan[h].path
      /\ r.mode = chan[h].mode /\ r.srv = chan[h].srv
  BY DEF Written
<1>2. chan[h] # NoChan
  BY Blank
<1>3. CASE r.cli
  <2>1. /\ chan'[h].cli /\ chan'[h].srv = "shut" /\ chan'[h].path = r.path
        /\ chan'[h].mode = r.mode /\ chan'[h].out = r.out
    BY <1>1, <1>3, ShutFacts
  <2>2. ~Unasked(h)'
    BY <2>1 DEF Unasked
  <2>3. r.path = "dfx" /\ r.mode = "LSTACK_SHOW" /\ TotalsLeft(h) => TotalsLeft(h)'
    <3>1. r.path = "dfx" /\ r.mode = "LSTACK_SHOW" /\ TotalsLeft(h) => r.out = <<>> \/ TotalsFirst(r.out)
      BY DEF Written
    <3>2. TotalsLeft(h)' <=> r.out = <<>> \/ TotalsFirst(r.out)
      BY <2>1 DEF TotalsLeft, TotalsFirst
    <3> QED
      BY <3>1, <3>2
  <2>4. r.path = "dfx" /\ r.mode = "LSTACK_SHOW" /\ DfxLeft(h) => DfxLeft(h)'
    <3>1. r.path = "dfx" /\ r.mode = "LSTACK_SHOW" /\ DfxLeft(h) => AllOf(r.out, "dfx")
      BY DEF Written
    <3>2. DfxLeft(h)' <=> AllOf(r.out, "dfx")
      BY <2>1, <2>2 DEF DfxLeft, AllOf
    <3> QED
      BY <3>1, <3>2
  <2>5. Kept(h)
    BY <1>1, <1>2, <2>1, <2>3, <2>4 DEF Kept
  <2>6. ChanShape(h)'
    BY <1>1, <2>1, <2>2 DEF ChanShape, Written, AllOf
  <2> QED
    BY <2>5, <2>6
<1>4. CASE ~r.cli
  <2>1. chan'[h] = NoChan
    BY <1>1, <1>4, ShutFacts
  <2>2. Kept(h)
    BY <1>1, <1>2, <1>4 DEF Kept
  <2>3. ChanShape(h)'
    BY <2>1, Blank, NoneApart DEF ChanShape
  <2> QED
    BY <2>2, <2>3
<1> QED
  BY <1>3, <1>4

(* The counter follows the connections. *)
LEMMA CountSame ==
  ASSUME Counted, UNCHANGED g_dfx_fd_cnt, Opened' = Opened
  PROVE  Counted'
  BY DEF Counted

LEMMA CountLess ==
  ASSUME Types, Counted, NEW h \in Opened, g_dfx_fd_cnt' = g_dfx_fd_cnt - 1,
         chan' = [chan EXCEPT ![h] = chan'[h]], chan'[h].srv # "open"
  PROVE  Counted'
<1>1. Opened' = Opened \ {h}
  BY DEF Opened, Types
<1>2. /\ IsFiniteSet(Opened \ {h})
      /\ Cardinality(Opened \ {h}) = Cardinality(Opened) - 1
  BY FS_RemoveElement DEF Counted
<1>3. Cardinality(Opened) \in Nat
  BY FS_CardinalityType DEF Counted
<1> QED
  BY <1>1, <1>2, <1>3, DfxAssumption DEF Counted

LEMMA CountMore ==
  ASSUME Types, Counted, NEW h \in Conn, h \notin Opened, g_dfx_fd_cnt <= MaxDfx,
         g_dfx_fd_cnt' = g_dfx_fd_cnt + 1,
         chan' = [chan EXCEPT ![h] = chan'[h]], chan'[h].path = "dfx", chan'[h].srv = "open"
  PROVE  Counted'
<1>1. Opened' = Opened \cup {h}
  BY DEF Opened, Types
<1>2. /\ IsFiniteSet(Opened \cup {h})
      /\ Cardinality(Opened \cup {h}) = Cardinality(Opened) + 1
  BY FS_AddElement DEF Counted
<1>3. Cardinality(Opened) \in Nat
  BY FS_CardinalityType DEF Counted
<1> QED
  BY <1>1, <1>2, <1>3, DfxAssumption DEF Counted

(* ltran is done with a request: whichever way it came to an end. *)
LEMMA EndKeeps ==
  ASSUME Types, ChanInv, Counted, NEW h \in Conn, NEW r, Written(h, r), EndRequest(r, h),
         UNCHANGED <<use_ltran, ctl>>, h \in Opened, lt.pc = "loop" \/ Serving(h)
  PROVE  /\ ChanInv' /\ Counted'
         /\ chan' \in [Conn -> ChanRec] /\ lt' \in LtRec /\ lt'.pc = "loop"
<1>1. /\ chan[h].path = "dfx" /\ chan[h].srv = "open" /\ chan \in [Conn -> ChanRec]
      /\ r \in ChanRec
  BY DEF Opened, Types, Written
<1>2. /\ g_dfx_fd_cnt' = g_dfx_fd_cnt - 1 /\ lt' = LtAt("loop")
      /\ chan' = [chan EXCEPT ![h] = ShutByServer(r)]
  BY DEF EndRequest
<1>3. ShutByServer(r) \in ChanRec /\ ShutByServer(r).srv # "open"
  BY <1>1, ShutFacts
<1>4. chan' \in [Conn -> ChanRec] /\ lt' \in LtRec /\ lt'.pc = "loop"
  BY <1>1, <1>2, <1>3, Blank
<1>5. Counted'
  BY <1>1, <1>2, <1>3, CountLess
<1>6. LtShape'
  BY <1>4 DEF LtShape
<1>7. \A g : ~Serving(g)'
  BY <1>4 DEF Serving
<1>8. ASSUME NEW g \in Conn PROVE Kept(g) /\ ChanShape(g)'
  <2>1. ChanShape(g)
    BY DEF ChanInv
  <2>2. CASE g = h
    BY <1>1, <1>2, <1>7, <2>1, <2>2, ShutKept
  <2>3. CASE g # h
    <3>1. chan'[g] = chan[g] /\ ~Serving(g)
      BY <1>1, <1>2, <2>3 DEF Serving
    <3> QED
      BY <1>7, <2>1, <3>1, SameKept
  <2> QED
    BY <2>2, <2>3
<1> QED
  BY <1>4, <1>5, <1>6, <1>8, ServerStep

-----------------------------------------------------------------------------
(* gazellectl *)

(* What a gazellectl may do: to its own connections, and not to what a      *)
(* server goes by.                                                          *)
LEMMA CtlKeeps ==
  ASSUME Types, ChanInv, NEW c \in Ctl, UNCHANGED <<use_ltran, lt>>,
         \A d \in Ctl \ {c} : ctl'[d] = ctl[d],
         \A h \in Conn : h[1] # c => chan'[h] = chan[h],
         \A h \in Conn : h[1] = c => ChanShape(h)',
         \A h \in Conn : chan[h].srv = "open" =>
           chan'[h].srv = "open" /\ chan'[h].path = chan[h].path /\ chan'[h].mode = chan[h].mode,
         CtlShape(c)', ReadShape(c)'
  PROVE  ChanInv'
<1>1. LtShape'
  BY DEF ChanInv, LtShape
<1>2. ASSUME NEW d \in Ctl PROVE CtlShape(d)' /\ ReadShape(d)'
  <2>1. CASE d # c
    <3>1. CtlShape(d) /\ ReadShape(d) /\ ctl[d] \in CtlRec /\ ctl'[d] = ctl[d]
      BY <2>1 DEF ChanInv, Types
    <3>2. \A m \in 0..MaxConn : <<d, m>> \in Conn /\ chan'[<<d, m>>] = chan[<<d, m>>]
      BY <2>1 DEF Conn
    <3>3. 0 \in 0..MaxConn /\ \A m \in (ctl[d].n + 1)..MaxConn : m \in 0..MaxConn
      BY <3>1, DfxAssumption DEF CtlRec
    <3>4. CtlShape(d)'
      BY <3>1, <3>2, <3>3 DEF CtlShape, Stage
    <3>5. PICK h \in Conn : h = Mine(d) /\ h = Mine(d)' /\ chan'[h] = chan[h]
      BY <3>1, <3>2 DEF Mine, CtlRec
    <3>6. (TotalsLeft(h)' <=> TotalsLeft(h)) /\ (DfxLeft(h)' <=> DfxLeft(h))
      BY <3>5 DEF TotalsLeft, DfxLeft, TotalsFirst, AllOf, Serving, Unasked
    <3>7. Mode(d)' = Mode(d)
      BY <3>1 DEF Mode
    <3>8. ReadAt(d, h)
      BY <3>1, <3>5, ReadByName
    <3>9. ReadAt(d, h)'
      BY <3>1, <3>5, <3>6, <3>7, <3>8 DEF ReadAt
    <3>10. ReadShape(d)'
      BY <3>5, <3>9, ReadByName
    <3> QED
      BY <3>4, <3>10
  <2> QED
    BY <2>1
<1>3. ASSUME NEW h \in Conn PROVE ChanShape(h)'
  <2>1. CASE h[1] # c
    <3>1. chan'[h] = chan[h] /\ ChanShape(h) /\ (Serving(h)' <=> Serving(h))
      BY <2>1 DEF ChanInv, Serving
    <3> QED
      BY <3>1, SameKept
  <2> QED
    BY <2>1
<1> QED
  BY <1>1, <1>2, <1>3 DEF ChanInv

(* gazellectl closes its connection, and ends or goes on with a request. *)
LEMMA CloseKeeps ==
  ASSUME Types, ChanInv, Counted, NEW c \in Ctl, NEW x \in CtlRec,
         ctl[c].pc \in {"read", "sleep"}, ctl' = [ctl EXCEPT ![c] = x],
         chan' = [chan EXCEPT ![Mine(c)] = ShutByCtl(@)],
         \/ x.pc = "done"
         \/ x.pc = "connect" /\ x.n = ctl[c].n /\ Stage(x),
         UNCHANGED <<use_ltran, lt, g_dfx_fd_cnt>>
  PROVE  /\ ChanInv' /\ Counted'
         /\ chan' \in [Conn -> ChanRec] /\ ctl' \in [Ctl -> CtlRec]
<1>1. /\ chan \in [Conn -> ChanRec] /\ ctl \in [Ctl -> CtlRec] /\ ctl[c] \in CtlRec
      /\ CtlShape(c)
  BY DEF Types, ChanInv
<1>2. PICK h \in Conn : h = Mine(c) /\ h[1] = c /\ h = <<c, ctl[c].n>>
  BY <1>1 DEF Mine, CtlRec, Conn
<1>3. /\ chan[h] \in ChanRec /\ chan' = [chan EXCEPT ![h] = ShutByCtl(chan[h])]
      /\ ChanShape(h)
  BY <1>1, <1>2 DEF ChanInv
<1>4. /\ ShutByCtl(chan[h]) \in ChanRec /\ ~ShutByCtl(chan[h]).cli
      /\ ShutByCtl(chan[h]).out = <<>>
      /\ chan[h].srv = "shut" => ShutByCtl(chan[h]) = NoChan
      /\ chan[h].srv # "shut" =>
           /\ ShutByCtl(chan[h]).srv = chan[h].srv /\ ShutByCtl(chan[h]).path = chan[h].path
           /\ ShutByCtl(chan[h]).mode = chan[h].mode
  BY <1>3, ShutFacts
<1>5. chan' \in [Conn -> ChanRec] /\ ctl' \in [Ctl -> CtlRec] /\ ctl'[c] = x
  BY <1>1, <1>3, <1>4
<1>6. \A g \in Conn : g # h => chan'[g] = chan[g]
  BY <1>1, <1>3
<1>7. chan'[h] = ShutByCtl(chan[h])
  BY <1>1, <1>3
<1>8. \A g \in Conn : chan[g].srv = "open" =>
        chan'[g].srv = "open" /\ chan'[g].path = chan[g].path /\ chan'[g].mode = chan[g].mode
  BY <1>4, <1>6, <1>7
<1>9. Opened' = Opened
  <2>1. chan[h].srv # "open" => chan'[h].srv # "open"
    BY <1>3, <1>4, <1>7, Blank DEF ChanRec
  <2> QED
    BY <1>6, <1>8, <2>1 DEF Opened
<1>10. ChanShape(h)'
  <2>1. CASE chan[h].srv = "shut"
    <3>1. chan'[h] = NoChan
      BY <1>4, <1>7, <2>1
    <3> QED
      BY <3>1, Blank, NoneApart DEF ChanShape
  <2>2. CASE chan[h].srv # "shut"
    <3>1. ~chan'[h].cli /\ chan'[h].out = <<>> /\ chan'[h].path = chan[h].path
      BY <1>4, <1>7, <2>2
    <3>2. \A k : AllOf(<<>>, k)
      BY AllOfFew
    <3>3. \A k : AllOf(chan[h].out, k)' <=> AllOf(<<>>, k)
      BY <3>1 DEF AllOf
    <3> QED
      BY <1>3, <3>1, <3>2, <3>3 DEF ChanShape
  <2> QED
    BY <2>1, <2>2
<1>11. \A g \in Conn : g[1] = c => ChanShape(g)'
  <2>1. ASSUME NEW g \in Conn, g # h PROVE ChanShape(g)'
    <3>1. chan'[g] = chan[g] /\ ChanShape(g) /\ (Serving(g)' <=> Serving(g))
      BY <1>6, <2>1 DEF ChanInv, Serving
    <3> QED
      BY <3>1, SameKept
  <2> QED
    BY <1>10, <2>1
<1>12. CtlShape(c)'
  <2>1. CASE x.pc = "done"
    BY <1>5, <2>1 DEF CtlShape, Stage
  <2>2. CASE x.pc = "connect" /\ x.n = ctl[c].n /\ Stage(x)
    <3>1. \A m \in (ctl[c].n + 1)..MaxConn :
            /\ <<c, m>> \in Conn /\ <<c, m>> # h /\ chan[<<c, m>>] = NoChan
      BY <1>1, <1>2 DEF CtlShape, Conn, CtlRec
    <3>2. Stage(x)'
      BY <2>2 DEF Stage
    <3>3. Stage(ctl[c])' <=> Stage(x)'
      BY <1>5 DEF Stage
    <3> QED
      BY <1>5, <1>6, <2>2, <3>1, <3>2, <3>3 DEF CtlShape
  <2> QED
    BY <2>1, <2>2
<1>13. ReadShape(c)'
  BY <1>5 DEF ReadShape, ReadAt
<1>14. \A d \in Ctl \ {c} : ctl'[d] = ctl[d]
  BY <1>1
<1>15. \A g \in Conn : g[1] # c => chan'[g] = chan[g]
  BY <1>2, <1>6
<1>16. ChanInv'
  BY <1>8, <1>11, <1>12, <1>13, <1>14, <1>15, CtlKeeps
<1>17. Counted'
  BY <1>9, CountSame
<1> QED
  BY <1>5, <1>16, <1>17

(* Nothing but gazellectl and its connections changes. *)
LEMMA CtlOnly ==
  ASSUME IInv, ChanInv', Counted',
         chan' \in [Conn -> ChanRec], ctl' \in [Ctl -> CtlRec],
         UNCHANGED <<use_ltran, lt, starts, instVars, latency, link, ring, ls>>
  PROVE  IInv'
<1>1. LinkInv'
  BY LinkSame DEF IInv, instVars
<1>2. Types'
  BY DEF IInv, Types, instVars
<1> QED
  BY <1>1, <1>2 DEF IInv

(* The command ends. *)
LEMMA StopKeeps ==
  ASSUME IInv, NEW c \in Ctl, ctl[c].pc \in {"read", "sleep"},
         ctl' = [ctl EXCEPT ![c] = CtlAt("done")],
         chan' = [chan EXCEPT ![Mine(c)] = ShutByCtl(@)],
         UNCHANGED <<use_ltran, lt, starts, g_dfx_fd_cnt, instVars, latency, link, ring, ls>>
  PROVE  IInv'
<1>1. Types /\ ChanInv /\ Counted
  BY DEF IInv
<1>2. CtlAt("done") \in CtlRec /\ CtlAt("done").pc = "done"
  BY Blank
<1>3. /\ ChanInv' /\ Counted'
      /\ chan' \in [Conn -> ChanRec] /\ ctl' \in [Ctl -> CtlRec]
  BY <1>1, <1>2, CloseKeeps
<1> QED
  BY <1>3, CtlOnly

(* A command has at most four requests, so there are connections enough. *)
LEMMA AdvanceKeeps ==
  ASSUME IInv, NEW c \in Ctl, ctl[c].pc \in {"read", "sleep"}, Advance(c),
         UNCHANGED <<use_ltran, lt, starts, g_dfx_fd_cnt, instVars, latency, link, ring, ls>>
  PROVE  IInv'
<1> DEFINE reqs == Requests(ctl[c].cmd, ctl[c].use)
           i == ctl[c].i + 1
           rep == i <= Len(reqs) /\ reqs[i] = "MODE_MAX"
           x == [ctl[c] EXCEPT !.pc = "connect", !.want = None, !.begun = FALSE,
                   !.i = IF rep THEN ctl[c].i ELSE i]
<1>1. /\ Types /\ ChanInv /\ Counted /\ ctl \in [Ctl -> CtlRec] /\ ctl[c] \in CtlRec
      /\ CtlShape(c)
  BY DEF IInv, Types, ChanInv
<1>2. /\ chan' = [chan EXCEPT ![Mine(c)] = ShutByCtl(@)]
      /\ ctl' = [ctl EXCEPT ![c] = IF i > Len(reqs) \/ (rep /\ ctl[c].n = MaxConn)
                                   THEN CtlAt("done") ELSE x]
  <2>1. chan' = [chan EXCEPT ![Mine(c)] = ShutByCtl(@)]
    BY DEF Advance
  <2>2. ctl' = [ctl EXCEPT ![c] = IF i > Len(reqs) \/ (rep /\ ctl[c].n = MaxConn)
                                  THEN CtlAt("done") ELSE x]
    BY DEF Advance
  <2> QED
    BY <2>1, <2>2
<1>3. CASE i > Len(reqs) \/ (rep /\ ctl[c].n = MaxConn)
  BY <1>2, <1>3, StopKeeps
<1>4. CASE ~(i > Len(reqs) \/ (rep /\ ctl[c].n = MaxConn))
  <2>1. /\ ctl[c].cmd # None /\ ctl[c].cmd \in DOMAIN Command /\ ctl[c].use \in BOOLEAN
        /\ ctl[c].i \in Nat /\ ctl[c].n \in 0..MaxConn
    BY <1>1 DEF CtlShape, Stage, CtlRec
  <2>2. Listed(reqs)
    BY <2>1, RequestFacts
  <2>3. Stage(ctl[c]) /\ ctl[c].pc # "connect"
    BY <1>1 DEF CtlShape
  <2>4. /\ (ctl[c].use => use_ltran) /\ (~ctl[c].use => Supported(reqs))
        /\ ctl[c].i \in DOMAIN reqs /\ reqs[ctl[c].i] # "MODE_MAX"
        /\ IF Repeats(reqs) THEN ctl[c].i = 1 ELSE ctl[c].n = ctl[c].i
        /\ ctl[c].n \in 1..MaxConn
    BY <2>3 DEF Stage
  <2>5. x \in CtlRec /\ x.pc = "connect" /\ x.n = ctl[c].n /\ x.cmd = ctl[c].cmd
        /\ x.use = ctl[c].use /\ x.i = IF rep THEN ctl[c].i ELSE i
    <3>1. i \in Nat
      BY <2>1
    <3> HIDE DEF rep, reqs, i
    <3> QED
      BY <1>1, <2>1, <3>1 DEF CtlRec
  <2>6. Len(reqs) \in 1..4 /\ DOMAIN reqs = 1..Len(reqs)
    BY <2>2 DEF Listed
  <2>7. Stage(x)
    <3> HIDE DEF x, reqs
    <3>1. CASE rep
      <4>1. Repeats(reqs)
        <5>1. i \in DOMAIN reqs /\ reqs[i] = "MODE_MAX"
          BY <2>4, <2>6, <3>1
        <5> HIDE DEF i
        <5> QED
          BY <2>2, <5>1 DEF Listed, Repeats
      <4>2. x.i = 1 /\ x.n \in 0..(MaxConn - 1)
        BY <1>4, <2>4, <2>5, <3>1, <4>1, DfxAssumption
      <4> QED
        BY <2>1, <2>4, <2>5, <3>1, <4>1, <4>2 DEF Stage, reqs
    <3>2. CASE ~rep
      <4>1. i \in DOMAIN reqs /\ reqs[i] # "MODE_MAX"
        BY <1>4, <2>1, <2>6, <3>2
      <4>2. ~Repeats(reqs)
        BY <2>4, <2>6, <3>2, <4>1 DEF Repeats
      <4>3. x.i = i /\ x.n = i - 1 /\ x.n \in 0..(MaxConn - 1)
        <5>1. ctl[c].n = ctl[c].i /\ i <= Len(reqs) /\ Len(reqs) <= 4 /\ i = ctl[c].i + 1
          BY <2>4, <2>6, <4>1, <4>2
        <5>2. ctl[c].n + 1 <= 4 /\ 4 <= MaxConn /\ MaxConn \in Nat
          BY <2>1, <2>6, <5>1, DfxAssumption
        <5>3. ctl[c].n \in 0..(MaxConn - 1)
          BY <2>1, <5>2
        <5> QED
          BY <2>1, <2>5, <3>2, <5>1, <5>3
      <4> QED
        BY <2>1, <2>4, <2>5, <4>1, <4>2, <4>3 DEF Stage, reqs
    <3> QED
      BY <3>1, <3>2
  <2>8. ctl' = [ctl EXCEPT ![c] = x]
    BY <1>2, <1>4
  <2> HIDE DEF x, reqs, i, rep
  <2>9. /\ ChanInv' /\ Counted'
        /\ chan' \in [Conn -> ChanRec] /\ ctl' \in [Ctl -> CtlRec]
    BY <1>1, <1>2, <2>5, <2>7, <2>8, CloseKeeps
  <2> QED
    BY <2>9, CtlOnly
<1> QED
  BY <1>3, <1>4

LEMMA WakeStep ==
  ASSUME IInv, NEW c \in Ctl, Wake(c)
  PROVE  IInv'
  BY AdvanceKeeps DEF Wake

LEMMA InterruptStep ==
  ASSUME IInv, NEW c \in Ctl, Interrupt(c)
  PROVE  IInv'
  BY StopKeeps DEF Interrupt

LEMMA ReadFailsStep ==
  ASSUME IInv, NEW c \in Ctl, ReadFails(c)
  PROVE  IInv'
<1>1. CASE ctl[c].begun
  BY <1>1, AdvanceKeeps DEF ReadFails
<1>2. CASE ~ctl[c].begun
  BY <1>2, StopKeeps DEF ReadFails
<1> QED
  BY <1>1, <1>2

(* What is read is a structure that is written, or none. *)
LEMMA RecvKinds ==
  \A m \in DOMAIN RecvKind :
    RecvKind[m] \in Kind \cup {"none"} /\ \A use : FirstKind(m, use) \in Kind \cup {"none"}
<1>1. \A m \in DOMAIN RecvKind :
        RecvKind[m] \in {"ltotal", "client", "lat", "none", "table", "total", "dfx"}
  BY Modes DEF RecvKind
<1> QED
  BY <1>1 DEF Kind, FirstKind

(* The first of the requests, and the one that is due. *)
LEMMA DueFacts ==
  ASSUME NEW cmd \in DOMAIN Command, NEW use \in BOOLEAN
  PROVE  /\ 1 \in DOMAIN Requests(cmd, use) /\ Requests(cmd, use)[1] # "MODE_MAX"
         /\ \A i \in DOMAIN Requests(cmd, use) :
              Requests(cmd, use)[i] # "MODE_MAX" =>
                Requests(cmd, use)[i] \in DOMAIN RecvKind
<1>1. PICK reqs : reqs = Requests(cmd, use)
  OBVIOUS
<1>2. Listed(reqs)
  BY <1>1, RequestFacts
<1>3. \A i \in DOMAIN reqs : reqs[i] \in DOMAIN RecvKind \cup {"MODE_MAX"}
  BY <1>2 DEF Listed
<1>4. 1 \in DOMAIN reqs /\ reqs[1] # "MODE_MAX"
  BY <1>2 DEF Listed
<1> QED
  BY <1>1, <1>3, <1>4

LEMMA StartStep ==
  ASSUME IInv, NEW c \in Ctl, Start(c)
  PROVE  IInv'
<1> DEFINE up == LtUp
           h == <<c, 0>>
<1>0. PICK x : x = [ctl[c] EXCEPT !.pc = "connect", !.use = up]
  OBVIOUS
<1>1. /\ Types /\ ChanInv /\ Counted /\ ctl \in [Ctl -> CtlRec] /\ ctl[c] \in CtlRec
      /\ chan \in [Conn -> ChanRec] /\ CtlShape(c) /\ h \in Conn /\ up \in BOOLEAN
  BY DfxAssumption DEF IInv, Types, ChanInv, Conn, LtUp, LtRec
<1>2. /\ ctl[c].pc = "idle" /\ ctl[c].cmd # None
      /\ ctl' = [ctl EXCEPT ![c] = IF up \/ Supported(Requests(ctl[c].cmd, up))
                                   THEN x ELSE CtlAt("done")]
      /\ chan' = IF up THEN [chan EXCEPT ![h].path = "dfx", ![h].srv = "backlog"] ELSE chan
      /\ UNCHANGED <<use_ltran, lt, starts, g_dfx_fd_cnt, instVars, latency, link, ring, ls>>
  BY <1>0 DEF Start
<1>3. chan[h] = NoChan /\ ctl[c].n = 0 /\ ctl[c].i = 1 /\ ctl[c].cmd \in DOMAIN Command
  BY <1>1, <1>2 DEF CtlShape, CtlRec
<1>4. /\ chan' \in [Conn -> ChanRec] /\ \A g \in Conn : g # h => chan'[g] = chan[g]
      /\ chan'[h] # chan[h] => /\ up /\ chan'[h].path = "dfx" /\ chan'[h].srv = "backlog"
                               /\ ~chan'[h].cli /\ chan'[h].mode = None
                               /\ chan'[h].out = <<>>
  <2>1. CASE up
    <3>1. /\ chan'[h] = [chan[h] EXCEPT !.path = "dfx", !.srv = "backlog"]
          /\ chan' = [chan EXCEPT ![h] = chan'[h]]
      BY <1>1, <1>2, <2>1
    <3>2. /\ chan'[h] \in ChanRec /\ chan'[h].path = "dfx" /\ chan'[h].srv = "backlog"
          /\ chan'[h].cli = NoChan.cli /\ chan'[h].mode = NoChan.mode
          /\ chan'[h].out = NoChan.out
      BY <1>3, <3>1, Blank DEF ChanRec
    <3> QED
      BY <1>1, <2>1, <3>1, <3>2, Blank
  <2>2. CASE ~up
    BY <1>1, <1>2, <2>2
  <2> QED
    BY <2>1, <2>2
<1>5. x \in CtlRec /\ x.pc = "connect" /\ x.n = 0 /\ x.i = 1 /\ x.cmd = ctl[c].cmd
      /\ x.use = up
  <2> HIDE DEF up
  <2> QED
    BY <1>0, <1>1, <1>3 DEF CtlRec
<1>6. ctl' \in [Ctl -> CtlRec] /\ \A d \in Ctl \ {c} : ctl'[d] = ctl[d]
  <2> HIDE DEF up
  <2> QED
    BY <1>1, <1>2, <1>5, Blank
<1>7. CtlShape(c)'
  <2>1. CASE up \/ Supported(Requests(ctl[c].cmd, up))
    <3>1. ctl'[c] = x
      BY <1>1, <1>2, <2>1
    <3>2. Stage(x)'
      <4>1. /\ 1 \in DOMAIN Requests(ctl[c].cmd, up)
            /\ Requests(ctl[c].cmd, up)[1] # "MODE_MAX"
        BY <1>1, <1>3, DueFacts
      <4>2. up => use_ltran
        BY DEF LtUp
      <4>3. up = FALSE => Supported(Requests(ctl[c].cmd, up))
        BY <2>1
      <4>4. 0 \in 0..(MaxConn - 1) /\ 0 = 1 - 1
        BY DfxAssumption
      <4>5. use_ltran' = use_ltran
        BY <1>2
      <4> HIDE DEF up
      <4>6. /\ x.cmd # None /\ (x.use => use_ltran)
            /\ (~x.use => Supported(Requests(x.cmd, x.use)))
            /\ 1 \in DOMAIN Requests(x.cmd, x.use)
            /\ Requests(x.cmd, x.use)[1] # "MODE_MAX"
        BY <1>1, <1>2, <1>5, <4>1, <4>2, <4>3
      <4> QED
        BY <1>5, <4>4, <4>5, <4>6 DEF Stage
    <3>3. \A m \in 1..MaxConn : <<c, m>> \in Conn /\ <<c, m>> # h /\ chan[<<c, m>>] = NoChan
      BY <1>1, <1>2, <1>3 DEF CtlShape, Conn
    <3>4. Stage(ctl[c])' <=> Stage(x)'
      BY <3>1 DEF Stage
    <3> QED
      BY <1>4, <1>5, <3>1, <3>2, <3>3, <3>4 DEF CtlShape
  <2>2. CASE ~(up \/ Supported(Requests(ctl[c].cmd, up)))
    <3>1. ctl'[c] = CtlAt("done")
      BY <1>1, <1>2, <2>2
    <3> QED
      BY <3>1, Blank DEF CtlShape, Stage
  <2> QED
    BY <2>1, <2>2
<1>8. ReadShape(c)'
  <2>1. ctl'[c].pc \in {"connect", "done"}
    BY <1>1, <1>2, <1>5, Blank
  <2> QED
    BY <2>1 DEF ReadShape, ReadAt
<1>9. \A g \in Conn : ChanShape(g)'
  <2>1. ASSUME NEW g \in Conn PROVE ChanShape(g)'
    <3>1. CASE chan'[g] = chan[g]
      <4>1. ChanShape(g) /\ (Serving(g)' <=> Serving(g)) /\ UNCHANGED use_ltran
        BY <1>1, <1>2 DEF ChanInv, Serving
      <4> QED
        BY <3>1, <4>1, SameKept
    <3>2. CASE chan'[g] # chan[g]
      <4>1. g = h /\ (up => use_ltran)
        BY <1>4, <3>2 DEF LtUp
      <4> QED
        BY <1>2, <1>4, <3>2, <4>1, NoneApart DEF ChanShape
    <3> QED
      BY <3>1, <3>2
  <2> QED
    BY <2>1
<1>10. chan[h].srv = "none" /\ chan'[h].srv # "open"
  BY <1>3, <1>4, Blank
<1>11. ChanInv'
  BY <1>1, <1>2, <1>4, <1>6, <1>7, <1>8, <1>9, <1>10, CtlKeeps
<1>12. Counted'
  <2>1. Opened' = Opened
    BY <1>4, <1>10 DEF Opened
  <2> QED
    BY <1>1, <1>2, <2>1, CountSame
<1> QED
  BY <1>2, <1>4, <1>6, <1>11, <1>12, CtlOnly

LEMMA ConnectStep ==
  ASSUME IInv, NEW c \in Ctl, Connect(c)
  PROVE  IInv'
<1>1. /\ Types /\ ChanInv /\ Counted /\ ctl \in [Ctl -> CtlRec] /\ ctl[c] \in CtlRec
      /\ chan \in [Conn -> ChanRec] /\ CtlShape(c) /\ ctl[c].pc = "connect"
  BY DEF IInv, Types, ChanInv, Connect
<1>2. UNCHANGED <<use_ltran, lt, starts, g_dfx_fd_cnt, instVars, latency, link, ring, ls>>
  BY DEF Connect
<1>3. PICK h : h = <<c, ctl[c].n + 1>>
  OBVIOUS
<1>4. PICK m : m = Mode(c)
  OBVIOUS
<1>5. PICK w : w = FirstKind(m, ctl[c].use)
  OBVIOUS
<1>6. PICK x : x = [ctl[c] EXCEPT !.n = @ + 1, !.want = w, !.begun = FALSE,
                     !.pc = IF w = "none" THEN "sleep" ELSE "read"]
  OBVIOUS
<1>7. PICK r : r = [path |-> IF ctl[c].use THEN "dfx" ELSE "reg", srv |-> "backlog",
                    cli |-> TRUE, mode |-> m, out |-> <<>>]
  OBVIOUS
<1>8. \/ ctl' = [ctl EXCEPT ![c] = x] /\ chan' = [chan EXCEPT ![h] = r]
      \/ ctl' = [ctl EXCEPT ![c] = CtlAt("done")] /\ UNCHANGED chan
  BY <1>1, <1>3, <1>4, <1>5, <1>6, <1>7 DEF Connect
<1>9. /\ ctl[c].cmd \in DOMAIN Command /\ ctl[c].use \in BOOLEAN /\ ctl[c].n \in Nat
      /\ ctl[c].n <= MaxConn - 1 /\ MaxConn \in Nat
  BY <1>1, DfxAssumption DEF CtlShape, Stage, CtlRec
<1>10. m \in DOMAIN RecvKind /\ w \in Kind \cup {"none"}
  <2>1. /\ ctl[c].i \in DOMAIN Requests(ctl[c].cmd, ctl[c].use)
        /\ Requests(ctl[c].cmd, ctl[c].use)[ctl[c].i] # "MODE_MAX"
    BY <1>1 DEF CtlShape, Stage
  <2>2. m \in DOMAIN RecvKind
    BY <1>4, <1>9, <2>1, DueFacts DEF Mode
  <2> QED
    BY <1>5, <2>2, RecvKinds
<1>11. h \in Conn /\ h[1] = c /\ chan[h] = NoChan
  BY <1>1, <1>3, <1>9 DEF CtlShape, Conn
<1>12. /\ r \in ChanRec /\ r.cli /\ r.srv = "backlog" /\ r.out = <<>> /\ r.mode = m
       /\ r.path = (IF ctl[c].use THEN "dfx" ELSE "reg")
  <2>1. <<>> \in Seq(Message)
    OBVIOUS
  <2> QED
    BY <1>7, <1>10, <2>1 DEF ChanRec
<1>13. /\ x \in CtlRec /\ x.cmd = ctl[c].cmd /\ x.use = ctl[c].use /\ x.i = ctl[c].i
       /\ x.n = ctl[c].n + 1 /\ x.want = w /\ x.pc = (IF w = "none" THEN "sleep" ELSE "read")
  <2>1. ctl[c].n + 1 \in 0..MaxConn /\ w \in Kind \cup {"none", None}
    BY <1>9, <1>10
  <2>2. PICK p : p = (IF w = "none" THEN "sleep" ELSE "read")
    OBVIOUS
  <2>3. p \in {"idle", "connect", "sleep", "read", "done"}
    BY <2>2
  <2>4. x = [ctl[c] EXCEPT !.n = ctl[c].n + 1, !.want = w, !.begun = FALSE, !.pc = p]
    BY <1>1, <1>6, <2>2 DEF CtlRec
  <2> QED
    BY <1>1, <2>1, <2>2, <2>3, <2>4 DEF CtlRec
<1>14. CASE ctl' = [ctl EXCEPT ![c] = x] /\ chan' = [chan EXCEPT ![h] = r]
  <2>1. /\ chan' \in [Conn -> ChanRec] /\ ctl' \in [Ctl -> CtlRec] /\ ctl'[c] = x
        /\ chan'[h] = r /\ \A g \in Conn : g # h => chan'[g] = chan[g]
        /\ \A d \in Ctl \ {c} : ctl'[d] = ctl[d]
    BY <1>1, <1>11, <1>12, <1>13, <1>14
  <2>2. CtlShape(c)'
    <3>1. Stage(ctl[c])
      BY <1>1 DEF CtlShape
    <3>2. ctl[c].n + 1 \in 1..MaxConn /\ (ctl[c].n = ctl[c].i - 1 => x.n = x.i)
      BY <1>1, <1>9, <1>13 DEF CtlRec
    <3>3. Stage(x)'
      BY <1>1, <1>2, <1>13, <3>1, <3>2 DEF Stage
    <3>4. Stage(ctl[c])' <=> Stage(x)'
      BY <2>1 DEF Stage
    <3>5. \A k \in (x.n + 1)..MaxConn :
            <<c, k>> \in Conn /\ <<c, k>> # h /\ chan[<<c, k>>] = NoChan
      BY <1>1, <1>3, <1>9, <1>13 DEF CtlShape, Conn
    <3> QED
      BY <1>13, <2>1, <3>3, <3>4, <3>5 DEF CtlShape
  <2>3. Mine(c)' = h /\ Mode(c)' = m
    BY <1>3, <1>4, <1>13, <2>1 DEF Mine, Mode
  <2>4. ~Serving(h)'
    <3>1. ~Serving(h)
      BY <1>1, <1>11, Blank, NoneApart DEF ChanInv, LtShape, Serving
    <3> QED
      BY <1>2, <3>1 DEF Serving
  <2>5. ReadAt(c, h)'
    <3>1. TotalsLeft(h)'
      BY <1>12, <2>1, <2>4 DEF TotalsLeft
    <3>2. ctl[c].use /\ m = "LSTACK_SHOW" => w = "total"
      BY <1>5 DEF FirstKind, RecvKind
    <3> QED
      BY <1>5, <1>12, <1>13, <2>1, <2>3, <3>1, <3>2 DEF ReadAt
  <2>6. ReadShape(c)'
    BY <2>3, <2>5, ReadByName
  <2>7. ASSUME NEW g \in Conn PROVE ChanShape(g)'
    <3>1. CASE g = h
      <4>1. ctl[c].use => use_ltran
        BY <1>1 DEF CtlShape, Stage
      <4>2. \A k : AllOf(chan[h].out, k)'
        BY <1>12, <2>1 DEF AllOf
      <4> QED
        BY <1>2, <1>12, <2>1, <3>1, <4>1, <4>2 DEF ChanShape
    <3>2. CASE g # h
      <4>1. ChanShape(g) /\ (Serving(g)' <=> Serving(g)) /\ UNCHANGED <<use_ltran, chan[g]>>
        BY <1>1, <1>2, <2>1, <3>2 DEF ChanInv, Serving
      <4> QED
        BY <4>1, SameKept
    <3> QED
      BY <3>1, <3>2
  <2>8. chan[h].srv = "none"
    BY <1>11, Blank
  <2>9. ChanInv'
    BY <1>1, <1>2, <1>11, <2>1, <2>2, <2>6, <2>7, <2>8, CtlKeeps
  <2>10. Counted'
    <3>1. Opened' = Opened
      BY <1>12, <2>1, <2>8 DEF Opened
    <3> QED
      BY <1>1, <1>2, <3>1, CountSame
  <2> QED
    BY <1>2, <2>1, <2>9, <2>10, CtlOnly
<1>15. CASE ctl' = [ctl EXCEPT ![c] = CtlAt("done")] /\ UNCHANGED chan
  <2>1. ctl' \in [Ctl -> CtlRec] /\ ctl'[c].pc = "done" /\ \A d \in Ctl \ {c} : ctl'[d] = ctl[d]
    BY <1>1, <1>15, Blank
  <2>2. CtlShape(c)' /\ ReadShape(c)'
    BY <2>1 DEF CtlShape, Stage, ReadShape, ReadAt
  <2>3. ASSUME NEW g \in Conn PROVE ChanShape(g)'
    <3>1. ChanShape(g) /\ (Serving(g)' <=> Serving(g)) /\ UNCHANGED <<use_ltran, chan[g]>>
      BY <1>1, <1>2, <1>15 DEF ChanInv, Serving
    <3> QED
      BY <3>1, SameKept
  <2>4. ChanInv'
    BY <1>1, <1>2, <1>15, <2>1, <2>2, <2>3, CtlKeeps
  <2>5. Opened' = Opened
    BY <1>15 DEF Opened
  <2>6. Counted'
    BY <1>1, <1>2, <2>5, CountSame
  <2> QED
    BY <1>1, <1>2, <1>15, <2>1, <2>4, <2>6, CtlOnly
<1> QED
  BY <1>8, <1>14, <1>15

(* The first frame of both parts of an answer is read. *)
LEMMA TotalsTail ==
  ASSUME NEW out \in Seq(Message), out # <<>>, TotalsFirst(out)
  PROVE  /\ Head(out).kind = "total"
         /\ Head(out).eof => AllOf(Tail(out), "dfx")
         /\ ~Head(out).eof => TotalsFirst(Tail(out)) /\ Tail(out) # <<>>
<1>1. PICK k \in DOMAIN out :
        /\ \A j \in DOMAIN out : out[j].kind = IF j <= k THEN "total" ELSE "dfx"
        /\ \A j \in 1..k : out[j].eof <=> j = k
  BY DEF TotalsFirst
<1>2. /\ Tail(out) \in Seq(Message) /\ Len(Tail(out)) = Len(out) - 1
      /\ Head(out) = out[1] /\ 1 \in DOMAIN out
      /\ Len(out) \in Nat \ {0} /\ DOMAIN out = 1..Len(out)
      /\ DOMAIN Tail(out) = 1..(Len(out) - 1)
      /\ \A i \in 1..(Len(out) - 1) : Tail(out)[i] = out[i + 1]
  BY TailFacts
<1>3. Head(out).kind = "total" /\ (Head(out).eof <=> k = 1)
  BY <1>1, <1>2
<1>4. ASSUME k = 1 PROVE AllOf(Tail(out), "dfx")
  BY <1>1, <1>2, <1>4 DEF AllOf
<1>5. ASSUME k # 1 PROVE TotalsFirst(Tail(out)) /\ Tail(out) # <<>>
  <2>1. k - 1 \in DOMAIN Tail(out)
    BY <1>1, <1>2, <1>5
  <2>2. \A j \in DOMAIN Tail(out) : Tail(out)[j].kind = IF j <= k - 1 THEN "total" ELSE "dfx"
    BY <1>1, <1>2
  <2>3. \A j \in 1..(k - 1) : Tail(out)[j].eof <=> j = k - 1
    BY <1>1, <1>2
  <2> QED
    BY <2>1, <2>2, <2>3 DEF TotalsFirst
<1> QED
  BY <1>3, <1>4, <1>5

LEMMA ReadFrameStep ==
  ASSUME IInv, NEW c \in Ctl, ReadFrame(c)
  PROVE  IInv'
<1>1. /\ Types /\ ChanInv /\ Counted /\ ctl \in [Ctl -> CtlRec] /\ ctl[c] \in CtlRec
      /\ chan \in [Conn -> ChanRec] /\ CtlShape(c) /\ ReadShape(c) /\ ctl[c].pc = "read"
  BY DEF IInv, Types, ChanInv, ReadFrame
<1>2. UNCHANGED <<use_ltran, lt, starts, g_dfx_fd_cnt, instVars, latency, link, ring, ls>>
  BY DEF ReadFrame
<1>3. PICK h \in Conn : h = Mine(c) /\ h = <<c, ctl[c].n>>
  BY <1>1 DEF Mine, Conn, CtlRec
<1>4. PICK m : m = Mode(c)
  OBVIOUS
<1>5. PICK f : f = Head(chan[h].out)
  OBVIOUS
<1>6. PICK second \in BOOLEAN :
        second <=> m = "LSTACK_SHOW" /\ ctl[c].use /\ f.eof /\ ctl[c].want = "total"
  OBVIOUS
<1>7. PICK x : x = [ctl[c] EXCEPT !.begun = TRUE, !.want = IF second THEN "dfx" ELSE ctl[c].want]
  OBVIOUS
<1>8. PICK r : r = [chan[h] EXCEPT !.out = Tail(chan[h].out)]
  OBVIOUS
<1>9. chan[h].out # <<>>
  BY <1>3 DEF ReadFrame
<1>10. \/ Advance(c)
       \/ chan' = [chan EXCEPT ![h] = r] /\ ctl' = [ctl EXCEPT ![c] = x]
  <2>1. CASE (Mode(c) \in UntilEof /\ ~f.eof) \/ second
    <3>1. chan' = [chan EXCEPT ![h].out = Tail(@)]
      BY <1>3, <1>4, <1>5, <1>6, <2>1 DEF ReadFrame
    <3>2. ctl' = [ctl EXCEPT ![c].begun = TRUE, ![c].want = IF second THEN "dfx" ELSE @]
      BY <1>3, <1>4, <1>5, <1>6, <2>1 DEF ReadFrame
    <3> QED
      BY <1>1, <1>7, <1>8, <3>1, <3>2
  <2>2. CASE ~((Mode(c) \in UntilEof /\ ~f.eof) \/ second)
    BY <1>3, <1>4, <1>5, <1>6, <2>2 DEF ReadFrame
  <2> QED
    BY <2>1, <2>2
<1>11. CASE Advance(c)
  BY <1>1, <1>2, <1>11, AdvanceKeeps
<1>12. CASE chan' = [chan EXCEPT ![h] = r] /\ ctl' = [ctl EXCEPT ![c] = x]
  <2>1. /\ chan[h] \in ChanRec /\ chan[h].out \in Seq(Message) /\ ChanShape(h)
        /\ ReadAt(c, h)
    BY <1>1, <1>3, ReadByName DEF ChanRec, ChanInv
  <2>2. /\ Tail(chan[h].out) \in Seq(Message) /\ Len(Tail(chan[h].out)) = Len(chan[h].out) - 1
        /\ Len(chan[h].out) \in Nat
    BY <1>9, <2>1, TailFacts
  <2>3. /\ r \in ChanRec /\ r.out = Tail(chan[h].out) /\ r.srv = chan[h].srv
        /\ r.cli = chan[h].cli /\ r.path = chan[h].path /\ r.mode = chan[h].mode
    BY <1>8, <2>1, <2>2 DEF ChanRec
  <2>4. /\ x \in CtlRec /\ x.cmd = ctl[c].cmd /\ x.use = ctl[c].use /\ x.i = ctl[c].i
        /\ x.n = ctl[c].n /\ x.pc = "read" /\ x.want = IF second THEN "dfx" ELSE ctl[c].want
    <3>1. "dfx" \in Kind
      BY DEF Kind
    <3> QED
      BY <1>1, <1>7, <3>1 DEF CtlRec
  <2>5. /\ chan' \in [Conn -> ChanRec] /\ ctl' \in [Ctl -> CtlRec] /\ ctl'[c] = x
        /\ chan'[h] = r /\ \A g \in Conn : g # h => chan'[g] = chan[g]
        /\ \A d \in Ctl \ {c} : ctl'[d] = ctl[d]
    BY <1>1, <1>12, <2>3, <2>4
  <2>6. chan[h].path = "dfx" => ~Unasked(h) /\ ~Unasked(h)'
    BY <1>2, <1>9, <2>1, <2>3, <2>5 DEF ChanShape, Unasked, Serving
  <2>7. Opened' = Opened
    BY <2>3, <2>5 DEF Opened
  <2>8. CtlShape(c)'
    <3>1. Stage(ctl[c])
      BY <1>1 DEF CtlShape
    <3>2. Stage(ctl[c])'
      BY <1>1, <1>2, <2>4, <2>5, <3>1 DEF Stage
    <3>3. \A k \in (ctl[c].n + 1)..MaxConn :
            <<c, k>> \in Conn /\ <<c, k>> # h /\ chan[<<c, k>>] = NoChan
      BY <1>1, <1>3 DEF CtlShape, Conn, CtlRec
    <3> QED
      BY <2>4, <2>5, <3>2, <3>3 DEF CtlShape
  <2>9. Mine(c)' = h /\ Mode(c)' = m
    BY <1>3, <1>4, <2>4, <2>5 DEF Mine, Mode
  <2>10. \A k : AllOf(chan[h].out, k) => AllOf(Tail(chan[h].out), k)
    BY <1>9, <2>1, AllOfFacts
  <2>11. ReadAt(c, h)'
    <3>1. CASE ctl[c].use /\ m = "LSTACK_SHOW"
      <4>1. \/ ctl[c].want = "total" /\ TotalsLeft(h)
            \/ ctl[c].want = "dfx" /\ DfxLeft(h)
        BY <1>1, <1>4, <2>1, <3>1 DEF ReadAt
      <4>2. CASE ctl[c].want = "total" /\ TotalsLeft(h)
        <5>1. TotalsFirst(chan[h].out)
          BY <1>9, <4>2 DEF TotalsLeft
        <5>2. /\ f.eof => AllOf(Tail(chan[h].out), "dfx")
              /\ ~f.eof => TotalsFirst(Tail(chan[h].out)) /\ Tail(chan[h].out) # <<>>
          BY <1>5, <1>9, <2>1, <5>1, TotalsTail
        <5>3. CASE f.eof
          <6>1. second /\ x.want = "dfx"
            BY <1>6, <2>4, <3>1, <4>2, <5>3
          <6>2. chan[h].path = "dfx"
            BY <1>1, <2>1, <3>1 DEF ReadAt
          <6>3. DfxLeft(h)'
            BY <2>3, <2>5, <2>6, <5>2, <5>3, <6>2 DEF DfxLeft, AllOf
          <6> QED
            BY <1>1, <1>4, <2>1, <2>3, <2>4, <2>5, <2>9, <3>1, <6>1, <6>3 DEF ReadAt
        <5>4. CASE ~f.eof
          <6>1. x.want = "total"
            BY <1>6, <2>4, <4>2, <5>4
          <6>2. PICK rest : rest = Tail(chan[h].out) /\ TotalsFirst(rest) /\ rest # <<>>
            BY <5>2, <5>4
          <6>3. chan'[h].out = rest
            BY <2>3, <2>5, <6>2
          <6>4. TotalsFirst(chan[h].out)' <=> TotalsFirst(rest)
            BY <6>3 DEF TotalsFirst
          <6>5. TotalsLeft(h)'
            BY <6>2, <6>3, <6>4 DEF TotalsLeft
          <6> QED
            BY <1>1, <1>4, <2>1, <2>3, <2>4, <2>5, <2>9, <3>1, <6>1, <6>5 DEF ReadAt
        <5> QED
          BY <5>3, <5>4
      <4>3. CASE ctl[c].want = "dfx" /\ DfxLeft(h)
        <5>1. x.want = "dfx"
          BY <2>4, <4>3
        <5>2. chan[h].path = "dfx" /\ AllOf(Tail(chan[h].out), "dfx")
          BY <1>1, <2>1, <2>10, <3>1, <4>3 DEF ReadAt, DfxLeft
        <5>3. DfxLeft(h)'
          BY <2>3, <2>5, <2>6, <5>2 DEF DfxLeft, AllOf
        <5> QED
          BY <1>1, <1>4, <2>1, <2>3, <2>4, <2>5, <2>9, <3>1, <5>1, <5>3 DEF ReadAt
      <4> QED
        BY <4>1, <4>2, <4>3
    <3>2. CASE ~(ctl[c].use /\ m = "LSTACK_SHOW")
      <4>1. x.want = ctl[c].want
        BY <1>6, <2>4, <3>2
      <4> QED
        BY <1>1, <1>4, <2>1, <2>3, <2>4, <2>5, <2>9, <3>2, <4>1 DEF ReadAt
    <3> QED
      BY <3>1, <3>2
  <2>12. ReadShape(c)'
    BY <2>9, <2>11, ReadByName
  <2>13. ASSUME NEW g \in Conn PROVE ChanShape(g)'
    <3>1. CASE g = h
      <4>1. \A k : AllOf(chan[h].out, k) => AllOf(chan[h].out, k)'
        <5>1. PICK rest : rest = Tail(chan[h].out)
          OBVIOUS
        <5>2. chan'[h].out = rest
          BY <2>3, <2>5, <5>1
        <5>3. \A k : AllOf(chan[h].out, k)' <=> AllOf(rest, k)
          BY <5>2 DEF AllOf
        <5> QED
          BY <2>10, <5>1, <5>3
      <4>2. chan[h].cli
        BY <1>9, <2>1 DEF ChanShape
      <4> QED
        BY <1>2, <2>1, <2>3, <2>5, <2>6, <3>1, <4>1, <4>2 DEF ChanShape
    <3>2. CASE g # h
      <4>1. ChanShape(g) /\ (Serving(g)' <=> Serving(g)) /\ UNCHANGED <<use_ltran, chan[g]>>
        BY <1>1, <1>2, <2>5, <3>2 DEF ChanInv, Serving
      <4> QED
        BY <4>1, SameKept
    <3> QED
      BY <3>1, <3>2
  <2>14. \A g \in Conn : chan'[g].srv = chan[g].srv /\ chan'[g].path = chan[g].path
                         /\ chan'[g].mode = chan[g].mode
    BY <2>3, <2>5
  <2>15. \A g \in Conn : g[1] # c => chan'[g] = chan[g]
    BY <1>3, <2>5
  <2>16. ChanInv'
    BY <1>1, <1>2, <2>5, <2>8, <2>12, <2>13, <2>14, <2>15, CtlKeeps
  <2>17. Counted'
    BY <1>1, <1>2, <2>7, CountSame
  <2> QED
    BY <1>2, <2>5, <2>16, <2>17, CtlOnly
<1> QED
  BY <1>10, <1>11, <1>12

-----------------------------------------------------------------------------
(* What ltran answers by itself *)

(* A sequence that counts up to what is registered. *)
LEMMA CountedFrames ==
  ASSUME NEW k \in Kind, NEW h \in Conn, NEW n \in Nat,
         NEW s, s = [i \in 1..n |-> Frame(k, h, i = n)]
  PROVE  /\ s \in Seq(Message) /\ AllOf(s, k) /\ DOMAIN s = 1..n
         /\ \A i \in 1..n : s[i].kind = k /\ (s[i].eof <=> i = n)
         /\ n # 0 => s # <<>>
<1>1. ASSUME NEW i \in 1..n
      PROVE  s[i] \in Message /\ s[i].kind = k /\ (s[i].eof <=> i = n)
  <2>1. s[i] = Frame(k, h, i = n)
    OBVIOUS
  <2>2. (i = n) \in BOOLEAN
    OBVIOUS
  <2> QED
    BY <2>1, <2>2 DEF Frame, Message
<1>2. DOMAIN s = 1..n /\ s \in [1..n -> Message]
  BY <1>1
<1>3. s \in Seq(Message)
  BY <1>2, SeqDef
<1>4. n # 0 => s # <<>>
  BY <1>2
<1> QED
  BY <1>1, <1>2, <1>3, <1>4 DEF AllOf

LEMMA TotalsFacts ==
  ASSUME Types, NEW h \in Conn
  PROVE  /\ Totals(h) \in Seq(Message) /\ AllOf(Totals(h), "total")
         /\ inst # "on" => Totals(h) = <<>>
         /\ inst = "on" => TotalsFirst(Totals(h)) /\ Totals(h) # <<>>
<1>1. PICK n : n = Cardinality(regs) /\ n \in Nat
  <2>1. regs \subseteq 1..StackNum /\ IsFiniteSet(1..StackNum)
    BY FS_Interval, DfxAssumption DEF Types, Stacks
  <2>2. Cardinality(regs) \in Nat
    BY <2>1, FS_Subset, FS_CardinalityType
  <2> QED
    BY <2>2
<1>2. "total" \in Kind
  BY DEF Kind
<1>3. CASE inst # "on"
  <2>1. Totals(h) = <<>>
    BY <1>3 DEF Totals
  <2>2. <<>> \in Seq(Message)
    OBVIOUS
  <2> QED
    BY <1>3, <2>1, <2>2, AllOfFew
<1>4. CASE inst = "on"
  <2>1. PICK s : s = Totals(h)
    OBVIOUS
  <2>2. CASE n = 0
    <3>1. s = <<Frame("total", h, TRUE)>>
      BY <1>1, <1>4, <2>1, <2>2 DEF Totals, StackTotal
    <3>2. PICK e \in Message : e = Frame("total", h, TRUE) /\ e.kind = "total" /\ e.eof
      BY <1>2, MessageFacts
    <3>3. s = <<e>> /\ DOMAIN s = {1} /\ s[1] = e
      BY <3>1, <3>2
    <3>4. s \in Seq(Message) /\ AllOf(s, "total")
      <4>1. <<e>> \in Seq(Message)
        OBVIOUS
      <4> QED
        BY <3>2, <3>3, <4>1 DEF AllOf
    <3>5. TotalsFirst(s)
      <4>1. DOMAIN s = {1} /\ s[1].kind = "total" /\ s[1].eof
        BY <3>2, <3>3
      <4>2. 1 \in DOMAIN s /\ \A j \in 1..1 : s[j].eof <=> j = 1
        BY <4>1
      <4>3. \A j \in DOMAIN s : s[j].kind = IF j <= 1 THEN "total" ELSE "dfx"
        BY <4>1
      <4> QED
        BY <4>2, <4>3 DEF TotalsFirst
    <3> QED
      BY <1>4, <2>1, <3>3, <3>4, <3>5
  <2>3. CASE n # 0
    <3>1. s = [i \in 1..n |-> Frame("total", h, i = n)]
      BY <1>1, <1>4, <2>1, <2>3 DEF Totals, StackTotal
    <3>2. /\ s \in Seq(Message) /\ AllOf(s, "total") /\ DOMAIN s = 1..n
          /\ \A i \in 1..n : s[i].kind = "total" /\ (s[i].eof <=> i = n)
          /\ s # <<>>
      BY <1>1, <1>2, <2>3, <3>1, CountedFrames
    <3>3. n \in DOMAIN s
      BY <1>1, <2>3, <3>2
    <3>4. TotalsFirst(s)
      BY <1>1, <3>2, <3>3 DEF TotalsFirst
    <3> QED
      BY <1>4, <2>1, <3>2, <3>4
  <2> QED
    BY <2>2, <2>3
<1> QED
  BY <1>3, <1>4

LEMMA LatenciesFacts ==
  ASSUME Types, NEW h \in Conn
  PROVE  Latencies(h) \in Seq(Message) /\ AllOf(Latencies(h), "lat")
<1>1. PICK n : n = Cardinality(regs) /\ n \in Nat
  <2>1. regs \subseteq 1..StackNum /\ IsFiniteSet(1..StackNum)
    BY FS_Interval, DfxAssumption DEF Types, Stacks
  <2>2. Cardinality(regs) \in Nat
    BY <2>1, FS_Subset, FS_CardinalityType
  <2> QED
    BY <2>2
<1>2. CASE inst = "mem"
  <2>1. Latencies(h) = <<>>
    BY <1>2 DEF Latencies
  <2>2. <<>> \in Seq(Message)
    OBVIOUS
  <2> QED
    BY <2>1, <2>2, AllOfFew
<1>3. CASE inst # "mem"
  <2>1. "lat" \in Kind /\ n + 1 \in Nat
    BY <1>1 DEF Kind
  <2>2. Latencies(h) = [i \in 1..(n + 1) |-> Frame("lat", h, i = n + 1)]
    BY <1>1, <1>3 DEF Latencies
  <2> QED
    BY <2>1, <2>2, CountedFrames
<1> QED
  BY <1>2, <1>3

(* Every answer of ltran's own is made of what gazellectl reads. *)
LEMMA OwnFrames ==
  ASSUME Types, NEW h \in Conn, NEW m \in OwnModes
  PROVE  OwnAnswer(h, m) \in Seq(Message) /\ AllOf(OwnAnswer(h, m), RecvKind[m])
<1>1. {"ltotal", "client", "table"} \subseteq Kind
  BY DEF Kind
<1>2. \A k \in {"ltotal", "client", "table"} :
        <<Frame(k, h, FALSE)>> \in Seq(Message) /\ AllOf(<<Frame(k, h, FALSE)>>, k)
  <2>1. ASSUME NEW e \in Message, NEW k, e.kind = k
        PROVE  <<e>> \in Seq(Message) /\ AllOf(<<e>>, k)
    BY <2>1, AllOfFew
  <2>2. \A k \in {"ltotal", "client", "table"} :
          Frame(k, h, FALSE) \in Message /\ Frame(k, h, FALSE).kind = k
    BY <1>1 DEF Frame, Message
  <2> QED
    BY <2>1, <2>2
<1>3. <<>> \in Seq(Message) /\ \A k : AllOf(<<>>, k)
  BY AllOfFew
<1>4. CASE m \in {"LTRAN_SHOW", "LTRAN_SHOW_RATE", "LTRAN_SHOW_BURST"}
  <2>1. OwnAnswer(h, m) = <<Frame("ltotal", h, FALSE)>>
    BY <1>4 DEF OwnAnswer, LtranTotal
  <2>2. RecvKind[m] = "ltotal"
    BY <1>4 DEF RecvKind
  <2> QED
    BY <1>2, <2>1, <2>2
<1>5. CASE m = "LTRAN_SHOW_INSTANCE"
  BY <1>2, <1>5 DEF OwnAnswer, Clients, RecvKind
<1>6. CASE m \in {"LTRAN_SHOW_SOCKTABLE", "LTRAN_SHOW_CONNTABLE"}
  <2>1. OwnAnswer(h, m) = <<Frame("table", h, FALSE)>>
    BY <1>6 DEF OwnAnswer, TableLines
  <2>2. RecvKind[m] = "table"
    BY <1>6 DEF RecvKind
  <2> QED
    BY <1>2, <2>1, <2>2
<1>7. CASE m = "LTRAN_SHOW_LATENCY"
  BY <1>7, LatenciesFacts DEF OwnAnswer, RecvKind
<1>8. CASE m = "LSTACK_SHOW_RATE"
  BY <1>8, TotalsFacts DEF OwnAnswer, RecvKind
<1>9. CASE m \in {"LTRAN_LOG_LEVEL_SET", "LSTACK_SHOW_XSTATS", "LSTACK_SHOW_AGGREGATE"}
  <2>1. OwnAnswer(h, m) = <<>>
    BY <1>9 DEF OwnAnswer
  <2> QED
    BY <1>3, <2>1
<1> QED
  BY <1>4, <1>5, <1>6, <1>7, <1>8, <1>9 DEF OwnModes

-----------------------------------------------------------------------------
(* The long connection *)

(* Empty, and one message less. *)
LEMMA KindFacts ==
  ASSUME NEW s \in Seq(Message)
  PROVE  /\ AllOf(<<>>, "dfx") /\ AllOf(<<>>, "req")
         /\ s # <<>> /\ AllOf(s, "dfx") => s[1].kind = "dfx"
         /\ <<Msg("mem")>>[1].kind = "mem" /\ <<Msg("att")>>[1].kind = "att"
         /\ <<Msg("ok")>>[1].kind = "ok"
         /\ <<Msg("mem")>> # <<>> /\ <<Msg("att")>> # <<>> /\ <<Msg("ok")>> # <<>>
         /\ {Msg("mem"), Msg("att"), Msg("ok")} \subseteq Message
         /\ Tail(<<Msg("mem")>>) = <<>> /\ Tail(<<Msg("att")>>) = <<>>
         /\ Tail(<<Msg("ok")>>) = <<>>
<1>1. /\ Msg("mem").kind = "mem" /\ Msg("att").kind = "att" /\ Msg("ok").kind = "ok"
      /\ {Msg("mem"), Msg("att"), Msg("ok")} \subseteq Message
  BY MessageFacts DEF Kind
<1>2. \A e : <<e>>[1] = e /\ <<e>> # <<>> /\ Tail(<<e>>) = <<>>
  OBVIOUS
<1>3. s # <<>> /\ AllOf(s, "dfx") => s[1].kind = "dfx"
  BY TailFacts DEF AllOf
<1> QED
  BY <1>1, <1>2, <1>3, AllOfFew

(* What the instance in ltran knows is what is on the way up. *)
LEMMA UpFacts ==
  ASSUME Types, LinkInv
  PROVE  /\ link.up \in Seq(Message) /\ link.dn \in Seq(Message)
         /\ link.up # <<>> => link.t /\ UpKind = link.up[1].kind
         /\ UpKind = "mem" => inst = "none" /\ link.t /\ link.up = <<Msg("mem")>>
         /\ UpKind = "att" => inst = "mem" /\ link.t /\ link.up = <<Msg("att")>>
         /\ UpKind = "dfx" => inst = "on" /\ link.t /\ link.up # <<>>
         /\ inst = "on" /\ link.up # <<>> => UpKind = "dfx"
<1>1. link.up \in Seq(Message) /\ link.dn \in Seq(Message) /\ inst \in {"none", "mem", "on"}
  BY DEF Types, LinkRec
<1>2. link.up # <<>> => link.t /\ UpKind = link.up[1].kind /\ UpKind \in Kind
  <2>1. link.up # <<>> => UpKind = link.up[1].kind /\ link.up[1] \in Message
    BY <1>1, TailFacts DEF UpKind
  <2>2. link.up # <<>> => link.t
    BY DEF LinkInv, LinkShape
  <2> QED
    BY <2>1, <2>2 DEF Message
<1>3. link.up = <<>> => UpKind = None /\ None \notin {"mem", "att", "dfx"}
  BY NoneApart DEF UpKind, Kind
<1>4. /\ inst = "none" /\ link.t => link.up = <<Msg("mem")>>
      /\ inst = "mem" => link.up \in {<<>>, <<Msg("att")>>}
      /\ inst = "on" => AllOf(link.up, "dfx")
  BY DEF LinkInv, LinkShape
<1>5. CASE link.up = <<>>
  BY <1>1, <1>3, <1>5
<1>6. CASE link.up # <<>>
  <2>1. CASE inst = "none"
    BY <1>1, <1>2, <1>4, <1>6, <2>1, KindFacts
  <2>2. CASE inst = "mem"
    BY <1>1, <1>2, <1>4, <1>6, <2>2, KindFacts
  <2>3. CASE inst = "on"
    BY <1>1, <1>2, <1>4, <1>6, <2>3, KindFacts
  <2> QED
    BY <1>1, <2>1, <2>2, <2>3
<1> QED
  BY <1>5, <1>6

(* ltran closes the long connection. *)
LEMMA LogoutLink ==
  ASSUME Types, LinkInv, lt.pc \in {"loop", "late"}, lt'.pc \in {"loop", "down"},
         link' = ShutByLtran(link), inst' = "none", UNCHANGED <<use_ltran, ls>>
  PROVE  LinkInv'
<1>1. /\ ~link'.t /\ link'.up = <<>> /\ link'.l = link.l
      /\ link.l => link'.dn = link.dn /\ link'.late = link.late
      /\ ~link.l => link'.dn = <<>> /\ link.dn = <<>>
  BY ShutLinkFacts DEF Types, LinkInv, DnShape
<1>2. link'.dn = link.dn
  BY <1>1
<1>3. LinkShape'
  BY <1>1 DEF LinkInv, LinkShape
<1>4. DnShape'
  BY <1>1, <1>2 DEF LinkInv, DnShape, AllOf
<1>5. Dialogue'
  <2>1. Asked' = Asked /\ (Answering' <=> Answering)
    BY <1>2 DEF Asked, Answering
  <2>2. CASE link.l
    BY <1>1, <2>1, <2>2 DEF LinkInv, Dialogue, Quiet
  <2>3. CASE ~link.l
    <3>1. ~Answering
      BY <2>3 DEF LinkInv, LinkShape, Answering, Linked
    <3>2. Asked = {}
      BY <1>1, <2>3 DEF Asked
    <3> QED
      BY <2>1, <3>1, <3>2 DEF Dialogue, Quiet
  <2> QED
    BY <2>2, <2>3
<1> QED
  BY <1>3, <1>4, <1>5 DEF LinkInv

(* lstack closes it. *)
LEMMA LoseLink ==
  ASSUME Types, LinkInv, link' = ShutByLstack(link), ls'.pc \in {"connect", "down"},
         ls'.pc = "connect" => use_ltran, UNCHANGED <<use_ltran, lt, inst>>
  PROVE  LinkInv'
<1>1. /\ ~link'.l /\ link'.dn = <<>> /\ link'.t = link.t
      /\ link.t => link'.up = link.up /\ link'.late = link.late
      /\ ~link.t => link'.up = <<>> /\ link.up = <<>>
  BY ShutLinkFacts, Blank DEF Types, LinkInv, LinkShape
<1>2. link'.up = link.up
  BY <1>1
<1>3. LinkShape'
  BY <1>1, <1>2 DEF LinkInv, LinkShape, Linked, AllOf
<1>4. DnShape'
  BY <1>1 DEF DnShape
<1>5. Dialogue'
  <2>1. Asked' = {} /\ ~Answering'
    BY <1>1 DEF Asked, Answering
  <2>2. CASE link.t
    BY <1>1, <1>2, <2>1, <2>2 DEF LinkInv, Dialogue, Quiet
  <2>3. CASE ~link.t
    BY <1>1, <1>2, <2>1, <2>3 DEF LinkInv, LinkShape, Dialogue, Quiet
  <2> QED
    BY <2>2, <2>3
<1> QED
  BY <1>3, <1>4, <1>5 DEF LinkInv

(* ltran is done with a transfer, and nothing of it is left. *)
LEMMA DoneLink ==
  ASSUME Types, LinkInv, lt.pc = "xfer", lt'.pc = "loop",
         UNCHANGED <<use_ltran, inst, ls>>,
         link' = [link EXCEPT !.up = link'.up, !.late = link'.late],
         link' \in LinkRec, AllOf(link'.up, "dfx"),
         ~link'.late => ~link.late /\ link'.up = <<>> /\ Asked = {} /\ ~Answering
  PROVE  LinkInv'
<1>1. link'.dn = link.dn /\ link'.l = link.l /\ link'.t = link.t /\ inst = "on" /\ link.t
  BY DEF Types, LinkRec, LinkInv, LinkShape
<1>2. \A k : AllOf(link'.up, k) <=> AllOf(link.up, k)'
  BY DEF AllOf
<1>3. LinkShape'
  BY <1>1, <1>2 DEF LinkInv, LinkShape
<1>4. DnShape'
  BY <1>1 DEF LinkInv, DnShape, AllOf
<1>5. Dialogue'
  BY <1>1 DEF Dialogue, Quiet, Asked, Answering
<1> QED
  BY <1>3, <1>4, <1>5 DEF LinkInv

-----------------------------------------------------------------------------
(* ltran's control thread: gazellectl's connections *)

LEMMA SelfWritten ==
  ASSUME Types, ChanInv, NEW h \in Conn
  PROVE  Written(h, chan[h])
<1>1. chan[h] \in ChanRec /\ ChanShape(h)
  BY DEF Types, ChanInv
<1>2. /\ TotalsLeft(h) => chan[h].out = <<>> \/ TotalsFirst(chan[h].out)
      /\ DfxLeft(h) => AllOf(chan[h].out, "dfx")
  BY DEF TotalsLeft, DfxLeft
<1>3. /\ chan[h].path = "reg" => AllOf(chan[h].out, "dfx")
      /\ chan[h].path = "dfx" /\ chan[h].mode \notin {None, "LSTACK_SHOW"} =>
           AllOf(chan[h].out, RecvKind[chan[h].mode])
  BY <1>1 DEF ChanShape
<1> QED
  BY <1>1, <1>2, <1>3 DEF Written

(* One connection changes. *)
LEMMA OneStep ==
  ASSUME Types, ChanInv, NEW h \in Conn, UNCHANGED <<use_ltran, ctl>>,
         \A g \in Conn : g # h => chan'[g] = chan[g] /\ (Serving(g)' <=> Serving(g)),
         Kept(h), ChanShape(h)', LtShape'
  PROVE  ChanInv'
<1>1. ASSUME NEW g \in Conn PROVE Kept(g) /\ ChanShape(g)'
  <2>1. CASE g = h
    BY <2>1
  <2>2. CASE g # h
    BY <2>2, SameKept DEF ChanInv
  <2> QED
    BY <2>1, <2>2
<1> QED
  BY <1>1, ServerStep

(* The server accepts it. *)
LEMMA OpenedKept ==
  ASSUME Types, ChanInv, NEW h \in Conn, chan[h].srv = "backlog",
         chan' = [chan EXCEPT ![h].srv = "open"], ~Serving(h)', UNCHANGED use_ltran
  PROVE  /\ Kept(h) /\ ChanShape(h)' /\ chan' \in [Conn -> ChanRec]
         /\ \A g \in Conn : g # h => chan'[g] = chan[g]
         /\ chan'[h].srv = "open" /\ chan'[h].path = chan[h].path
<1>1. chan \in [Conn -> ChanRec] /\ chan[h] \in ChanRec /\ ChanShape(h)
  BY DEF Types, ChanInv
<1>2. PICK r : r = [chan[h] EXCEPT !.srv = "open"]
  OBVIOUS
<1>3. /\ r \in ChanRec /\ r.srv = "open" /\ r.cli = chan[h].cli /\ r.path = chan[h].path
      /\ r.mode = chan[h].mode /\ r.out = chan[h].out
  BY <1>1, <1>2 DEF ChanRec
<1>4. chan' = [chan EXCEPT ![h] = r]
  BY <1>1, <1>2
<1>5. /\ chan' \in [Conn -> ChanRec] /\ chan'[h] = r
      /\ \A g \in Conn : g # h => chan'[g] = chan[g]
  BY <1>1, <1>3, <1>4
<1>6. Unasked(h) /\ Unasked(h)'
  BY <1>3, <1>5 DEF Unasked
<1>7. (TotalsLeft(h) => TotalsLeft(h)') /\ (DfxLeft(h) => DfxLeft(h)')
  BY <1>3, <1>5, <1>6 DEF TotalsLeft, DfxLeft, TotalsFirst
<1>8. Kept(h)
  <2>1. chan[h] # NoChan
    BY Blank
  <2> QED
    BY <1>3, <1>5, <1>7, <2>1 DEF Kept
<1>9. ChanShape(h)'
  BY <1>1, <1>3, <1>5, <1>6 DEF ChanShape, AllOf
<1> QED
  BY <1>3, <1>5, <1>8, <1>9

LEMMA LtAcceptStep ==
  ASSUME IInv, NEW h \in Conn, LtAccept(h)
  PROVE  IInv'
<1>1. /\ Types /\ LinkInv /\ ChanInv /\ Counted /\ chan \in [Conn -> ChanRec]
      /\ chan[h] \in ChanRec
  BY DEF IInv, Types
<1>2. /\ lt.pc = "loop" /\ chan[h].path = "dfx" /\ chan[h].srv = "backlog"
      /\ UNCHANGED <<use_ltran, lt, starts, instVars, latency, link, ring, ls, ctl>>
  BY DEF LtAccept
<1>3. LtShape' /\ \A g : ~Serving(g) /\ ~Serving(g)'
  BY <1>2 DEF LtShape, Serving
<1>4. LinkInv'
  BY <1>1, <1>2, LinkSame DEF instVars
<1>5. CASE g_dfx_fd_cnt > MaxDfx \/ ~chan[h].cli
  <2>1. chan' = [chan EXCEPT ![h] = ShutByServer(chan[h])] /\ UNCHANGED g_dfx_fd_cnt
    BY <1>5 DEF LtAccept
  <2>2. ShutByServer(chan[h]) \in ChanRec /\ ShutByServer(chan[h]).srv # "open"
    BY <1>1, ShutFacts
  <2>3. /\ chan' \in [Conn -> ChanRec] /\ chan'[h] = ShutByServer(chan[h])
        /\ \A g \in Conn : g # h => chan'[g] = chan[g]
    BY <1>1, <2>1, <2>2
  <2>4. Kept(h) /\ ChanShape(h)'
    BY <1>1, <1>2, <1>3, <2>3, SelfWritten, ShutKept DEF ChanInv
  <2>5. ChanInv'
    BY <1>1, <1>2, <1>3, <2>3, <2>4, OneStep
  <2>6. Opened' = Opened
    BY <1>2, <2>2, <2>3 DEF Opened
  <2>7. Counted'
    BY <1>1, <2>1, <2>6, CountSame
  <2>8. Types'
    BY <1>1, <1>2, <2>3 DEF Types, instVars
  <2> QED
    BY <1>4, <2>5, <2>7, <2>8 DEF IInv
<1>6. CASE ~(g_dfx_fd_cnt > MaxDfx \/ ~chan[h].cli)
  <2>1. chan' = [chan EXCEPT ![h].srv = "open"] /\ g_dfx_fd_cnt' = g_dfx_fd_cnt + 1
    BY <1>6 DEF LtAccept
  <2>2. /\ Kept(h) /\ ChanShape(h)' /\ chan' \in [Conn -> ChanRec]
        /\ \A g \in Conn : g # h => chan'[g] = chan[g]
        /\ chan'[h].srv = "open" /\ chan'[h].path = "dfx"
    BY <1>1, <1>2, <1>3, <2>1, OpenedKept
  <2>3. ChanInv'
    BY <1>1, <1>2, <1>3, <2>2, OneStep
  <2>4. Counted'
    <3>1. h \notin Opened /\ chan' = [chan EXCEPT ![h] = chan'[h]]
      BY <1>1, <1>2, <2>2 DEF Opened
    <3>2. g_dfx_fd_cnt \in Nat
      BY <1>1, FS_CardinalityType DEF Counted
    <3>3. g_dfx_fd_cnt <= MaxDfx
      BY <1>6, <3>2, DfxAssumption
    <3> QED
      BY <1>1, <2>1, <2>2, <3>1, <3>3, CountMore
  <2>5. Types'
    BY <1>1, <1>2, <2>2 DEF Types, instVars
  <2> QED
    BY <1>4, <2>3, <2>4, <2>5 DEF IInv
<1> QED
  BY <1>5, <1>6

(* Requests ltran is done with at once. *)
LEMMA EndStep ==
  ASSUME IInv, NEW h \in Conn, NEW r, Written(h, r), EndRequest(r, h), lt.pc = "loop",
         chan[h].path = "dfx", chan[h].srv = "open", latency' \in [lt : BOOLEAN, ls : BOOLEAN],
         UNCHANGED <<use_ltran, starts, instVars, link, ring, ls, ctl>>
  PROVE  IInv'
<1>1. Types /\ LinkInv /\ ChanInv /\ Counted /\ h \in Opened
  BY DEF IInv, Opened
<1>2. /\ ChanInv' /\ Counted'
      /\ chan' \in [Conn -> ChanRec] /\ lt' \in LtRec /\ lt'.pc = "loop"
  BY <1>1, EndKeeps
<1>3. LinkInv'
  BY <1>1, <1>2, LinkIdle DEF instVars
<1>4. Types'
  BY <1>1, <1>2 DEF Types, instVars
<1> QED
  BY <1>2, <1>3, <1>4 DEF IInv

LEMMA LtDroppedStep ==
  ASSUME IInv, NEW h \in Conn, LtDropped(h)
  PROVE  IInv'
<1>1. Types /\ ChanInv /\ latency \in [lt : BOOLEAN, ls : BOOLEAN]
  BY DEF IInv, Types
<1>2. Written(h, chan[h])
  BY <1>1, SelfWritten
<1> QED
  BY <1>1, <1>2, EndStep DEF LtDropped

LEMMA LtAnswerStep ==
  ASSUME IInv, NEW h \in Conn, LtAnswer(h)
  PROVE  IInv'
<1>1. Types /\ ChanInv /\ chan[h] \in ChanRec /\ latency \in [lt : BOOLEAN, ls : BOOLEAN]
  BY DEF IInv, Types
<1>2. /\ lt.pc = "loop" /\ chan[h].path = "dfx" /\ chan[h].srv = "open" /\ chan[h].cli
      /\ chan[h].mode \in OwnModes
  BY DEF LtAnswer, Asks
<1>3. PICK r : r = Write(chan[h], OwnAnswer(h, chan[h].mode))
  OBVIOUS
<1>4. /\ EndRequest(r, h)
      /\ UNCHANGED <<use_ltran, starts, instVars, latency, link, ring, ls, ctl>>
  BY <1>3 DEF LtAnswer
<1>5. Written(h, r)
  <2>1. chan[h].out = <<>>
    BY <1>1, <1>2 DEF ChanInv, ChanShape, Unasked, Serving
  <2>2. PICK frames \in Seq(Message) :
          frames = OwnAnswer(h, chan[h].mode) /\ AllOf(frames, RecvKind[chan[h].mode])
    BY <1>1, <1>2, OwnFrames
  <2>3. /\ r \in ChanRec /\ r.srv = chan[h].srv /\ r.cli = chan[h].cli
        /\ r.path = chan[h].path /\ r.mode = chan[h].mode /\ r.out = frames
    <3>1. /\ r \in ChanRec /\ r.srv = chan[h].srv /\ r.cli = chan[h].cli
          /\ r.path = chan[h].path /\ r.mode = chan[h].mode
          /\ r.out = IF chan[h].cli THEN chan[h].out \o frames ELSE chan[h].out
      BY <1>1, <1>3, <2>2, WriteFacts
    <3>2. <<>> \o frames = frames
      BY WriteFirst
    <3> QED
      BY <1>2, <2>1, <3>1, <3>2
  <2>4. r.mode # "LSTACK_SHOW"
    BY <1>2, <2>3 DEF OwnModes
  <2> QED
    BY <1>2, <2>2, <2>3, <2>4 DEF Written
<1> QED
  BY <1>1, <1>2, <1>4, <1>5, EndStep

LEMMA LtStrayStep ==
  ASSUME IInv, NEW h \in Conn, LtStray(h)
  PROVE  IInv'
<1>1. /\ Types /\ LinkInv /\ ChanInv /\ Counted /\ chan \in [Conn -> ChanRec]
  BY DEF IInv, Types
<1>2. /\ lt.pc = "loop" /\ chan[h].path = "reg" /\ chan[h].srv = "backlog"
      /\ lt' = [pc |-> "stray", ch |-> h, mode |-> None]
      /\ chan' = [chan EXCEPT ![h].srv = "open"]
      /\ UNCHANGED <<use_ltran, starts, g_dfx_fd_cnt, instVars, latency, link, ring, ls, ctl>>
  BY DEF LtStray
<1>3. lt' \in LtRec /\ lt'.pc = "stray" /\ lt'.ch = h /\ \A g : ~Serving(g) /\ ~Serving(g)'
  BY <1>2 DEF LtRec, Serving
<1>4. /\ Kept(h) /\ ChanShape(h)' /\ chan' \in [Conn -> ChanRec]
      /\ \A g \in Conn : g # h => chan'[g] = chan[g]
      /\ chan'[h].srv = "open" /\ chan'[h].path = "reg"
  BY <1>1, <1>2, <1>3, OpenedKept
<1>5. LtShape'
  BY <1>3, <1>4 DEF LtShape
<1>6. ChanInv'
  BY <1>1, <1>2, <1>3, <1>4, <1>5, OneStep
<1>7. Opened' = Opened
  BY <1>2, <1>4 DEF Opened
<1>8. Counted'
  BY <1>1, <1>2, <1>7, CountSame
<1>9. LinkInv'
  BY <1>1, <1>2, <1>3, LinkIdle DEF instVars
<1>10. Types'
  BY <1>1, <1>2, <1>3, <1>4 DEF Types, instVars
<1> QED
  BY <1>6, <1>8, <1>9, <1>10 DEF IInv

LEMMA LtStrayEndStep ==
  ASSUME IInv, LtStrayEnd
  PROVE  IInv'
<1>1. /\ Types /\ LinkInv /\ ChanInv /\ Counted /\ chan \in [Conn -> ChanRec]
      /\ lt.pc = "stray"
  BY DEF IInv, Types, LtStrayEnd
<1>2. PICK h \in Conn : h = lt.ch /\ chan[h].path = "reg" /\ chan[h].srv = "open"
  BY <1>1 DEF ChanInv, LtShape
<1>3. /\ lt' = LtAt("loop") /\ chan' = [chan EXCEPT ![h] = ShutByServer(chan[h])]
      /\ UNCHANGED <<use_ltran, starts, g_dfx_fd_cnt, instVars, latency, link, ring, ls, ctl>>
  BY <1>2 DEF LtStrayEnd
<1>4. lt' \in LtRec /\ lt'.pc = "loop" /\ \A g : ~Serving(g) /\ ~Serving(g)'
  BY <1>1, <1>3, Blank DEF Serving
<1>5. chan[h] \in ChanRec /\ ShutByServer(chan[h]) \in ChanRec
      /\ ShutByServer(chan[h]).srv # "open"
  BY <1>1, ShutFacts
<1>6. /\ chan' \in [Conn -> ChanRec] /\ chan'[h] = ShutByServer(chan[h])
      /\ \A g \in Conn : g # h => chan'[g] = chan[g]
  BY <1>1, <1>3, <1>5
<1>7. Kept(h) /\ ChanShape(h)'
  BY <1>1, <1>2, <1>3, <1>4, <1>6, SelfWritten, ShutKept DEF ChanInv
<1>8. LtShape'
  BY <1>4 DEF LtShape
<1>9. ChanInv'
  BY <1>1, <1>3, <1>4, <1>6, <1>7, <1>8, OneStep
<1>10. Opened' = Opened
  BY <1>2, <1>5, <1>6 DEF Opened
<1>11. Counted'
  BY <1>1, <1>3, <1>10, CountSame
<1>12. LinkInv'
  BY <1>1, <1>3, <1>4, LinkIdle DEF instVars
<1>13. Types'
  BY <1>1, <1>3, <1>4, <1>6 DEF Types, instVars
<1> QED
  BY <1>9, <1>11, <1>12, <1>13 DEF IInv

-----------------------------------------------------------------------------
(* ltran's control thread: what lstack is asked *)

(* What can be passed on is of one size, but for the totals. *)
LEMMA ForwardKinds ==
  /\ ToLstack \subseteq DOMAIN RecvKind /\ Forwarded \subseteq ToLstack
  /\ \A m \in Forwarded : m # "LSTACK_SHOW" => RecvKind[m] = "dfx"
<1>1. ToLstack \subseteq DOMAIN RecvKind
  BY Modes DEF ToLstack
<1>2. Forwarded = {"LSTACK_SHOW", "LSTACK_SHOW_SNMP", "LSTACK_SHOW_CONN",
                   "LSTACK_SHOW_LATENCY", "LSTACK_LOW_POWER_MDF"}
  BY DEF Forwarded, ToLstack
<1>3. \A m \in {"LSTACK_SHOW_SNMP", "LSTACK_SHOW_CONN", "LSTACK_SHOW_LATENCY",
               "LSTACK_LOW_POWER_MDF"} : RecvKind[m] = "dfx"
  BY DEF RecvKind
<1> QED
  BY <1>1, <1>2, <1>3 DEF ToLstack

(* The totals are followed by what lstack counted. *)
LEMMA TotalsMore ==
  ASSUME NEW out \in Seq(Message), TotalsFirst(out), NEW f \in Message, f.kind = "dfx"
  PROVE  TotalsFirst(Append(out, f))
<1>1. PICK k \in DOMAIN out :
        /\ \A j \in DOMAIN out : out[j].kind = IF j <= k THEN "total" ELSE "dfx"
        /\ \A j \in 1..k : out[j].eof <=> j = k
  BY DEF TotalsFirst
<1>2. PICK s : s = Append(out, f)
  OBVIOUS
<1>3. /\ Len(out) \in Nat /\ DOMAIN out = 1..Len(out) /\ DOMAIN s = 1..(Len(out) + 1)
      /\ \A i \in 1..Len(out) : s[i] = out[i]
      /\ s[Len(out) + 1] = f
  BY <1>2, AppendFacts
<1>4. k \in DOMAIN s /\ k \in 1..Len(out)
  BY <1>1, <1>3
<1>5. ASSUME NEW j \in DOMAIN s PROVE s[j].kind = IF j <= k THEN "total" ELSE "dfx"
  <2>1. CASE j \in 1..Len(out)
    BY <1>1, <1>3, <2>1
  <2>2. CASE j = Len(out) + 1
    BY <1>3, <1>4, <2>2
  <2> QED
    BY <1>3, <2>1, <2>2
<1>6. \A j \in 1..k : s[j].eof <=> j = k
  BY <1>1, <1>3, <1>4
<1> QED
  BY <1>2, <1>4, <1>5, <1>6 DEF TotalsFirst

(* A request goes down. *)
LEMMA AskLink ==
  ASSUME Types, LinkInv, lt.pc = "loop", inst = "on", NEW h \in Conn,
         NEW m \in DOMAIN RecvKind, lt'.pc = "xfer", lt'.ch = h,
         link' = IF link.l THEN [link EXCEPT !.dn = Append(@, Req(h, m))] ELSE link,
         UNCHANGED <<use_ltran, inst, ls>>
  PROVE  LinkInv' /\ link' \in LinkRec
<1>1. PICK e \in Message : e = Req(h, m) /\ e.kind = "req" /\ e.id = h
  BY MessageFacts
<1>2. link \in LinkRec /\ link.dn \in Seq(Message) /\ link.up \in Seq(Message)
  BY DEF Types, LinkRec
<1>3. CASE link.l
  <2>1. PICK s : s = Append(link.dn, e)
    OBVIOUS
  <2>2. /\ s \in Seq(Message) /\ Len(link.dn) \in Nat /\ DOMAIN link.dn = 1..Len(link.dn)
        /\ DOMAIN s = 1..(Len(link.dn) + 1) /\ s # <<>> /\ Len(s) = Len(link.dn) + 1
        /\ \A i \in 1..Len(link.dn) : s[i] = link.dn[i]
        /\ s[Len(link.dn) + 1] = e
    BY <1>2, <2>1, AppendFacts
  <2>3. /\ link' \in LinkRec /\ link'.dn = s /\ link'.up = link.up /\ link'.l = link.l
        /\ link'.t = link.t /\ link'.late = link.late
    BY <1>1, <1>2, <1>3, <2>1, <2>2 DEF LinkRec
  <2>4. LinkShape'
    BY <2>3 DEF LinkInv, LinkShape, AllOf
  <2>5. DnShape'
    <3>1. ls.pc # "mem"
      BY DEF LinkInv, DnShape
    <3>2. ASSUME ls.pc = "att"
          PROVE  link.dn # <<>> /\ s[1] = Msg("ok") /\ AllOf(Tail(s), "req")
      <4>1. link.dn # <<>> /\ link.dn[1] = Msg("ok") /\ AllOf(Tail(link.dn), "req")
        BY <3>2 DEF LinkInv, DnShape
      <4>2. /\ 1 \in DOMAIN link.dn /\ DOMAIN Tail(link.dn) = 1..(Len(link.dn) - 1)
            /\ \A i \in 1..(Len(link.dn) - 1) : Tail(link.dn)[i] = link.dn[i + 1]
        BY <1>2, <4>1, TailFacts
      <4>3. /\ DOMAIN Tail(s) = 1..(Len(s) - 1)
            /\ \A i \in 1..(Len(s) - 1) : Tail(s)[i] = s[i + 1]
        BY <2>2, TailFacts
      <4>4. ASSUME NEW i \in 1..Len(link.dn) PROVE Tail(s)[i].kind = "req"
        <5>1. Tail(s)[i] = s[i + 1]
          BY <2>2, <4>3
        <5>2. CASE i = Len(link.dn)
          BY <1>1, <2>2, <5>1, <5>2
        <5>3. CASE i # Len(link.dn)
          BY <2>2, <4>1, <4>2, <5>1, <5>3 DEF AllOf
        <5> QED
          BY <5>2, <5>3
      <4>5. AllOf(Tail(s), "req")
        BY <2>2, <4>3, <4>4 DEF AllOf
      <4> QED
        BY <2>2, <4>1, <4>2, <4>5
    <3>3. ASSUME ls.pc \in {"init", "thr", "ready", "answer"} PROVE AllOf(s, "req")
      <4>1. AllOf(link.dn, "req")
        BY <3>3 DEF LinkInv, DnShape
      <4> QED
        BY <1>1, <1>2, <2>1, <4>1, AllOfFacts
    <3>4. \A k : AllOf(s, k) <=> AllOf(link.dn, k)'
      BY <2>3 DEF AllOf
    <3>5. AllOf(Tail(s), "req") <=> AllOf(Tail(link.dn), "req")'
      BY <2>3 DEF AllOf
    <3> QED
      BY <1>3, <2>2, <2>3, <3>1, <3>2, <3>3, <3>4, <3>5 DEF DnShape
  <2>6. Dialogue'
    <3>1. SUFFICES ASSUME ~link.late PROVE Dialogue'
      BY <2>3 DEF Dialogue
    <3>2. Asked = {} /\ ~Answering /\ link.up = <<>>
      BY <3>1 DEF LinkInv, Dialogue, Quiet
    <3>3. Asked' = {Len(link.dn) + 1}
      BY <1>1, <2>2, <2>3, <3>2 DEF Asked
    <3>4. ~Answering' /\ link'.up = <<>> /\ link'.dn[Len(link.dn) + 1].id = lt'.ch
      BY <1>1, <2>2, <2>3, <3>2 DEF Answering
    <3> QED
      BY <3>3, <3>4 DEF Dialogue
  <2> QED
    BY <2>3, <2>4, <2>5, <2>6 DEF LinkInv
<1>4. CASE ~link.l
  <2>1. LinkShape'
    BY <1>4 DEF LinkInv, LinkShape, AllOf
  <2>2. DnShape'
    BY <1>4 DEF LinkInv, DnShape, AllOf
  <2>3. Dialogue'
    BY <1>4 DEF LinkInv, Dialogue, Quiet, Asked, Answering
  <2> QED
    BY <1>2, <1>4, <2>1, <2>2, <2>3 DEF LinkInv
<1> QED
  BY <1>3, <1>4

LEMMA LtTransferStep ==
  ASSUME IInv, NEW h \in Conn, LtTransfer(h)
  PROVE  IInv'
<1>1. /\ Types /\ LinkInv /\ ChanInv /\ Counted /\ chan \in [Conn -> ChanRec]
      /\ chan[h] \in ChanRec /\ latency \in [lt : BOOLEAN, ls : BOOLEAN]
  BY DEF IInv, Types
<1>2. PICK m : m = chan[h].mode
  OBVIOUS
<1>3. /\ lt.pc = "loop" /\ chan[h].path = "dfx" /\ chan[h].srv = "open" /\ chan[h].cli
      /\ m \in ToLstack /\ m \in DOMAIN RecvKind /\ m # None
  BY <1>2, ForwardKinds, NoneApart DEF LtTransfer, Asks
<1>4. PICK r : r = IF m = "LSTACK_SHOW" THEN Write(chan[h], Totals(h)) ELSE chan[h]
  OBVIOUS
<1>5. UNCHANGED <<use_ltran, starts, instVars, ring, ls, ctl>>
  BY DEF LtTransfer
<1>6. chan[h].out = <<>> /\ Unasked(h)
  BY <1>1, <1>3 DEF ChanInv, ChanShape, Unasked, Serving
<1>7. /\ r \in ChanRec /\ r.srv = chan[h].srv /\ r.cli = chan[h].cli /\ r.path = chan[h].path
      /\ r.mode = m /\ r.out = IF m = "LSTACK_SHOW" THEN Totals(h) ELSE <<>>
  <2>1. CASE m = "LSTACK_SHOW"
    <3>1. PICK frames \in Seq(Message) : frames = Totals(h)
      BY <1>1, TotalsFacts
    <3>2. /\ r \in ChanRec /\ r.srv = chan[h].srv /\ r.cli = chan[h].cli
          /\ r.path = chan[h].path /\ r.mode = chan[h].mode
          /\ r.out = IF chan[h].cli THEN chan[h].out \o frames ELSE chan[h].out
      BY <1>1, <1>4, <2>1, <3>1, WriteFacts
    <3>3. <<>> \o frames = frames
      BY WriteFirst
    <3> QED
      BY <1>2, <1>3, <1>6, <2>1, <3>1, <3>2, <3>3
  <2>2. CASE m # "LSTACK_SHOW"
    BY <1>1, <1>2, <1>4, <1>6, <2>2
  <2> QED
    BY <2>1, <2>2
<1>8. CASE MayAsk
  <2>1. /\ lt' = [pc |-> "xfer", ch |-> h, mode |-> m]
        /\ link' = IF link.l THEN [link EXCEPT !.dn = Append(@, Req(h, m))] ELSE link
        /\ chan' = [chan EXCEPT ![h] = r] /\ UNCHANGED g_dfx_fd_cnt
        /\ latency' \in [lt : BOOLEAN, ls : BOOLEAN]
    BY <1>1, <1>2, <1>4, <1>8 DEF LtTransfer
  <2>2. /\ lt' \in LtRec /\ lt'.pc = "xfer" /\ lt'.ch = h /\ lt'.mode = m
    BY <1>3, <2>1 DEF LtRec
  <2>3. /\ chan' \in [Conn -> ChanRec] /\ chan'[h] = r
        /\ \A g \in Conn : g # h => chan'[g] = chan[g] /\ ~Serving(g) /\ ~Serving(g)'
    BY <1>1, <1>3, <1>7, <2>1, <2>2 DEF Serving
  <2>4. inst = "on"
    BY <1>8 DEF MayAsk
  <2>5. LinkInv' /\ link' \in LinkRec
    BY <1>1, <1>3, <1>5, <2>1, <2>2, <2>4, AskLink DEF instVars
  <2>6. LtShape'
    BY <1>3, <1>7, <2>2, <2>3 DEF LtShape
  <2>7. Kept(h)
    <3>1. m = "LSTACK_SHOW" => TotalsLeft(h)'
      <4>1. PICK o : o = Totals(h)
        OBVIOUS
      <4>2. TotalsFirst(o) /\ o # <<>>
        BY <1>1, <2>4, <4>1, TotalsFacts
      <4>3. m = "LSTACK_SHOW" => chan'[h].out = o
        BY <1>7, <2>3, <4>1
      <4>4. m = "LSTACK_SHOW" => (TotalsFirst(chan[h].out)' <=> TotalsFirst(o))
        BY <4>3 DEF TotalsFirst
      <4> QED
        BY <4>2, <4>3, <4>4 DEF TotalsLeft
    <3>2. ~DfxLeft(h)
      BY <1>6 DEF DfxLeft
    <3>3. chan[h] # NoChan
      BY <1>3, Blank
    <3> QED
      BY <1>2, <1>7, <2>3, <3>1, <3>2, <3>3 DEF Kept
  <2>8. ChanShape(h)'
    <3>1. ~Unasked(h)'
      BY <1>3, <1>7, <2>2, <2>3 DEF Unasked, Serving
    <3>2. m # "LSTACK_SHOW" => \A k : AllOf(chan[h].out, k)'
      BY <1>7, <2>3 DEF AllOf
    <3> QED
      BY <1>1, <1>3, <1>5, <1>7, <2>3, <3>1, <3>2 DEF ChanShape, ChanInv
  <2>9. ChanInv'
    BY <1>1, <1>5, <2>3, <2>6, <2>7, <2>8, OneStep
  <2>10. Opened' = Opened
    BY <1>7, <2>3 DEF Opened
  <2>11. Counted'
    BY <1>1, <2>1, <2>10, CountSame
  <2>12. Types'
    BY <1>1, <1>5, <2>1, <2>2, <2>3, <2>5 DEF Types, instVars
  <2> QED
    BY <2>5, <2>9, <2>11, <2>12 DEF IInv
<1>9. CASE ~MayAsk
  <2>1. /\ EndRequest(r, h) /\ UNCHANGED link
        /\ latency' \in [lt : BOOLEAN, ls : BOOLEAN]
    BY <1>1, <1>2, <1>4, <1>9 DEF LtTransfer
  <2>2. r.out = <<>>
    BY <1>1, <1>7, <1>9, TotalsFacts DEF MayAsk
  <2>3. Written(h, r)
    BY <1>2, <1>3, <1>7, <2>2, AllOfFew DEF Written
  <2> QED
    BY <1>3, <1>5, <2>1, <2>3, EndStep
<1> QED
  BY <1>8, <1>9

(* Whatever the reason, the wait is over. *)
LEMMA TransferDone ==
  ASSUME IInv, lt.pc = "xfer", NEW r, Written(lt.ch, r), EndTransfer(r, lt.ch, lt.mode),
         link' = [link EXCEPT !.up = link'.up, !.late = link'.late],
         link' \in LinkRec, AllOf(link'.up, "dfx"),
         ~link'.late => ~link.late /\ link'.up = <<>> /\ Asked = {} /\ ~Answering,
         UNCHANGED <<use_ltran, starts, instVars, ring, ls, ctl>>
  PROVE  IInv'
<1>1. Types /\ LinkInv /\ ChanInv /\ Counted /\ latency \in [lt : BOOLEAN, ls : BOOLEAN]
  BY DEF IInv, Types
<1>2. PICK h \in Conn : h = lt.ch /\ h \in Opened /\ Serving(h)
  BY <1>1 DEF ChanInv, LtShape, Opened, Serving
<1>3. EndRequest(r, h) /\ latency' \in [lt : BOOLEAN, ls : BOOLEAN] /\ Written(h, r)
  BY <1>1, <1>2 DEF EndTransfer
<1>4. /\ ChanInv' /\ Counted'
      /\ chan' \in [Conn -> ChanRec] /\ lt' \in LtRec /\ lt'.pc = "loop"
  BY <1>1, <1>2, <1>3, EndKeeps
<1>5. LinkInv'
  BY <1>1, <1>4, DoneLink DEF instVars
<1>6. Types'
  BY <1>1, <1>3, <1>4 DEF Types, instVars
<1> QED
  BY <1>4, <1>5, <1>6 DEF IInv

LEMMA LtPeerGoneStep ==
  ASSUME IInv, LtPeerGone
  PROVE  IInv'
<1>1. /\ Types /\ LinkInv /\ ChanInv /\ link \in LinkRec
      /\ lt.pc = "xfer" /\ link.up = <<>> /\ ~link.l
      /\ EndTransfer(chan[lt.ch], lt.ch, lt.mode)
      /\ UNCHANGED <<use_ltran, starts, instVars, link, ring, ls, ctl>>
  BY DEF IInv, Types, LtPeerGone
<1>2. Written(lt.ch, chan[lt.ch])
  BY <1>1, SelfWritten DEF ChanInv, LtShape
<1>3. Asked = {} /\ ~Answering
  BY <1>1 DEF LinkInv, LinkShape, DnShape, Asked, Answering, Linked
<1>4. link' = [link EXCEPT !.up = link'.up, !.late = link'.late]
  BY <1>1 DEF LinkRec
<1>5. AllOf(link'.up, "dfx")
  BY <1>1, AllOfFew
<1> QED
  BY <1>1, <1>2, <1>3, <1>4, <1>5, TransferDone

LEMMA LtTimeoutStep ==
  ASSUME IInv, LtTimeout
  PROVE  IInv'
<1>1. /\ Types /\ LinkInv /\ ChanInv /\ link \in LinkRec
      /\ lt.pc = "xfer" /\ link.up = <<>>
      /\ EndTransfer(chan[lt.ch], lt.ch, lt.mode)
      /\ link' = [link EXCEPT !.late = TRUE]
      /\ UNCHANGED <<use_ltran, starts, instVars, ring, ls, ctl>>
  BY DEF IInv, Types, LtTimeout
<1>2. Written(lt.ch, chan[lt.ch])
  BY <1>1, SelfWritten DEF ChanInv, LtShape
<1>3. /\ link' \in LinkRec /\ link'.late /\ link'.up = <<>>
      /\ link' = [link EXCEPT !.up = link'.up, !.late = link'.late]
  BY <1>1 DEF LinkRec
<1>4. AllOf(link'.up, "dfx")
  BY <1>3, AllOfFew
<1> QED
  BY <1>1, <1>2, <1>3, <1>4, TransferDone

(* A frame is passed on, or dropped with those nobody reads. *)
LEMMA ForwardWritten ==
  ASSUME Types, ChanInv, lt.pc = "xfer", NEW f \in Message, f.kind = "dfx",
         NEW r, r = IF lt.mode \in Forwarded THEN Write(chan[lt.ch], <<f>>) ELSE chan[lt.ch]
  PROVE  Written(lt.ch, r)
<1>1. PICK h \in Conn : /\ h = lt.ch /\ chan[h].path = "dfx" /\ chan[h].mode = lt.mode
                        /\ Serving(h) /\ chan[h] \in ChanRec
  BY DEF ChanInv, LtShape, Serving, Types
<1>2. Written(h, chan[h])
  BY SelfWritten
<1>3. CASE lt.mode \in Forwarded /\ chan[h].cli
  <2>1. PICK out \in Seq(Message) : out = chan[h].out
    BY <1>1 DEF ChanRec
  <2>2. <<f>> \in Seq(Message) /\ out \o <<f>> = Append(out, f)
    BY WriteOne
  <2>3. /\ r \in ChanRec /\ r.srv = chan[h].srv /\ r.cli = chan[h].cli
        /\ r.path = chan[h].path /\ r.mode = chan[h].mode /\ r.out = Append(out, f)
    <3>1. PICK frames \in Seq(Message) : frames = <<f>>
      BY <2>2
    <3>2. r = Write(chan[h], frames)
      BY <1>1, <1>3, <3>1
    <3>3. /\ r \in ChanRec /\ r.srv = chan[h].srv /\ r.cli = chan[h].cli
          /\ r.path = chan[h].path /\ r.mode = chan[h].mode
          /\ r.out = IF chan[h].cli THEN chan[h].out \o frames ELSE chan[h].out
      BY <1>1, <3>2, WriteFacts
    <3> QED
      BY <1>3, <2>1, <2>2, <3>1, <3>3
  <2>4. AllOf(out, "dfx") => AllOf(Append(out, f), "dfx")
    BY <2>1, AllOfFacts
  <2>5. r.mode # "LSTACK_SHOW" => AllOf(r.out, RecvKind[r.mode])
    <3>1. ASSUME r.mode # "LSTACK_SHOW" PROVE AllOf(r.out, RecvKind[r.mode])
      <4>1. r.mode \in Forwarded /\ RecvKind[r.mode] = "dfx" /\ r.mode \in DOMAIN RecvKind
        BY <1>1, <1>3, <2>3, <3>1, ForwardKinds
      <4>2. AllOf(out, "dfx")
        BY <1>1, <1>2, <2>1, <2>3, <3>1, <4>1, NoneApart DEF Written
      <4> QED
        BY <2>3, <2>4, <4>1, <4>2
    <3> QED
      BY <3>1
  <2>6. TotalsLeft(h) => TotalsFirst(r.out)
    <3>1. ASSUME TotalsLeft(h) PROVE TotalsFirst(out)
      BY <1>1, <2>1, <3>1 DEF TotalsLeft
    <3> QED
      BY <2>3, <3>1, TotalsMore
  <2>7. DfxLeft(h) => AllOf(r.out, "dfx")
    BY <2>1, <2>3, <2>4 DEF DfxLeft
  <2>8. r.path # "reg"
    BY <1>1, <2>3
  <2> QED
    BY <1>1, <2>3, <2>5, <2>6, <2>7, <2>8 DEF Written
<1>4. CASE ~(lt.mode \in Forwarded /\ chan[h].cli)
  <2>1. r = chan[h]
    BY <1>1, <1>4 DEF Write
  <2> QED
    BY <1>1, <1>2, <2>1
<1> QED
  BY <1>3, <1>4

LEMMA LtForwardStep ==
  ASSUME IInv, LtForward
  PROVE  IInv'
<1>1. /\ Types /\ LinkInv /\ ChanInv /\ Counted /\ link \in LinkRec /\ lt \in LtRec
      /\ lt.pc = "xfer" /\ link.up # <<>> /\ link.up \in Seq(Message)
      /\ chan \in [Conn -> ChanRec]
  BY DEF IInv, Types, LinkRec, LtForward
<1>2. inst = "on" /\ AllOf(link.up, "dfx")
  BY <1>1 DEF LinkInv, LinkShape
<1>3. PICK f \in Message : f = Head(link.up) /\ f = link.up[1] /\ f.kind = "dfx"
  BY <1>1, <1>2, TailFacts DEF AllOf
<1>4. PICK s \in Seq(Message) :
        /\ s = Tail(link.up) /\ AllOf(s, "dfx") /\ Len(s) = Len(link.up) - 1
        /\ Len(link.up) \in Nat \ {0} /\ DOMAIN link.up = 1..Len(link.up)
        /\ DOMAIN s = 1..(Len(link.up) - 1)
        /\ \A i \in 1..(Len(link.up) - 1) : s[i] = link.up[i + 1]
  BY <1>1, <1>2, TailFacts, AllOfFacts
<1>5. PICK r : r = IF lt.mode \in Forwarded THEN Write(chan[lt.ch], <<f>>) ELSE chan[lt.ch]
  OBVIOUS
<1>6. Written(lt.ch, r)
  BY <1>1, <1>3, <1>5, ForwardWritten
<1>7. /\ link' = [link EXCEPT !.up = s]
      /\ IF f.eof THEN EndTransfer(r, lt.ch, lt.mode)
         ELSE chan' = [chan EXCEPT ![lt.ch] = r] /\ UNCHANGED <<lt, g_dfx_fd_cnt, latency>>
      /\ UNCHANGED <<use_ltran, starts, instVars, ring, ls, ctl>>
  BY <1>3, <1>4, <1>5 DEF LtForward
<1>8. /\ link' \in LinkRec /\ link'.up = s /\ link'.dn = link.dn /\ link'.l = link.l
      /\ link'.t = link.t /\ link'.late = link.late
      /\ link' = [link EXCEPT !.up = link'.up, !.late = link'.late]
  BY <1>1, <1>7 DEF LinkRec
<1>9. ~link.late =>
        /\ Asked = {}
        /\ Answering => ls.id = lt.ch /\ \A k \in DOMAIN link.up : ~link.up[k].eof
        /\ \A k \in DOMAIN link.up : link.up[k].id = lt.ch /\ (link.up[k].eof => k = Len(link.up))
  BY <1>1 DEF LinkInv, Dialogue
<1>10. CASE f.eof
  <2>1. ~link.late => link'.up = <<>> /\ Asked = {} /\ ~Answering
    <3>1. SUFFICES ASSUME ~link.late PROVE s = <<>> /\ Asked = {} /\ ~Answering
      BY <1>8
    <3>2. Len(link.up) = 1 /\ ~Answering
      <4>1. 1 \in DOMAIN link.up /\ link.up[1].eof
        BY <1>3, <1>4, <1>10
      <4> QED
        BY <1>9, <3>1, <4>1
    <3>3. s = <<>>
      BY <1>4, <3>2
    <3> QED
      BY <1>9, <3>1, <3>2, <3>3
  <2>2. AllOf(link'.up, "dfx")
    BY <1>4, <1>8
  <2> QED
    BY <1>1, <1>6, <1>7, <1>8, <1>10, <2>1, <2>2, TransferDone
<1>11. CASE ~f.eof
  <2>1. chan' = [chan EXCEPT ![lt.ch] = r] /\ UNCHANGED <<lt, g_dfx_fd_cnt, latency>>
    BY <1>7, <1>11
  <2>2. PICK h \in Conn : /\ h = lt.ch /\ chan[h].path = "dfx" /\ chan[h].srv = "open"
                          /\ Serving(h) /\ chan[h].mode = lt.mode
    BY <1>1 DEF ChanInv, LtShape, Serving
  <2>3. /\ r \in ChanRec /\ r.srv = "open" /\ r.cli = chan[h].cli /\ r.path = "dfx"
        /\ r.mode = chan[h].mode
    BY <1>6, <2>2 DEF Written
  <2>4. /\ chan' \in [Conn -> ChanRec] /\ chan'[h] = r
        /\ \A g \in Conn : g # h => chan'[g] = chan[g]
        /\ \A g : Serving(g)' <=> Serving(g)
    BY <1>1, <2>1, <2>2, <2>3 DEF Serving
  <2>5. LtShape'
    BY <1>1, <2>1, <2>2, <2>3, <2>4 DEF LtShape, ChanInv
  <2>6. Serving(h)' /\ ~Unasked(h)'
    BY <2>2, <2>3, <2>4 DEF Unasked
  <2>7. Kept(h) /\ ChanShape(h)'
    <3>1. CASE r.cli
      <4>1. r.out # <<>> \/ ~TotalsLeft(h)
        <5>1. SUFFICES ASSUME chan[h].out # <<>> PROVE r.out # <<>>
          BY <2>2 DEF TotalsLeft
        <5>2. chan[h] \in ChanRec /\ chan[h].out \in Seq(Message)
          BY <1>1 DEF ChanRec
        <5>3. CASE lt.mode \in Forwarded
          <6>1. <<f>> \in Seq(Message) /\ chan[h].out \o <<f>> = Append(chan[h].out, f)
            BY <5>2, WriteOne
          <6>2. PICK frames \in Seq(Message) : frames = <<f>>
            BY <6>1
          <6>3. r = Write(chan[h], frames)
            BY <1>5, <2>2, <5>3, <6>2
          <6>4. r.cli = chan[h].cli
                /\ r.out = IF chan[h].cli THEN chan[h].out \o frames ELSE chan[h].out
            BY <5>2, <6>3, WriteFacts
          <6>5. r.out = Append(chan[h].out, f)
            BY <3>1, <6>1, <6>2, <6>4
          <6> QED
            BY <5>2, <6>5, AppendFacts
        <5>4. CASE lt.mode \notin Forwarded
          BY <1>5, <2>2, <5>1, <5>4
        <5> QED
          BY <5>3, <5>4
      <4>2. r.mode = "LSTACK_SHOW" /\ TotalsLeft(h) => TotalsLeft(h)'
        <5>1. r.mode = "LSTACK_SHOW" /\ TotalsLeft(h) => TotalsFirst(r.out)
          BY <1>6, <2>2, <2>3, <4>1 DEF Written
        <5>2. TotalsFirst(chan[h].out)' <=> TotalsFirst(r.out)
          BY <2>4 DEF TotalsFirst
        <5> QED
          BY <2>4, <4>1, <5>1, <5>2 DEF TotalsLeft
      <4>3. r.mode = "LSTACK_SHOW" /\ DfxLeft(h) => DfxLeft(h)'
        <5>1. r.mode = "LSTACK_SHOW" /\ DfxLeft(h) => AllOf(r.out, "dfx")
          BY <1>6, <2>2, <2>3 DEF Written
        <5>2. AllOf(chan[h].out, "dfx")' <=> AllOf(r.out, "dfx")
          BY <2>4 DEF AllOf
        <5> QED
          BY <2>6, <5>1, <5>2 DEF DfxLeft
      <4>4. chan[h] # NoChan
        BY <2>2, Blank
      <4>5. Kept(h)
        BY <2>2, <2>3, <2>4, <4>2, <4>3, <4>4 DEF Kept
      <4>6. ChanShape(h)'
        <5>1. \A k : AllOf(chan[h].out, k)' <=> AllOf(r.out, k)
          BY <2>4 DEF AllOf
        <5> QED
          BY <1>1, <1>6, <1>7, <2>2, <2>3, <2>4, <2>6, <3>1, <5>1 DEF ChanShape, ChanInv, Written
      <4> QED
        BY <4>5, <4>6
    <3>2. CASE ~r.cli
      <4>1. r = chan[h]
        BY <1>5, <2>2, <2>3, <3>2 DEF Write
      <4>2. Kept(h) /\ ChanShape(h)'
        BY <1>1, <1>7, <2>4, <4>1, SameKept DEF ChanInv
      <4> QED
        BY <4>2
    <3> QED
      BY <3>1, <3>2
  <2>9. ChanInv'
    BY <1>1, <1>7, <2>1, <2>4, <2>5, <2>7, OneStep
  <2>10. Opened' = Opened
    BY <2>2, <2>3, <2>4 DEF Opened
  <2>11. Counted'
    BY <1>1, <2>1, <2>10, CountSame
  <2>12. LinkInv'
    <3>1. \A k : AllOf(link.up, k)' <=> AllOf(s, k)
      BY <1>8 DEF AllOf
    <3>2. LinkShape'
      BY <1>1, <1>2, <1>4, <1>7, <1>8, <2>1, <3>1 DEF LinkInv, LinkShape, instVars
    <3>3. DnShape'
      <4>1. UNCHANGED <<use_ltran, lt, inst, ls>> /\ DnShape
        BY <1>1, <1>7, <2>1 DEF LinkInv, instVars
      <4>2. \A k : AllOf(link.dn, k)' <=> AllOf(link.dn, k)
        BY <1>8 DEF AllOf
      <4>3. AllOf(Tail(link.dn), "req")' <=> AllOf(Tail(link.dn), "req")
        BY <1>8 DEF AllOf
      <4> QED
        BY <1>2, <1>8, <4>1, <4>2, <4>3 DEF DnShape
    <3>4. Asked' = Asked /\ (Answering' <=> Answering)
      BY <1>7, <1>8 DEF Asked, Answering
    <3>5. ~link.late =>
            /\ \A k \in DOMAIN s : s[k].id = lt.ch /\ (s[k].eof => k = Len(s))
            /\ Answering => \A k \in DOMAIN s : ~s[k].eof
      <4>1. ASSUME ~link.late, NEW k \in DOMAIN s
            PROVE  /\ s[k].id = lt.ch /\ (s[k].eof => k = Len(s))
                   /\ Answering => ~s[k].eof
        <5>1. k + 1 \in DOMAIN link.up /\ s[k] = link.up[k + 1] /\ k \in Nat
          BY <1>4
        <5>2. k + 1 = Len(link.up) => k = Len(s)
          BY <1>4, <5>1
        <5> QED
          BY <1>9, <4>1, <5>1, <5>2
      <4> QED
        BY <4>1
    <3>6. Dialogue'
      BY <1>1, <1>7, <1>8, <1>9, <2>1, <3>4, <3>5 DEF Dialogue
    <3> QED
      BY <3>2, <3>3, <3>6 DEF LinkInv
  <2>13. Types'
    BY <1>1, <1>7, <1>8, <2>1, <2>4 DEF Types, instVars
  <2> QED
    BY <2>9, <2>11, <2>12, <2>13, <1>1 DEF IInv
<1> QED
  BY <1>10, <1>11

(* Every connection of a server that stops is closed. *)
LEMMA AllShut ==
  ASSUME Types, ChanInv,
         chan' = [g \in Conn |-> IF g \in Live THEN ShutByServer(chan[g]) ELSE chan[g]],
         \A g : ~Serving(g) /\ ~Serving(g)', LtShape', UNCHANGED <<use_ltran, ctl>>
  PROVE  ChanInv' /\ chan' \in [Conn -> ChanRec] /\ Opened' = {}
<1>1. ASSUME NEW g \in Conn
      PROVE  /\ Kept(g) /\ ChanShape(g)'
             /\ chan'[g] \in ChanRec /\ chan'[g].srv # "open"
  <2>1. chan[g] \in ChanRec /\ ChanShape(g)
    BY DEF Types, ChanInv
  <2>2. CASE g \in Live
    <3>1. chan'[g] = ShutByServer(chan[g]) /\ chan[g].srv \in {"backlog", "open"}
      BY <2>2 DEF Live
    <3>2. Kept(g) /\ ChanShape(g)'
      BY <2>1, <3>1, SelfWritten, ShutKept
    <3> QED
      BY <2>1, <3>1, <3>2, ShutFacts
  <2>3. CASE g \notin Live
    <3>1. chan'[g] = chan[g]
      BY <2>3
    <3>2. chan'[g].srv # "open"
      BY <2>3, <3>1 DEF Live
    <3> QED
      BY <2>1, <3>1, <3>2, SameKept
  <2> QED
    BY <2>2, <2>3
<1>2. chan' \in [Conn -> ChanRec]
  BY <1>1
<1>3. ChanInv'
  BY <1>1, ServerStep
<1>4. Opened' = {}
  BY <1>1 DEF Opened
<1> QED
  BY <1>2, <1>3, <1>4

LEMMA LtQuitStep ==
  ASSUME IInv, NEW h \in Conn, LtQuit(h)
  PROVE  IInv'
<1>1. /\ Types /\ LinkInv /\ ChanInv /\ Counted /\ link \in LinkRec /\ lt.pc = "loop"
  BY DEF IInv, Types, LtQuit, Asks
<1>2. /\ lt' = LtAt("down") /\ g_dfx_fd_cnt' = 0 /\ inst' = "none" /\ regs' = {}
      /\ latency' = [latency EXCEPT !.lt = FALSE] /\ link' = ShutByLtran(link)
      /\ ring' = [k \in Stacks |-> IF ring[k] = "asked" THEN "err" ELSE ring[k]]
      /\ chan' = [g \in Conn |-> IF g \in Live THEN ShutByServer(chan[g]) ELSE chan[g]]
      /\ UNCHANGED <<use_ltran, starts, ls, ctl>>
  BY DEF LtQuit
<1>3. lt' \in LtRec /\ lt'.pc = "down" /\ \A g : ~Serving(g) /\ ~Serving(g)'
  BY <1>1, <1>2, Blank DEF Serving
<1>4. LtShape'
  BY <1>3 DEF LtShape
<1>5. ChanInv' /\ chan' \in [Conn -> ChanRec] /\ Opened' = {}
  BY <1>1, <1>2, <1>3, <1>4, AllShut
<1>6. Counted'
  BY <1>2, <1>5, FS_EmptySet, DfxAssumption DEF Counted
<1>7. LinkInv'
  BY <1>1, <1>2, <1>3, LogoutLink
<1>8. link' \in LinkRec
  BY <1>1, <1>2, ShutLinkFacts
<1>9. Types'
  BY <1>1, <1>2, <1>3, <1>5, <1>8 DEF Types
<1> QED
  BY <1>5, <1>6, <1>7, <1>9 DEF IInv

LEMMA LtStartStep ==
  ASSUME IInv, LtStart
  PROVE  IInv'
<1>1. /\ Types /\ LinkInv /\ ChanInv /\ Counted /\ lt.pc = "down"
      /\ use_ltran /\ starts < MaxRestart /\ lt' = LtAt("loop") /\ starts' = starts + 1
      /\ UNCHANGED <<use_ltran, g_dfx_fd_cnt, instVars, latency, link, ring, ls, ctlVars>>
  BY DEF IInv, LtStart
<1>2. lt' \in LtRec /\ lt'.pc = "loop" /\ UNCHANGED <<inst, regs, ctl, chan>>
  BY <1>1, Blank DEF instVars, ctlVars
<1>3. LinkInv'
  <2>1. LinkShape'
    BY <1>1, <1>2 DEF LinkInv, LinkShape, AllOf
  <2>2. DnShape'
    BY <1>1, <1>2 DEF LinkInv, DnShape, AllOf
  <2>3. Dialogue'
    BY <1>1, <1>2 DEF LinkInv, Dialogue, Quiet, Asked, Answering
  <2> QED
    BY <2>1, <2>2, <2>3 DEF LinkInv
<1>4. ChanInv'
  BY <1>1, <1>2, ChanSame
<1>5. Opened' = Opened
  BY <1>2 DEF Opened
<1>6. Counted'
  BY <1>1, <1>5, CountSame
<1>7. Types'
  <2>1. starts' \in 0..MaxRestart
    BY <1>1, DfxAssumption DEF Types
  <2> QED
    BY <1>1, <1>2, <2>1 DEF Types
<1> QED
  BY <1>3, <1>4, <1>6, <1>7 DEF IInv

-----------------------------------------------------------------------------
(* ltran's control thread: registration *)

(* Nothing but the long connection and whom it concerns changes. *)
LEMMA LinkOnly ==
  ASSUME IInv, LinkInv', lt' \in LtRec, link' \in LinkRec, ls' \in LsRec,
         inst' \in {"none", "mem", "on"}, regs' \subseteq Stacks,
         ring' \in [Stacks -> {"idle", "asked", "ok", "err"}],
         \/ UNCHANGED lt
         \/ lt.pc \in {"loop", "late", "down"} /\ lt'.pc \in {"loop", "late", "down"},
         UNCHANGED <<use_ltran, starts, g_dfx_fd_cnt, latency, ctl, chan>>
  PROVE  IInv'
<1>1. Types /\ ChanInv /\ Counted
  BY DEF IInv
<1>2. ChanInv'
  BY <1>1, ChanSame
<1>3. Opened' = Opened
  BY DEF Opened
<1>4. Counted'
  BY <1>1, <1>3, CountSame
<1>5. Types'
  BY <1>1 DEF Types
<1> QED
  BY <1>2, <1>4, <1>5 DEF IInv

LEMMA LtMemStep ==
  ASSUME IInv, LtMem
  PROVE  IInv'
<1>1. /\ Types /\ LinkInv /\ link \in LinkRec /\ lt \in LtRec /\ ls \in LsRec
      /\ regs \subseteq Stacks /\ ring \in [Stacks -> {"idle", "asked", "ok", "err"}]
      /\ lt.pc = "loop" /\ link.t /\ link.l /\ UpKind = "mem"
      /\ UNCHANGED <<use_ltran, lt, starts, g_dfx_fd_cnt, latency, ring, ls, ctlVars>>
  BY DEF IInv, Types, LtMem
<1>2. inst = "none" /\ link.up = <<Msg("mem")>>
  BY <1>1, UpFacts
<1>3. ls.pc = "mem" /\ link.dn = <<>>
  BY <1>1, <1>2 DEF LinkInv, LinkShape, DnShape, Linked
<1>4. /\ inst' = "mem" /\ link' = [link EXCEPT !.up = Tail(@), !.dn = Append(@, Msg("ok"))]
      /\ UNCHANGED regs
  BY <1>2 DEF LtMem
<1>5. /\ link' \in LinkRec /\ link'.up = <<>> /\ link'.dn = <<Msg("ok")>> /\ link'.l /\ link'.t
      /\ link'.late = link.late
  <2>1. <<>> \in Seq(Message) /\ <<Msg("ok")>> \in Seq(Message)
    BY MessageFacts DEF Kind
  <2>2. Tail(link.up) = <<>> /\ Append(link.dn, Msg("ok")) = <<Msg("ok")>>
    BY <1>2, <1>3
  <2> QED
    BY <1>1, <1>4, <2>1, <2>2 DEF LinkRec
<1>6. LinkShape'
  BY <1>1, <1>3, <1>4, <1>5 DEF LinkInv, LinkShape
<1>7. DnShape'
  BY <1>1, <1>3, <1>4, <1>5 DEF DnShape
<1>8. Dialogue'
  <2>1. DOMAIN <<Msg("ok")>> = {1} /\ <<Msg("ok")>>[1].kind # "req"
    BY MessageFacts DEF Kind
  <2>2. Asked' = {} /\ ~Answering'
    BY <1>1, <1>3, <1>5, <2>1 DEF Asked, Answering
  <2> QED
    BY <1>1, <1>4, <2>2 DEF Dialogue, Quiet
<1> QED
  BY <1>1, <1>4, <1>5, <1>6, <1>7, <1>8, LinkOnly DEF LinkInv, ctlVars

LEMMA LtAttStep ==
  ASSUME IInv, LtAtt
  PROVE  IInv'
<1>1. /\ Types /\ LinkInv /\ link \in LinkRec /\ lt \in LtRec /\ ls \in LsRec
      /\ regs \subseteq Stacks /\ ring \in [Stacks -> {"idle", "asked", "ok", "err"}]
      /\ lt.pc = "loop" /\ link.t /\ link.l /\ UpKind = "att" /\ inst' = "on"
      /\ link' = [link EXCEPT !.up = Tail(@), !.dn = Append(@, Msg("ok"))]
      /\ UNCHANGED <<use_ltran, lt, starts, g_dfx_fd_cnt, regs, latency, ring, ls, ctlVars>>
  BY DEF IInv, Types, LtAtt
<1>2. inst = "mem" /\ link.up = <<Msg("att")>>
  BY <1>1, UpFacts
<1>3. ls.pc = "att" /\ link.dn = <<>>
  <2>1. <<Msg("att")>> # <<>>
    OBVIOUS
  <2> QED
    BY <1>1, <1>2, <2>1 DEF LinkInv, LinkShape, DnShape, Linked
<1>4. /\ link' \in LinkRec /\ link'.up = <<>> /\ link'.dn = <<Msg("ok")>> /\ link'.l /\ link'.t
      /\ link'.late = link.late
  <2>1. <<>> \in Seq(Message) /\ <<Msg("ok")>> \in Seq(Message)
    BY MessageFacts DEF Kind
  <2>2. Tail(link.up) = <<>> /\ Append(link.dn, Msg("ok")) = <<Msg("ok")>>
    BY <1>2, <1>3
  <2> QED
    BY <1>1, <2>1, <2>2 DEF LinkRec
<1>5. LinkShape'
  BY <1>1, <1>3, <1>4 DEF LinkInv, LinkShape, AllOf
<1>6. DnShape'
  <2>1. <<Msg("ok")>> # <<>> /\ <<Msg("ok")>>[1] = Msg("ok") /\ Tail(<<Msg("ok")>>) = <<>>
    OBVIOUS
  <2>2. AllOf(Tail(link.dn), "req")'
    BY <1>4, <2>1 DEF AllOf
  <2> QED
    BY <1>1, <1>3, <1>4, <2>1, <2>2 DEF DnShape
<1>7. Dialogue'
  <2>1. DOMAIN <<Msg("ok")>> = {1} /\ <<Msg("ok")>>[1].kind # "req"
    BY MessageFacts DEF Kind
  <2>2. Asked' = {} /\ ~Answering'
    BY <1>1, <1>3, <1>4, <2>1 DEF Asked, Answering
  <2> QED
    BY <1>1, <1>4, <2>2 DEF Dialogue, Quiet
<1> QED
  BY <1>1, <1>4, <1>5, <1>6, <1>7, LinkOnly DEF LinkInv, ctlVars

LEMMA LtRingStep ==
  ASSUME IInv, NEW k \in Stacks, LtRing(k)
  PROVE  IInv'
<1>1. /\ LinkInv /\ lt \in LtRec /\ ls \in LsRec /\ link \in LinkRec
      /\ inst \in {"none", "mem", "on"}
      /\ regs \subseteq Stacks /\ ring \in [Stacks -> {"idle", "asked", "ok", "err"}]
      /\ UNCHANGED <<use_ltran, lt, starts, g_dfx_fd_cnt, inst, latency, link, ls, ctl, chan>>
  BY DEF IInv, Types, LtRing, ctlVars
<1>2. regs' \subseteq Stacks /\ ring' \in [Stacks -> {"idle", "asked", "ok", "err"}]
  BY <1>1 DEF LtRing
<1>3. LinkInv'
  BY <1>1, LinkSame
<1> QED
  BY <1>1, <1>2, <1>3, LinkOnly

(* The process is logged out. *)
LEMMA LogoutStep ==
  ASSUME IInv, Logout, lt.pc \in {"loop", "late"}, lt' \in LtRec, lt'.pc = "loop",
         UNCHANGED <<use_ltran, starts, g_dfx_fd_cnt, latency, ring, ls, ctlVars>>
  PROVE  IInv'
<1>1. /\ Types /\ LinkInv /\ link \in LinkRec /\ ls \in LsRec
      /\ ring \in [Stacks -> {"idle", "asked", "ok", "err"}]
      /\ link' = ShutByLtran(link) /\ inst' = "none" /\ regs' = {}
  BY DEF IInv, Types, Logout
<1>2. link' \in LinkRec
  BY <1>1, ShutLinkFacts
<1>3. LinkInv'
  BY <1>1, LogoutLink
<1> QED
  BY <1>1, <1>2, <1>3, LinkOnly DEF ctlVars

LEMMA LtHupStep ==
  ASSUME IInv, LtHup
  PROVE  IInv'
<1>1. lt \in LtRec
  BY DEF IInv, Types
<1> QED
  BY <1>1, LogoutStep DEF LtHup

LEMMA LtLateEndStep ==
  ASSUME IInv, LtLateEnd
  PROVE  IInv'
  BY LogoutStep, Blank DEF LtLateEnd

LEMMA LtLateStep ==
  ASSUME IInv, LtLate
  PROVE  IInv'
<1>1. /\ Types /\ LinkInv /\ link \in LinkRec /\ ls \in LsRec
      /\ inst \in {"none", "mem", "on"}
      /\ regs \subseteq Stacks /\ ring \in [Stacks -> {"idle", "asked", "ok", "err"}]
      /\ lt.pc \in {"loop", "late"} /\ link.t /\ UpKind = "dfx" /\ lt' = LtAt("late")
      /\ link' = [link EXCEPT !.up = Tail(@)]
      /\ UNCHANGED <<use_ltran, starts, g_dfx_fd_cnt, inst, regs, latency, ring, ls, ctl, chan>>
  BY DEF IInv, Types, LtLate, instVars, ctlVars
<1>2. inst = "on" /\ link.up # <<>> /\ link.up \in Seq(Message) /\ AllOf(link.up, "dfx")
  BY <1>1, UpFacts DEF LinkInv, LinkShape
<1>3. PICK s \in Seq(Message) : s = Tail(link.up) /\ AllOf(s, "dfx")
  BY <1>2, TailFacts, AllOfFacts
<1>4. /\ link' \in LinkRec /\ link'.up = s /\ link'.dn = link.dn /\ link'.l = link.l
      /\ link'.t = link.t /\ link'.late = link.late
  BY <1>1, <1>3 DEF LinkRec
<1>5. lt' \in LtRec /\ lt'.pc = "late"
  BY <1>1, Blank
<1>6. link.late
  BY <1>1, <1>2 DEF LinkInv, Dialogue, Quiet
<1>7. LinkShape'
  <2>1. AllOf(link.up, "dfx")'
    BY <1>3, <1>4 DEF AllOf
  <2> QED
    BY <1>1, <1>2, <1>4, <1>5, <2>1 DEF LinkInv, LinkShape
<1>8. DnShape'
  <2>1. \A k : AllOf(link.dn, k)' <=> AllOf(link.dn, k)
    BY <1>4 DEF AllOf
  <2>2. AllOf(Tail(link.dn), "req")' <=> AllOf(Tail(link.dn), "req")
    BY <1>4 DEF AllOf
  <2> QED
    BY <1>1, <1>2, <1>4, <2>1, <2>2 DEF LinkInv, DnShape
<1>9. Dialogue'
  BY <1>4, <1>6 DEF Dialogue
<1> QED
  BY <1>1, <1>4, <1>5, <1>7, <1>8, <1>9, LinkOnly DEF LinkInv

-----------------------------------------------------------------------------
(* lstack: registration *)

(* What lstack finds next on the long connection. *)
LEMMA DnFacts ==
  ASSUME Types, LinkInv
  PROVE  /\ link.dn \in Seq(Message)
         /\ DnKind # None =>
              /\ link.dn # <<>> /\ DnKind = link.dn[1].kind /\ link.l
              /\ Head(link.dn) = link.dn[1] /\ link.dn[1] \in Message
         /\ DnKind = None => link.dn = <<>>
<1>1. link.dn \in Seq(Message)
  BY DEF Types, LinkRec
<1>2. link.dn # <<>> =>
        /\ DnKind = link.dn[1].kind /\ link.dn[1] \in Message /\ link.l
        /\ Head(link.dn) = link.dn[1]
  BY <1>1, TailFacts DEF DnKind, LinkInv, DnShape
<1>3. link.dn # <<>> => DnKind # None
  BY <1>2, NoneApart DEF Message
<1>4. link.dn = <<>> => DnKind = None
  BY DEF DnKind
<1> QED
  BY <1>1, <1>2, <1>3, <1>4

LEMMA LsConnectStep ==
  ASSUME IInv, LsConnect
  PROVE  IInv'
<1>1. /\ Types /\ LinkInv /\ link \in LinkRec /\ lt \in LtRec /\ ls \in LsRec
      /\ inst \in {"none", "mem", "on"} /\ regs \subseteq Stacks
      /\ ls.pc = "connect" /\ LtUp /\ ~link.t
      /\ link' = [NoLink EXCEPT !.l = TRUE, !.t = TRUE, !.up = <<Msg("mem")>>]
      /\ ls' = [ls EXCEPT !.pc = "mem"] /\ ring' = [k \in Stacks |-> "idle"]
      /\ UNCHANGED <<use_ltran, lt, starts, g_dfx_fd_cnt, inst, regs, latency, ctl, chan>>
  BY DEF IInv, Types, LsConnect, instVars, ctlVars
<1>2. /\ link' \in LinkRec /\ link'.l /\ link'.t /\ link'.up = <<Msg("mem")>>
      /\ link'.dn = <<>> /\ ~link'.late
  <2>1. <<Msg("mem")>> \in Seq(Message)
    BY MessageFacts DEF Kind
  <2> QED
    BY <1>1, <2>1, Blank DEF LinkRec
<1>3. ls' \in LsRec /\ ls'.pc = "mem"
  BY <1>1 DEF LsRec
<1>4. inst = "none" /\ use_ltran /\ lt.pc \notin {"down", "xfer"}
  BY <1>1 DEF LinkInv, LinkShape, LtUp
<1>5. LinkShape'
  BY <1>1, <1>2, <1>3, <1>4 DEF LinkShape, Linked
<1>6. DnShape'
  BY <1>1, <1>2, <1>3, <1>4 DEF DnShape
<1>7. Dialogue'
  <2>1. Asked' = {} /\ ~Answering'
    BY <1>2, <1>3 DEF Asked, Answering
  <2> QED
    BY <1>1, <1>4, <2>1 DEF Dialogue, Quiet
<1>8. ring' \in [Stacks -> {"idle", "asked", "ok", "err"}]
  BY <1>1
<1> QED
  BY <1>1, <1>2, <1>3, <1>5, <1>6, <1>7, <1>8, LinkOnly DEF LinkInv

LEMMA LsMemOkStep ==
  ASSUME IInv, LsMemOk
  PROVE  IInv'
<1>1. /\ Types /\ LinkInv /\ link \in LinkRec /\ lt \in LtRec /\ ls \in LsRec
      /\ inst \in {"none", "mem", "on"} /\ regs \subseteq Stacks
      /\ ring \in [Stacks -> {"idle", "asked", "ok", "err"}]
      /\ ls.pc = "mem" /\ DnKind = "ok"
      /\ link' = [link EXCEPT !.dn = Tail(@),
                    !.up = IF link.t THEN Append(@, Msg("att")) ELSE @]
      /\ ls' = [ls EXCEPT !.pc = "att"]
      /\ UNCHANGED <<use_ltran, lt, starts, g_dfx_fd_cnt, inst, regs, latency, ring, ctl, chan>>
  BY DEF IInv, Types, LsMemOk, instVars, ctlVars
<1>2. "ok" # None
  BY NoneApart DEF Kind
<1>3. link.dn = <<Msg("ok")>> /\ link.l
  BY <1>1, <1>2, DnFacts DEF LinkInv, DnShape
<1>4. /\ link.t => inst = "mem"
      /\ link.up = <<>>
  <2>1. <<Msg("ok")>> # <<>>
    OBVIOUS
  <2> QED
    BY <1>1, <1>3, <2>1 DEF LinkInv, LinkShape, DnShape
<1>5. PICK s \in Seq(Message) : s = IF link.t THEN <<Msg("att")>> ELSE <<>>
  <2>1. <<Msg("att")>> \in Seq(Message) /\ <<>> \in Seq(Message)
    BY MessageFacts DEF Kind
  <2>2. CASE link.t
    BY <2>1, <2>2
  <2>3. CASE ~link.t
    BY <2>1, <2>3
  <2> QED
    BY <2>2, <2>3
<1>6. /\ link' \in LinkRec /\ link'.up = s /\ link'.dn = <<>> /\ link'.l
      /\ link'.t = link.t /\ link'.late = link.late
  <2>1. Tail(link.dn) = <<>> /\ <<>> \in Seq(Message)
    BY <1>3
  <2>2. s = IF link.t THEN Append(link.up, Msg("att")) ELSE link.up
    BY <1>4, <1>5
  <2>3. link' = [link EXCEPT !.dn = <<>>, !.up = s]
    BY <1>1, <2>1, <2>2 DEF LinkRec
  <2> QED
    BY <1>1, <1>3, <2>1, <2>3 DEF LinkRec
<1>7. ls' \in LsRec /\ ls'.pc = "att"
  BY <1>1 DEF LsRec
<1>8. use_ltran /\ inst # "on" /\ lt.pc # "xfer"
  BY <1>1, <1>4 DEF LinkInv, LinkShape, DnShape
<1>9. LinkShape'
  BY <1>1, <1>4, <1>5, <1>6, <1>7, <1>8 DEF LinkInv, LinkShape, Linked
<1>10. DnShape'
  BY <1>1, <1>4, <1>5, <1>6, <1>7, <1>8 DEF LinkInv, LinkShape, DnShape
<1>11. Dialogue'
  <2>1. Asked' = {} /\ ~Answering'
    BY <1>6, <1>7 DEF Asked, Answering
  <2> QED
    BY <1>1, <1>8, <2>1 DEF Dialogue, Quiet
<1> QED
  BY <1>1, <1>6, <1>7, <1>9, <1>10, <1>11, LinkOnly DEF LinkInv

LEMMA LsAttOkStep ==
  ASSUME IInv, LsAttOk
  PROVE  IInv'
<1>1. /\ Types /\ LinkInv /\ link \in LinkRec /\ lt \in LtRec /\ ls \in LsRec
      /\ inst \in {"none", "mem", "on"} /\ regs \subseteq Stacks
      /\ ring \in [Stacks -> {"idle", "asked", "ok", "err"}]
      /\ ls.pc = "att" /\ DnKind = "ok"
      /\ link' = [link EXCEPT !.dn = Tail(@)]
      /\ ls' = [ls EXCEPT !.pc = IF ls.first THEN "init" ELSE "thr"]
      /\ UNCHANGED <<use_ltran, lt, starts, g_dfx_fd_cnt, inst, regs, latency, ring, ctl, chan>>
  BY DEF IInv, Types, LsAttOk, instVars, ctlVars
<1>2. "ok" # None
  BY NoneApart DEF Kind
<1>3. link.dn # <<>> /\ link.dn \in Seq(Message) /\ link.l /\ link.dn[1].kind = "ok"
  BY <1>1, <1>2, DnFacts
<1>4. PICK s \in Seq(Message) :
        /\ s = Tail(link.dn) /\ AllOf(s, "req") /\ Len(s) = Len(link.dn) - 1
        /\ Len(link.dn) \in Nat \ {0} /\ DOMAIN link.dn = 1..Len(link.dn)
        /\ DOMAIN s = 1..(Len(link.dn) - 1)
        /\ \A i \in 1..(Len(link.dn) - 1) : s[i] = link.dn[i + 1]
  <2>1. AllOf(Tail(link.dn), "req")
    BY <1>1, <1>3 DEF LinkInv, DnShape
  <2>2. /\ Tail(link.dn) \in Seq(Message) /\ Len(Tail(link.dn)) = Len(link.dn) - 1
        /\ Len(link.dn) \in Nat \ {0} /\ DOMAIN link.dn = 1..Len(link.dn)
        /\ DOMAIN Tail(link.dn) = 1..(Len(link.dn) - 1)
        /\ \A i \in 1..(Len(link.dn) - 1) : Tail(link.dn)[i] = link.dn[i + 1]
    BY <1>3, TailFacts
  <2> QED
    BY <2>1, <2>2
<1>5. /\ link' \in LinkRec /\ link'.dn = s /\ link'.up = link.up /\ link'.l = link.l
      /\ link'.t = link.t /\ link'.late = link.late
  BY <1>1, <1>4 DEF LinkRec
<1>6. /\ ls' \in LsRec /\ ls'.pc = (IF ls.first THEN "init" ELSE "thr")
      /\ ls'.first = ls.first /\ ls'.to = ls.to /\ ls'.id = ls.id
  <2>1. PICK p \in {"init", "thr"} : p = (IF ls.first THEN "init" ELSE "thr")
    OBVIOUS
  <2> QED
    BY <1>1, <2>1 DEF LsRec
<1>7. use_ltran /\ (link.t => inst = "on")
  BY <1>1, <1>3 DEF LinkInv, LinkShape, DnShape
<1>8. LinkShape'
  <2>1. AllOf(link.up, "dfx")' <=> AllOf(link.up, "dfx")
    BY <1>5 DEF AllOf
  <2> QED
    BY <1>1, <1>3, <1>5, <1>6, <1>7, <2>1 DEF LinkInv, LinkShape, Linked
<1>9. DnShape'
  <2>1. AllOf(link.dn, "req")'
    BY <1>4, <1>5 DEF AllOf
  <2> QED
    BY <1>1, <1>3, <1>5, <1>6, <1>7, <2>1 DEF DnShape
<1>10. Dialogue'
  <2>1. \A k \in Asked' : k + 1 \in Asked /\ s[k] = link.dn[k + 1] /\ k \in Nat
    BY <1>4, <1>5 DEF Asked
  <2>2. ~Answering /\ ~Answering'
    BY <1>1, <1>6 DEF Answering
  <2>3. SUFFICES ASSUME ~link.late PROVE Dialogue'
    BY <1>5 DEF Dialogue
  <2>4. CASE lt.pc # "xfer"
    <3>1. Asked = {} /\ (inst = "on" => link.up = <<>>)
      BY <1>1, <2>3, <2>4 DEF LinkInv, Dialogue, Quiet
    <3> QED
      BY <1>1, <1>5, <2>1, <2>2, <2>4, <3>1 DEF Dialogue, Quiet
  <2>5. CASE lt.pc = "xfer"
    <3>1. /\ \A k \in Asked : link.dn[k].id = lt.ch /\ Asked = {k} /\ link.up = <<>>
          /\ \A k \in DOMAIN link.up :
               link.up[k].id = lt.ch /\ (link.up[k].eof => k = Len(link.up))
      BY <1>1, <2>3, <2>5 DEF LinkInv, Dialogue
    <3>2. ASSUME NEW k \in Asked'
          PROVE  /\ link'.dn[k].id = lt.ch /\ Asked' = {k} /\ link'.up = <<>>
      <4>1. k + 1 \in Asked /\ Asked = {k + 1} /\ link'.dn[k] = link.dn[k + 1]
        BY <1>5, <2>1, <3>1, <3>2
      <4>2. ASSUME NEW j \in Asked' PROVE j = k
        <5>1. j + 1 = k + 1 /\ j \in Nat /\ k \in Nat
          BY <2>1, <4>1, <4>2
        <5> QED
          BY <5>1
      <4> QED
        BY <1>5, <3>1, <3>2, <4>1, <4>2
    <3> QED
      BY <1>1, <1>5, <2>2, <2>5, <3>1, <3>2 DEF Dialogue
  <2> QED
    BY <2>4, <2>5
<1> QED
  BY <1>1, <1>5, <1>6, <1>8, <1>9, <1>10, LinkOnly DEF LinkInv

(* The long connection is lost while registering. *)
LEMMA LoseStep ==
  ASSUME IInv, LsLose, ls.pc \in {"mem", "att", "init", "thr"},
         UNCHANGED <<use_ltran, lt, starts, g_dfx_fd_cnt, instVars, latency, ctlVars>>
  PROVE  IInv'
<1>1. /\ Types /\ LinkInv /\ link \in LinkRec /\ lt \in LtRec /\ ls \in LsRec
      /\ inst \in {"none", "mem", "on"} /\ regs \subseteq Stacks
      /\ ring \in [Stacks -> {"idle", "asked", "ok", "err"}]
      /\ link' = ShutByLstack(link)
      /\ ls' = LsAt(IF ls.first THEN "down" ELSE "connect", ls.first)
      /\ UNCHANGED <<inst, regs, ctl, chan>>
  BY DEF IInv, Types, LsLose, instVars, ctlVars
<1>2. /\ ls' \in LsRec /\ ls'.pc \in {"connect", "down"}
      /\ ls'.pc = "connect" => ~ls.first
  <2>1. ls.first \in BOOLEAN
    BY <1>1 DEF LsRec
  <2> QED
    BY <1>1, <2>1, Blank
<1>3. ls'.pc = "connect" => use_ltran
  BY <1>1, <1>2 DEF LinkInv, LinkShape
<1>4. LinkInv'
  BY <1>1, <1>2, <1>3, LoseLink
<1>5. link' \in LinkRec
  BY <1>1, ShutLinkFacts
<1>6. ring' \in [Stacks -> {"idle", "asked", "ok", "err"}]
  BY <1>1 DEF LsLose
<1> QED
  BY <1>1, <1>2, <1>4, <1>5, <1>6, LinkOnly

LEMMA LsRefusedStep ==
  ASSUME IInv, LsRefused
  PROVE  IInv'
  BY LoseStep DEF LsRefused

LEMMA LsRingErrStep ==
  ASSUME IInv, LsRingErr
  PROVE  IInv'
  BY LoseStep DEF LsRingErr

LEMMA LsReadyStep ==
  ASSUME IInv, LsReady
  PROVE  IInv'
<1>1. /\ Types /\ LinkInv /\ link \in LinkRec /\ lt \in LtRec /\ ls \in LsRec
      /\ inst \in {"none", "mem", "on"} /\ regs \subseteq Stacks
      /\ ring \in [Stacks -> {"idle", "asked", "ok", "err"}]
      /\ ls.pc \in {"init", "thr"} /\ ls' = LsAt("ready", FALSE)
      /\ UNCHANGED <<use_ltran, lt, starts, g_dfx_fd_cnt, inst, regs, latency, link, ring,
                     ctl, chan>>
  BY DEF IInv, Types, LsReady, instVars, ctlVars
<1>2. ls' \in LsRec /\ ls'.pc = "ready"
  BY <1>1, Blank
<1>3. LinkShape'
  BY <1>1, <1>2 DEF LinkInv, LinkShape, Linked, AllOf
<1>4. DnShape'
  BY <1>1, <1>2 DEF LinkInv, DnShape, AllOf
<1>5. Dialogue'
  <2>1. Asked' = Asked /\ ~Answering /\ ~Answering'
    BY <1>1, <1>2 DEF Asked, Answering
  <2> QED
    BY <1>1, <2>1 DEF LinkInv, Dialogue, Quiet
<1> QED
  BY <1>1, <1>2, <1>3, <1>4, <1>5, LinkOnly DEF LinkInv

LEMMA LsAskStep ==
  ASSUME IInv, NEW k \in Stacks, LsAsk(k)
  PROVE  IInv'
<1>1. /\ LinkInv /\ lt \in LtRec /\ ls \in LsRec /\ link \in LinkRec
      /\ inst \in {"none", "mem", "on"}
      /\ regs \subseteq Stacks /\ ring \in [Stacks -> {"idle", "asked", "ok", "err"}]
      /\ UNCHANGED <<use_ltran, lt, starts, g_dfx_fd_cnt, inst, regs, latency, link, ls, ctl, chan>>
  BY DEF IInv, Types, LsAsk, ctlVars, instVars
<1>2. ring' \in [Stacks -> {"idle", "asked", "ok", "err"}]
  BY <1>1 DEF LsAsk
<1>3. LinkInv'
  BY <1>1, LinkSame
<1> QED
  BY <1>1, <1>2, <1>3, LinkOnly

LEMMA SrvListenStep ==
  ASSUME IInv, SrvListen
  PROVE  IInv'
<1>1. /\ Types /\ LinkInv /\ link \in LinkRec /\ lt \in LtRec /\ ls \in LsRec
      /\ inst \in {"none", "mem", "on"} /\ regs \subseteq Stacks
      /\ ring \in [Stacks -> {"idle", "asked", "ok", "err"}]
      /\ ls.pc = "boot" /\ ls' = [ls EXCEPT !.pc = "init"]
      /\ UNCHANGED <<use_ltran, lt, starts, g_dfx_fd_cnt, inst, regs, latency, link, ring,
                     ctl, chan>>
  BY DEF IInv, Types, SrvListen, instVars, ctlVars
<1>2. ls' \in LsRec /\ ls'.pc = "init" /\ ls'.first = ls.first
  BY <1>1 DEF LsRec
<1>3. ~use_ltran /\ ~link.l /\ ~link.t /\ link.dn = <<>>
  BY <1>1 DEF LinkInv, LinkShape, DnShape
<1>4. LinkShape'
  BY <1>1, <1>2, <1>3 DEF LinkInv, LinkShape, Linked, AllOf
<1>5. DnShape'
  BY <1>1, <1>2, <1>3 DEF DnShape, AllOf
<1>6. Dialogue'
  <2>1. Asked' = Asked /\ ~Answering /\ ~Answering'
    BY <1>1, <1>2 DEF Asked, Answering
  <2> QED
    BY <1>1, <2>1 DEF LinkInv, Dialogue, Quiet
<1> QED
  BY <1>1, <1>2, <1>4, <1>5, <1>6, LinkOnly DEF LinkInv

-----------------------------------------------------------------------------
(* lstack: requests *)

LEMMA LsHupStep ==
  ASSUME IInv, LsHup
  PROVE  IInv'
<1>1. /\ Types /\ LinkInv /\ link \in LinkRec /\ lt \in LtRec
      /\ inst \in {"none", "mem", "on"} /\ regs \subseteq Stacks
      /\ ring \in [Stacks -> {"idle", "asked", "ok", "err"}]
      /\ link.l /\ link' = ShutByLstack(link) /\ ls' = LsAt("connect", FALSE)
      /\ UNCHANGED <<use_ltran, lt, starts, g_dfx_fd_cnt, inst, regs, latency, ring, ctl, chan>>
  BY DEF IInv, Types, LsHup, instVars, ctlVars
<1>2. ls' \in LsRec /\ ls'.pc = "connect"
  BY <1>1, Blank
<1>3. use_ltran
  BY <1>1 DEF LinkInv, LinkShape
<1>4. LinkInv'
  BY <1>1, <1>2, <1>3, LoseLink
<1>5. link' \in LinkRec
  BY <1>1, ShutLinkFacts
<1> QED
  BY <1>1, <1>2, <1>4, <1>5, LinkOnly

(* The request is there, so ltran waits and nothing comes up. *)
LEMMA LsRequestStep ==
  ASSUME IInv, LsRequest
  PROVE  IInv'
<1>1. /\ Types /\ LinkInv /\ link \in LinkRec /\ lt \in LtRec /\ ls \in LsRec
      /\ inst \in {"none", "mem", "on"} /\ regs \subseteq Stacks
      /\ ring \in [Stacks -> {"idle", "asked", "ok", "err"}]
      /\ ls.pc = "ready" /\ link.t /\ DnKind = "req"
      /\ UNCHANGED <<use_ltran, lt, starts, g_dfx_fd_cnt, inst, regs, latency, ring, ctl, chan>>
  BY DEF IInv, Types, LsRequest, instVars, ctlVars
<1>2. "req" # None
  BY NoneApart DEF Kind
<1>3. PICK q \in Message : q = link.dn[1] /\ q = Head(link.dn) /\ q.kind = "req"
  BY <1>1, <1>2, DnFacts
<1>4. /\ link.dn # <<>> /\ link.dn \in Seq(Message) /\ link.l /\ AllOf(link.dn, "req")
      /\ inst = "on" /\ use_ltran
  BY <1>1, <1>2, DnFacts DEF LinkInv, LinkShape, DnShape
<1>5. PICK s \in Seq(Message) :
        /\ s = Tail(link.dn) /\ AllOf(s, "req") /\ 1 \in DOMAIN link.dn
        /\ DOMAIN link.dn = 1..Len(link.dn) /\ Len(link.dn) \in Nat \ {0}
        /\ DOMAIN s = 1..(Len(link.dn) - 1)
        /\ \A i \in 1..(Len(link.dn) - 1) : s[i] = link.dn[i + 1]
  <2>1. AllOf(Tail(link.dn), "req")
    BY <1>4, AllOfFacts
  <2>2. /\ Tail(link.dn) \in Seq(Message) /\ 1 \in DOMAIN link.dn
        /\ DOMAIN link.dn = 1..Len(link.dn) /\ Len(link.dn) \in Nat \ {0}
        /\ DOMAIN Tail(link.dn) = 1..(Len(link.dn) - 1)
        /\ \A i \in 1..(Len(link.dn) - 1) : Tail(link.dn)[i] = link.dn[i + 1]
    BY <1>4, TailFacts
  <2> QED
    BY <2>1, <2>2
<1>6. /\ link' \in LinkRec /\ link'.dn = s /\ link'.up = link.up /\ link'.l = link.l
      /\ link'.t = link.t /\ link'.late = link.late
  <2>1. link' = [link EXCEPT !.dn = s]
    BY <1>5 DEF LsRequest
  <2> QED
    BY <1>1, <2>1 DEF LinkRec
<1>7. /\ ls' \in LsRec /\ ls'.pc = "answer" /\ ls'.to = "link" /\ ls'.i = 1
      /\ ls'.id = q.id
  <2>1. ls' = [ls EXCEPT !.pc = "answer", !.mode = q.mode, !.id = q.id,
                         !.to = "link", !.i = 1]
    BY <1>3 DEF LsRequest
  <2>2. q.mode \in DOMAIN RecvKind \cup {None} /\ q.id \in Conn \cup {None}
        /\ 1 \in 0..StackNum
    BY <1>3, DfxAssumption DEF Message
  <2> QED
    BY <1>1, <2>1, <2>2 DEF LsRec
<1>8. LinkShape'
  <2>1. AllOf(link.up, "dfx")' <=> AllOf(link.up, "dfx")
    BY <1>6 DEF AllOf
  <2>2. 1 \in 1..StackNum
    BY DfxAssumption
  <2> QED
    BY <1>1, <1>4, <1>6, <1>7, <2>1, <2>2 DEF LinkInv, LinkShape, Linked
<1>9. DnShape'
  <2>1. AllOf(link.dn, "req")'
    BY <1>5, <1>6 DEF AllOf
  <2> QED
    BY <1>1, <1>4, <1>6, <1>7, <2>1 DEF DnShape
<1>10. Dialogue'
  <2>1. SUFFICES ASSUME ~link.late PROVE Dialogue'
    BY <1>6 DEF Dialogue
  <2>2. 1 \in Asked
    BY <1>3, <1>5 DEF Asked
  <2>3. lt.pc = "xfer"
    BY <1>1, <2>1, <2>2 DEF LinkInv, Dialogue, Quiet
  <2>4. q.id = lt.ch /\ Asked = {1} /\ link.up = <<>>
    BY <1>1, <1>3, <2>1, <2>2, <2>3 DEF LinkInv, Dialogue
  <2>5. Asked' = {}
    <3>1. ASSUME NEW k \in Asked' PROVE FALSE
      <4>1. k \in Nat /\ k # 0 /\ k + 1 \in DOMAIN link.dn /\ link.dn[k + 1].kind = "req"
        BY <1>5, <1>6, <3>1 DEF Asked
      <4>2. k + 1 = 1
        BY <2>4, <4>1 DEF Asked
      <4> QED
        BY <4>1, <4>2
    <3> QED
      BY <3>1
  <2>6. DOMAIN link'.up = {}
    BY <1>6, <2>4
  <2> QED
    BY <1>1, <1>7, <2>3, <2>4, <2>5, <2>6 DEF Dialogue
<1> QED
  BY <1>1, <1>6, <1>7, <1>8, <1>9, <1>10, LinkOnly DEF LinkInv

(* After a frame there is another one to write, or lstack is ready.         *)
Last == ls.mode \in OneFrame \/ ls.i = StackNum
LEMMA AnswerNext ==
  ASSUME Types, LinkInv, LsAnswer
  PROVE  /\ ls' \in LsRec
         /\ \/ ls'.pc = "ready"
            \/ /\ ls'.pc = "answer" /\ ls'.to = ls.to /\ ls'.id = ls.id
               /\ ls'.i \in 1..StackNum /\ ~Last
<1>1. ls \in LsRec /\ ls.pc = "answer" /\ ls.i \in 1..StackNum
  BY DEF Types, LsAnswer, LinkInv, LinkShape
<1>2. \/ ls' = LsAt("ready", FALSE)
      \/ ~Last /\ ls' = [ls EXCEPT !.i = @ + 1]
  <2>1. ls.pc = "answer" /\ (Last => ls' = LsAt("ready", FALSE))
    BY DEF LsAnswer, Last
  <2>2. ~Last => \/ ls' = LsAt("ready", FALSE)
                 \/ ls' = [ls EXCEPT !.i = @ + 1]
    BY DEF LsAnswer, Last
  <2> QED
    BY <2>1, <2>2
<1>3. CASE ls' = LsAt("ready", FALSE)
  BY <1>3, Blank
<1>4. CASE ~Last /\ ls' = [ls EXCEPT !.i = @ + 1]
  <2>1. ls.i + 1 \in 1..StackNum /\ ls.i + 1 \in 0..StackNum
    BY <1>1, <1>4, DfxAssumption DEF Last
  <2> QED
    BY <1>1, <1>4, <2>1 DEF LsRec
<1> QED
  BY <1>2, <1>3, <1>4

(* The frame is for the request that ltran waits for, and the last one      *)
(* says so.                                                                 *)
LEMMA AnswerLinkStep ==
  ASSUME IInv, LsAnswer, use_ltran
  PROVE  IInv'
<1>1. /\ Types /\ LinkInv /\ link \in LinkRec /\ lt \in LtRec /\ ls \in LsRec
      /\ inst \in {"none", "mem", "on"} /\ regs \subseteq Stacks
      /\ ring \in [Stacks -> {"idle", "asked", "ok", "err"}]
      /\ chan \in [Conn -> ChanRec] /\ latency \in [lt : BOOLEAN, ls : BOOLEAN]
      /\ ls.pc = "answer" /\ ls.to = "link" /\ Answering
      /\ UNCHANGED <<use_ltran, lt, starts, g_dfx_fd_cnt, inst, regs, ring, ctl>>
  BY DEF IInv, Types, LsAnswer, instVars, LinkInv, LinkShape, Answering
<1>2. /\ ls' \in LsRec
      /\ \/ ls'.pc = "ready"
         \/ /\ ls'.pc = "answer" /\ ls'.to = ls.to /\ ls'.id = ls.id
            /\ ls'.i \in 1..StackNum /\ ~Last
  BY <1>1, AnswerNext
<1>3. chan' = chan
  BY <1>1 DEF LsAnswer
<1>4. PICK f \in Message : /\ f = StackFrame(Last)
                           /\ f.kind = "dfx" /\ f.id = ls.id /\ (f.eof <=> Last)
  <2>1. PICK last \in BOOLEAN : last = Last
    BY DEF Last
  <2>2. ls.id \in Conn \cup {None}
    BY <1>1 DEF LsRec
  <2> QED
    BY <2>1, <2>2, MessageFacts DEF StackFrame, Kind
<1>5. link' = IF link.t THEN [link EXCEPT !.up = Append(@, f)] ELSE link
  BY <1>1, <1>4 DEF LsAnswer, Last
<1>6. latency' \in [lt : BOOLEAN, ls : BOOLEAN]
  BY <1>1 DEF LsAnswer, SetLatency
<1>7. link.up \in Seq(Message) /\ link.l /\ (link.t => inst = "on") /\ AllOf(link.dn, "req")
  BY <1>1 DEF LinkRec, LinkInv, LinkShape, DnShape, Linked
<1>8. PICK up \in Seq(Message) :
        /\ up = Append(link.up, f) /\ DOMAIN up = 1..(Len(link.up) + 1)
        /\ Len(link.up) \in Nat /\ DOMAIN link.up = 1..Len(link.up)
        /\ Len(up) = Len(link.up) + 1 /\ up[Len(link.up) + 1] = f
        /\ \A k \in 1..Len(link.up) : up[k] = link.up[k]
  <2>1. /\ Append(link.up, f) \in Seq(Message)
        /\ DOMAIN Append(link.up, f) = 1..(Len(link.up) + 1)
        /\ Len(link.up) \in Nat /\ DOMAIN link.up = 1..Len(link.up)
        /\ Len(Append(link.up, f)) = Len(link.up) + 1
        /\ Append(link.up, f)[Len(link.up) + 1] = f
        /\ \A k \in 1..Len(link.up) : Append(link.up, f)[k] = link.up[k]
    BY <1>7, AppendFacts
  <2> QED
    BY <2>1
<1>9. /\ link' \in LinkRec /\ link'.dn = link.dn /\ link'.l = link.l /\ link'.t = link.t
      /\ link'.late = link.late /\ (link.t => link'.up = up)
      /\ (~link.t => link'.up = link.up)
  BY <1>1, <1>5, <1>8 DEF LinkRec
<1>10. LinkShape'
  <2>1. link.t => AllOf(link.up, "dfx")'
    <3>1. link.t => AllOf(link.up, "dfx")
      BY <1>1, <1>7 DEF LinkInv, LinkShape
    <3>2. link.t => AllOf(up, "dfx")
      BY <1>4, <1>7, <1>8, <3>1, AllOfFacts
    <3> QED
      BY <1>9, <3>2 DEF AllOf
  <2>2. ls'.pc \in Linked /\ (ls'.pc = "answer" => ls'.i \in 1..StackNum /\ ls'.to = "link")
    BY <1>1, <1>2 DEF Linked
  <2> QED
    BY <1>1, <1>2, <1>7, <1>9, <2>1, <2>2 DEF LinkInv, LinkShape
<1>11. DnShape'
  <2>1. AllOf(link.dn, "req")'
    BY <1>7, <1>9 DEF AllOf
  <2> QED
    BY <1>1, <1>2, <1>7, <1>9, <2>1 DEF DnShape
<1>12. Dialogue'
  <2>1. SUFFICES ASSUME ~link.late PROVE Dialogue'
    BY <1>9 DEF Dialogue
  <2>2. lt.pc = "xfer" /\ inst = "on" /\ link.t
    BY <1>1, <2>1 DEF LinkInv, LinkShape, Dialogue, Quiet
  <2>3. /\ ls.id = lt.ch /\ Asked = {}
        /\ \A k \in DOMAIN link.up : ~link.up[k].eof /\ link.up[k].id = lt.ch
    BY <1>1, <2>1, <2>2 DEF LinkInv, Dialogue
  <2>4. Asked' = {}
    BY <1>9, <2>3 DEF Asked
  <2>5. ASSUME NEW k \in DOMAIN up
        PROVE  up[k].id = lt.ch /\ (up[k].eof => k = Len(up) /\ Last)
    <3>1. CASE k \in 1..Len(link.up)
      BY <1>8, <2>3, <3>1
    <3>2. CASE k = Len(link.up) + 1
      BY <1>4, <1>8, <2>3, <3>2
    <3> QED
      BY <1>8, <3>1, <3>2
  <2>6. Answering' => ls'.id = lt.ch /\ ~Last
    BY <1>2, <2>3 DEF Answering
  <2> QED
    BY <1>1, <1>9, <2>2, <2>4, <2>5, <2>6 DEF Dialogue
<1>13. ChanInv'
  BY <1>1, <1>3, ChanSame DEF IInv
<1>14. Counted'
  <2>1. Opened' = Opened
    BY <1>3 DEF Opened
  <2> QED
    BY <1>1, <2>1, CountSame DEF IInv
<1>15. Types'
  BY <1>1, <1>2, <1>3, <1>6, <1>9 DEF Types
<1> QED
  BY <1>10, <1>11, <1>12, <1>13, <1>14, <1>15 DEF IInv, LinkInv

(* Without ltran there is no long connection. *)
LEMMA AloneLink ==
  ASSUME LinkInv, ~use_ltran, UNCHANGED <<use_ltran, lt, inst, link>>,
         \/ ls'.pc = "ready"
         \/ /\ ls'.pc = "answer" /\ ls'.to = "chan" /\ ls'.id \in Conn
            /\ ls'.i \in 1..StackNum
  PROVE  LinkInv'
<1>1. ~link.l /\ link.dn = <<>> /\ ~link.t /\ lt.pc = "down" /\ inst = "none"
  BY DEF LinkInv, LinkShape, DnShape
<1>2. LinkShape'
  BY <1>1 DEF LinkInv, LinkShape, Linked
<1>3. DnShape'
  BY <1>1 DEF DnShape, AllOf
<1>4. Dialogue'
  <2>1. Asked' = {} /\ ~Answering'
    BY <1>1 DEF Asked, Answering
  <2> QED
    BY <1>1, <2>1 DEF Dialogue, Quiet
<1> QED
  BY <1>2, <1>3, <1>4 DEF LinkInv

(* Without ltran the frame goes to gazellectl itself.                       *)
LEMMA AnswerChanStep ==
  ASSUME IInv, LsAnswer, ~use_ltran
  PROVE  IInv'
<1>1. /\ Types /\ LinkInv /\ ChanInv /\ Counted /\ link \in LinkRec /\ lt \in LtRec
      /\ ls \in LsRec /\ inst \in {"none", "mem", "on"} /\ regs \subseteq Stacks
      /\ chan \in [Conn -> ChanRec] /\ latency \in [lt : BOOLEAN, ls : BOOLEAN]
      /\ ls.pc = "answer" /\ ls.to = "chan" /\ lt.pc = "down" /\ ~link.l
      /\ UNCHANGED <<use_ltran, lt, starts, g_dfx_fd_cnt, inst, regs, ring, ctl>>
  BY DEF IInv, Types, LsAnswer, instVars, LinkInv, LinkShape
<1>2. /\ ls' \in LsRec
      /\ \/ ls'.pc = "ready"
         \/ /\ ls'.pc = "answer" /\ ls'.to = ls.to /\ ls'.id = ls.id
            /\ ls'.i \in 1..StackNum
  BY <1>1, AnswerNext
<1>3. PICK h \in Conn : h = ls.id
  BY <1>1 DEF LinkInv, LinkShape
<1>4. /\ link' = link /\ latency' \in [lt : BOOLEAN, ls : BOOLEAN]
  BY <1>1 DEF LsAnswer, SetLatency
<1>5. LinkInv'
  BY <1>1, <1>2, <1>3, <1>4, AloneLink
<1>6. PICK f \in Message : f = StackFrame(Last) /\ f.kind = "dfx"
  <2>1. PICK last \in BOOLEAN : last = Last
    BY DEF Last
  <2> QED
    BY <1>3, <2>1, MessageFacts DEF StackFrame, Kind
<1>7. chan' = chan \/ chan' = [chan EXCEPT ![h] = Write(@, <<f>>)]
  BY <1>3, <1>6 DEF LsAnswer, Last
<1>8. ChanInv' /\ chan' \in [Conn -> ChanRec] /\ Opened' = Opened
  <2>1. CASE chan' = chan
    BY <1>1, <2>1, ChanSame DEF Opened
  <2>2. CASE chan' = [chan EXCEPT ![h] = Write(@, <<f>>)]
    <3>1. PICK r : r = Write(chan[h], <<f>>)
      OBVIOUS
    <3>2. chan[h] \in ChanRec /\ ChanShape(h) /\ <<f>> \in Seq(Message)
      BY <1>1 DEF ChanInv
    <3>3. /\ r \in ChanRec /\ r.srv = chan[h].srv /\ r.cli = chan[h].cli
          /\ r.path = chan[h].path /\ r.mode = chan[h].mode
          /\ r.out = IF chan[h].cli THEN chan[h].out \o <<f>> ELSE chan[h].out
      BY <3>1, <3>2, WriteFacts
    <3>4. chan' = [chan EXCEPT ![h] = r]
      BY <2>2, <3>1
    <3>5. /\ chan' \in [Conn -> ChanRec] /\ chan'[h] = r
          /\ \A g \in Conn : g # h => chan'[g] = chan[g]
          /\ \A g : ~Serving(g) /\ ~Serving(g)'
      BY <1>1, <3>3, <3>4 DEF Serving
    <3>6. Kept(h)
      <4>1. r.path # "dfx" /\ chan[h].path # "dfx"
        BY <1>1, <3>2, <3>3 DEF ChanShape
      <4>2. ~chan[h].cli => r = chan[h]
        BY <3>1 DEF Write
      <4> QED
        BY <3>3, <3>5, <4>1, <4>2, Blank DEF Kept
    <3>7. ChanShape(h)'
      <4>1. chan[h].out \in Seq(Message) /\ chan[h].path # "dfx"
        BY <1>1, <3>2 DEF ChanRec, ChanShape
      <4>2. AllOf(chan[h].out, "dfx") => AllOf(chan[h].out \o <<f>>, "dfx")
        <5>1. PICK o \in Seq(Message) : o = chan[h].out
          BY <4>1
        <5>2. o \o <<f>> = Append(o, f)
          BY WriteOne
        <5>3. AllOf(o, "dfx") => AllOf(Append(o, f), "dfx")
          BY <1>6, AllOfFacts
        <5> QED
          BY <5>1, <5>2, <5>3
      <4>3. r.path = "reg" => AllOf(r.out, "dfx")
        BY <3>2, <3>3, <4>2 DEF ChanShape
      <4> QED
        BY <1>1, <3>2, <3>3, <3>5, <4>1, <4>3 DEF ChanShape, AllOf
    <3>8. LtShape'
      BY <1>1 DEF LtShape
    <3>9. ChanInv'
      BY <1>1, <3>5, <3>6, <3>7, <3>8, OneStep
    <3>10. Opened' = Opened
      BY <3>3, <3>5 DEF Opened
    <3> QED
      BY <3>5, <3>9, <3>10
  <2> QED
    BY <1>7, <2>1, <2>2
<1>9. Counted'
  BY <1>1, <1>8, CountSame
<1>10. Types'
  BY <1>1, <1>2, <1>4, <1>8 DEF Types
<1> QED
  BY <1>5, <1>8, <1>9, <1>10 DEF IInv

LEMMA LsAnswerStep ==
  ASSUME IInv, LsAnswer
  PROVE  IInv'
  BY AnswerLinkStep, AnswerChanStep

(* What the process does to connections when there is no ltran.             *)
LEMMA AloneStep ==
  ASSUME IInv, ~use_ltran, LinkInv', ChanInv', chan' \in [Conn -> ChanRec], ls' \in LsRec,
         UNCHANGED <<use_ltran, lt, starts, g_dfx_fd_cnt, inst, regs, latency, link, ring, ctl>>
  PROVE  IInv'
<1>1. Types /\ ChanInv /\ Counted
  BY DEF IInv
<1>2. Opened = {} /\ Opened' = {}
  BY <1>1 DEF ChanInv, ChanShape, Opened
<1>3. Counted'
  BY <1>1, <1>2, CountSame
<1>4. Types'
  BY <1>1 DEF Types
<1> QED
  BY <1>3, <1>4 DEF IInv

LEMMA SrvAcceptStep ==
  ASSUME IInv, NEW h \in Conn, SrvAccept(h)
  PROVE  IInv'
<1>1. /\ Types /\ LinkInv /\ ChanInv /\ ls \in LsRec /\ ~use_ltran /\ lt.pc = "down"
      /\ chan[h].srv = "backlog" /\ chan' = [chan EXCEPT ![h].srv = "open"]
      /\ UNCHANGED <<use_ltran, lt, starts, g_dfx_fd_cnt, inst, regs, latency, link, ring, ls,
                     ctl>>
  BY DEF IInv, Types, SrvAccept, instVars, LinkInv, LinkShape
<1>2. \A g : ~Serving(g) /\ ~Serving(g)'
  BY <1>1 DEF Serving
<1>3. /\ Kept(h) /\ ChanShape(h)' /\ chan' \in [Conn -> ChanRec]
      /\ \A g \in Conn : g # h => chan'[g] = chan[g]
  BY <1>1, <1>2, OpenedKept
<1>4. LtShape'
  BY <1>1 DEF LtShape
<1>5. ChanInv'
  BY <1>1, <1>2, <1>3, <1>4, OneStep
<1>6. LinkInv'
  BY <1>1, LinkSame
<1> QED
  BY <1>1, <1>3, <1>5, <1>6, AloneStep

LEMMA SrvHupStep ==
  ASSUME IInv, NEW h \in Conn, SrvHup(h)
  PROVE  IInv'
<1>1. /\ Types /\ LinkInv /\ ChanInv /\ ls \in LsRec /\ ~use_ltran /\ lt.pc = "down"
      /\ chan[h] \in ChanRec /\ chan \in [Conn -> ChanRec]
      /\ chan[h].srv = "open" /\ chan' = [chan EXCEPT ![h] = ShutByServer(@)]
      /\ UNCHANGED <<use_ltran, lt, starts, g_dfx_fd_cnt, inst, regs, latency, link, ring, ls,
                     ctl>>
  BY DEF IInv, Types, SrvHup, instVars, LinkInv, LinkShape
<1>2. \A g : ~Serving(g) /\ ~Serving(g)'
  BY <1>1 DEF Serving
<1>3. /\ chan'[h] = ShutByServer(chan[h]) /\ chan'[h] \in ChanRec
      /\ \A g \in Conn : g # h => chan'[g] = chan[g]
  BY <1>1, ShutFacts
<1>4. Written(h, chan[h]) /\ ChanShape(h)
  BY <1>1, SelfWritten DEF ChanInv
<1>5. Kept(h) /\ ChanShape(h)'
  BY <1>1, <1>2, <1>3, <1>4, ShutKept
<1>6. LtShape'
  BY <1>1 DEF LtShape
<1>7. ChanInv'
  BY <1>1, <1>2, <1>3, <1>5, <1>6, OneStep
<1>8. LinkInv'
  BY <1>1, LinkSame
<1>9. chan' \in [Conn -> ChanRec]
  BY <1>1, <1>3
<1> QED
  BY <1>1, <1>7, <1>8, <1>9, AloneStep

LEMMA SrvRequestStep ==
  ASSUME IInv, NEW h \in Conn, SrvRequest(h)
  PROVE  IInv'
<1>1. /\ Types /\ LinkInv /\ ChanInv /\ ls \in LsRec /\ ~use_ltran /\ lt.pc = "down"
      /\ chan[h] \in ChanRec /\ chan \in [Conn -> ChanRec]
      /\ chan[h].srv = "open" /\ chan[h].cli /\ chan[h].mode # None
      /\ chan' = [chan EXCEPT ![h].mode = None]
      /\ ls' = [ls EXCEPT !.pc = "answer", !.mode = chan[h].mode, !.id = h,
                          !.to = "chan", !.i = 1]
      /\ UNCHANGED <<use_ltran, lt, starts, g_dfx_fd_cnt, inst, regs, latency, link, ring,
                     ctl>>
  BY DEF IInv, Types, SrvRequest, instVars, LinkInv, LinkShape
<1>2. \A g : ~Serving(g) /\ ~Serving(g)'
  BY <1>1 DEF Serving
<1>3. /\ ls' \in LsRec /\ ls'.pc = "answer" /\ ls'.to = "chan" /\ ls'.id = h
      /\ ls'.i \in 1..StackNum
  <2>1. chan[h].mode \in DOMAIN RecvKind \cup {None} /\ 1 \in 0..StackNum /\ 1 \in 1..StackNum
    BY <1>1, DfxAssumption DEF ChanRec
  <2> QED
    BY <1>1, <2>1 DEF LsRec
<1>4. LinkInv'
  BY <1>1, <1>3, AloneLink
<1>5. PICK r : r = [chan[h] EXCEPT !.mode = None]
  OBVIOUS
<1>6. /\ r \in ChanRec /\ r.srv = chan[h].srv /\ r.cli = chan[h].cli
      /\ r.path = chan[h].path /\ r.mode = None /\ r.out = chan[h].out
  BY <1>1, <1>5 DEF ChanRec
<1>7. chan' = [chan EXCEPT ![h] = r]
  BY <1>1, <1>5
<1>8. /\ chan' \in [Conn -> ChanRec] /\ chan'[h] = r
      /\ \A g \in Conn : g # h => chan'[g] = chan[g]
  BY <1>1, <1>6, <1>7
<1>9. ChanShape(h) /\ chan[h].path # "dfx" /\ chan[h] # NoChan
  BY <1>1, Blank DEF ChanInv, ChanShape
<1>10. Kept(h)
  BY <1>1, <1>6, <1>8, <1>9 DEF Kept
<1>11. ChanShape(h)'
  BY <1>1, <1>6, <1>8, <1>9 DEF ChanShape, AllOf
<1>12. LtShape'
  BY <1>1 DEF LtShape
<1>13. ChanInv'
  BY <1>1, <1>2, <1>8, <1>10, <1>11, <1>12, OneStep
<1> QED
  BY <1>1, <1>3, <1>4, <1>8, <1>13, AloneStep

(* The process ends. *)
LEMMA LsDieStep ==
  ASSUME IInv, LsDie
  PROVE  IInv'
<1>1. /\ Types /\ LinkInv /\ ChanInv /\ Counted /\ link \in LinkRec /\ lt \in LtRec
      /\ inst \in {"none", "mem", "on"} /\ regs \subseteq Stacks
      /\ ls' = LsAt("down", FALSE) /\ link' = ShutByLstack(link)
      /\ UNCHANGED <<use_ltran, lt, starts, g_dfx_fd_cnt, inst, regs, latency, ctl>>
  BY DEF IInv, Types, LsDie, instVars
<1>2. ls' \in LsRec /\ ls'.pc = "down"
  BY <1>1, Blank
<1>3. LinkInv'
  BY <1>1, <1>2, LoseLink
<1>4. link' \in LinkRec
  BY <1>1, ShutLinkFacts
<1>5. ring' \in [Stacks -> {"idle", "asked", "ok", "err"}]
  BY DEF LsDie
<1>6. CASE use_ltran
  BY <1>1, <1>2, <1>3, <1>4, <1>5, <1>6, LinkOnly DEF LsDie
<1>7. CASE ~use_ltran
  <2>1. lt.pc = "down" /\ \A g : ~Serving(g) /\ ~Serving(g)'
    BY <1>1, <1>7 DEF LinkInv, LinkShape, Serving
  <2>2. LtShape'
    BY <1>1, <2>1 DEF LtShape
  <2>3. chan' = [g \in Conn |-> IF g \in Live THEN ShutByServer(chan[g]) ELSE chan[g]]
    BY <1>7 DEF LsDie
  <2>4. ChanInv' /\ chan' \in [Conn -> ChanRec] /\ Opened' = {}
    BY <1>1, <2>1, <2>2, <2>3, AllShut
  <2>5. Opened = {}
    BY <1>1, <1>7 DEF ChanInv, ChanShape, Opened
  <2>6. Counted'
    BY <1>1, <2>4, <2>5, CountSame
  <2>7. Types'
    BY <1>1, <1>2, <1>4, <1>5, <2>4 DEF Types
  <2> QED
    BY <1>3, <2>4, <2>6, <2>7 DEF IInv
<1> QED
  BY <1>6, <1>7

-----------------------------------------------------------------------------
(* The invariant *)

LEMMA InitInv ==
  ASSUME Init
  PROVE  IInv
<1>1. PICK plan \in Plans : ctl = [c \in Ctl |-> [CtlAt("idle") EXCEPT !.cmd = plan[c]]]
  BY DEF Init
<1>2. \A c \in Ctl : plan[c] \in DOMAIN Command \cup {None}
  BY DfxAssumption
<1>3. ASSUME NEW c \in Ctl
      PROVE  ctl[c] \in CtlRec /\ ctl[c].pc = "idle" /\ ctl[c].n = 0 /\ ctl[c].i = 1
  <2>1. PICK r : r = CtlAt("idle")
    OBVIOUS
  <2>2. r \in CtlRec /\ r.pc = "idle" /\ r.n = 0 /\ r.i = 1
    BY <2>1, Blank
  <2>3. ctl[c] = [r EXCEPT !.cmd = plan[c]]
    BY <1>1, <2>1
  <2> QED
    BY <1>2, <2>2, <2>3 DEF CtlRec
<1>4. /\ use_ltran \in BOOLEAN /\ inst = "none" /\ regs = {} /\ link = NoLink /\ starts = 0
      /\ g_dfx_fd_cnt = 0 /\ latency = [lt |-> FALSE, ls |-> FALSE]
      /\ ring = [k \in Stacks |-> "idle"] /\ chan = [h \in Conn |-> NoChan]
  BY DEF Init
<1>5. lt \in LtRec /\ lt.pc \in {"down", "loop"} /\ (lt.pc = "loop" => use_ltran)
  <2>1. \/ lt = LtAt("down")
        \/ lt = LtAt("loop") /\ use_ltran
    BY <1>4 DEF Init
  <2> QED
    BY <2>1, Blank
<1>6. /\ ls \in LsRec /\ ls.first
      /\ ls.pc = (IF use_ltran THEN "connect" ELSE "boot")
  <2>1. CASE use_ltran
    BY <2>1, Blank DEF Init
  <2>2. CASE ~use_ltran
    BY <2>2, Blank DEF Init
  <2> QED
    BY <2>1, <2>2
<1>7. Types
  BY <1>1, <1>3, <1>4, <1>5, <1>6, Blank, DfxAssumption DEF Types
<1>8. LinkInv
  <2>1. LinkShape
    BY <1>4, <1>5, <1>6, Blank DEF LinkShape, Linked
  <2>2. DnShape
    BY <1>4, <1>6, Blank DEF DnShape
  <2>3. Dialogue
    BY <1>4, <1>5, <1>6, Blank DEF Dialogue, Quiet, Asked, Answering
  <2> QED
    BY <2>1, <2>2, <2>3 DEF LinkInv
<1>9. ChanInv
  <2>1. LtShape
    BY <1>5 DEF LtShape
  <2>2. ASSUME NEW c \in Ctl PROVE CtlShape(c) /\ ReadShape(c)
    <3>1. 0 \in 0..MaxConn /\ \A m \in 1..MaxConn : <<c, m>> \in Conn
      BY DfxAssumption DEF Conn
    <3>2. CtlShape(c)
      BY <1>3, <1>4, <3>1, DfxAssumption DEF CtlShape, Stage, Conn
    <3>3. ReadShape(c)
      BY <1>3 DEF ReadShape, ReadAt
    <3> QED
      BY <3>2, <3>3
  <2>3. \A h \in Conn : ChanShape(h)
    BY <1>4, Blank, NoneApart DEF ChanShape
  <2> QED
    BY <2>1, <2>2, <2>3 DEF ChanInv
<1>10. Counted
  <2>1. Opened = {}
    BY <1>4, Blank DEF Opened
  <2> QED
    BY <1>4, <2>1, FS_EmptySet, DfxAssumption DEF Counted
<1> QED
  BY <1>7, <1>8, <1>9, <1>10 DEF IInv

LEMMA CtlInv ==
  ASSUME IInv, NEW c \in Ctl, Start(c) \/ CtlStep(c) \/ Interrupt(c)
  PROVE  IInv'
<1>1. CASE Start(c)
  BY <1>1, StartStep
<1>2. CASE Connect(c)
  BY <1>2, ConnectStep
<1>3. CASE Wake(c)
  BY <1>3, WakeStep
<1>4. CASE ReadFrame(c)
  BY <1>4, ReadFrameStep
<1>5. CASE ReadFails(c)
  BY <1>5, ReadFailsStep
<1>6. CASE Interrupt(c)
  BY <1>6, InterruptStep
<1> QED
  BY <1>1, <1>2, <1>3, <1>4, <1>5, <1>6 DEF CtlStep

LEMMA LtInv ==
  ASSUME IInv, LtStep
  PROVE  IInv'
<1>1. ASSUME NEW h \in Live,
             \/ LtAccept(h) \/ LtDropped(h) \/ LtAnswer(h)
             \/ LtQuit(h) \/ LtTransfer(h) \/ LtStray(h)
      PROVE  IInv'
  <2>1. h \in Conn
    BY DEF Live
  <2>2. CASE LtAccept(h)
    BY <2>1, <2>2, LtAcceptStep
  <2>3. CASE LtDropped(h)
    BY <2>1, <2>3, LtDroppedStep
  <2>4. CASE LtAnswer(h)
    BY <2>1, <2>4, LtAnswerStep
  <2>5. CASE LtQuit(h)
    BY <2>1, <2>5, LtQuitStep
  <2>6. CASE LtTransfer(h)
    BY <2>1, <2>6, LtTransferStep
  <2>7. CASE LtStray(h)
    BY <2>1, <2>7, LtStrayStep
  <2> QED
    BY <1>1, <2>2, <2>3, <2>4, <2>5, <2>6, <2>7
<1>2. CASE LtForward
  BY <1>2, LtForwardStep
<1>3. CASE LtPeerGone
  BY <1>3, LtPeerGoneStep
<1>4. CASE LtTimeout
  BY <1>4, LtTimeoutStep
<1>5. CASE LtMem
  BY <1>5, LtMemStep
<1>6. CASE LtAtt
  BY <1>6, LtAttStep
<1>7. ASSUME NEW k \in Stacks, LtRing(k) PROVE IInv'
  BY <1>7, LtRingStep
<1>8. CASE LtHup
  BY <1>8, LtHupStep
<1>9. CASE LtLate
  BY <1>9, LtLateStep
<1>10. CASE LtLateEnd
  BY <1>10, LtLateEndStep
<1>11. CASE LtStrayEnd
  BY <1>11, LtStrayEndStep
<1> QED
  BY <1>1, <1>2, <1>3, <1>4, <1>5, <1>6, <1>7, <1>8, <1>9, <1>10, <1>11 DEF LtStep

LEMMA LsInv ==
  ASSUME IInv, LsStep
  PROVE  IInv'
<1>1. CASE LsConnect
  BY <1>1, LsConnectStep
<1>2. CASE LsMemOk
  BY <1>2, LsMemOkStep
<1>3. CASE LsAttOk
  BY <1>3, LsAttOkStep
<1>4. CASE LsRefused
  BY <1>4, LsRefusedStep
<1>5. CASE LsRingErr
  BY <1>5, LsRingErrStep
<1>6. CASE LsReady
  BY <1>6, LsReadyStep
<1>7. CASE LsHup
  BY <1>7, LsHupStep
<1>8. CASE LsRequest
  BY <1>8, LsRequestStep
<1>9. CASE SrvListen
  BY <1>9, SrvListenStep
<1>10. CASE LsAnswer
  BY <1>10, LsAnswerStep
<1>11. ASSUME NEW h \in Live, SrvAccept(h) \/ SrvHup(h) \/ SrvRequest(h) PROVE IInv'
  <2>1. h \in Conn
    BY DEF Live
  <2> QED
    BY <1>11, <2>1, SrvAcceptStep, SrvHupStep, SrvRequestStep
<1> QED
  BY <1>1, <1>2, <1>3, <1>4, <1>5, <1>6, <1>7, <1>8, <1>9, <1>10, <1>11 DEF LsStep

LEMMA NextInv ==
  ASSUME IInv, [Next]_vars
  PROVE  IInv'
<1>1. ASSUME NEW c \in Ctl, Start(c) \/ CtlStep(c) \/ Interrupt(c) PROVE IInv'
  BY <1>1, CtlInv
<1>2. CASE LtStep
  BY <1>2, LtInv
<1>3. CASE LtStart
  BY <1>3, LtStartStep
<1>4. CASE LsStep
  BY <1>4, LsInv
<1>5. ASSUME NEW k \in Stacks, LsAsk(k) PROVE IInv'
  BY <1>5, LsAskStep
<1>6. CASE LsDie
  BY <1>6, LsDieStep
<1>7. CASE UNCHANGED vars
  <2>1. UNCHANGED <<use_ltran, lt, starts, g_dfx_fd_cnt, inst, regs, latency, link, ring, ls,
                    ctl, chan>>
    BY <1>7 DEF vars
  <2>2. Types /\ LinkInv /\ lt \in LtRec /\ link \in LinkRec /\ ls \in LsRec
        /\ inst \in {"none", "mem", "on"} /\ regs \subseteq Stacks
        /\ ring \in [Stacks -> {"idle", "asked", "ok", "err"}]
    BY DEF IInv, Types
  <2>3. LinkInv'
    BY <2>1, <2>2, LinkSame
  <2> QED
    BY <2>1, <2>2, <2>3, LinkOnly
<1> QED
  BY <1>1, <1>2, <1>3, <1>4, <1>5, <1>6, <1>7 DEF Next

LEMMA Invariant == Spec => []IInv
<1>1. Init => IInv
  BY InitInv
<1>2. IInv /\ [Next]_vars => IInv'
  BY NextInv
<1> QED
  BY <1>1, <1>2, PTL DEF Spec

-----------------------------------------------------------------------------
(* Theorems *)

(* Every variable keeps its type: what both ends write on the long          *)
(* connection and on those of gazellectl, and how many of these             *)
(* dfx_server_msg_proc lets in: one more than GAZELLE_MAX_DFX_FD_NUM.       *)
THEOREM TypeCorrect == Spec => []TypeOK
<1>1. ASSUME IInv PROVE TypeOK
  <2>1. Types /\ Counted
    BY <1>1 DEF IInv
  <2>2. g_dfx_fd_cnt \in 0..(MaxDfx + 1)
    BY <2>1, FS_CardinalityType, DfxAssumption DEF Counted
  <2>3. \A s \in Seq(Message) : Channel(s)
    BY DEF Channel
  <2>4. Channel(link.up) /\ Channel(link.dn)
    BY <2>1, <2>3 DEF Types, LinkRec
  <2>5. \A c \in Ctl : /\ ctl[c].pc \in {"idle", "connect", "sleep", "read", "done"}
                       /\ ctl[c].n \in 0..MaxConn
    BY <2>1 DEF Types, CtlRec
  <2>6. \A h \in Conn : /\ chan[h].srv \in {"none", "backlog", "open", "shut"}
                        /\ Channel(chan[h].out)
    BY <2>1, <2>3 DEF Types, ChanRec
  <2> QED
    BY <2>1, <2>2, <2>4, <2>5, <2>6 DEF TypeOK, Types, LtRec, LsRec
<1> QED
  BY <1>1, Invariant, PTL

(* handle_inet_stat_data reads whatever comes on the long connection next.  *)
(* What comes answers the request ltran waits for, also after gazellectl    *)
(* went away in the middle of an earlier answer, as long as no wait was     *)
(* given up.                                                                *)
THEOREM AnswersMineCorrect == Spec => []AnswersMine
<1>1. IInv => AnswersMine
  BY DEF IInv, LinkInv, Dialogue, AnswersMine
<1> QED
  BY <1>1, Invariant, PTL

(* client_reg_proc_memory and client_reg_proc_attach never read a request   *)
(* for statistics, control_client_thread never the answer to a              *)
(* registration, and reg_conn_msg_proc reads an answer among registrations  *)
(* only after a wait was given up.                                          *)
THEOREM DialoguesApartCorrect == Spec => []DialoguesApart
<1>1. ASSUME IInv PROVE DialoguesApart
  <2>1. Types /\ LinkInv /\ LinkShape /\ DnShape
    BY <1>1 DEF IInv, LinkInv
  <2>2. ASSUME ls.pc \in {"mem", "att"} PROVE DnKind \in {None, "ok", "err"}
    <3>1. CASE DnKind = None
      BY <3>1
    <3>2. CASE DnKind # None
      <4>1. link.dn # <<>> /\ DnKind = link.dn[1].kind
        BY <2>1, <3>2, DnFacts
      <4>2. link.dn[1] = Msg("ok")
        BY <2>1, <2>2, <4>1 DEF DnShape
      <4> QED
        BY <4>1, <4>2, MessageFacts DEF Kind
    <3> QED
      BY <3>1, <3>2
  <2>3. ASSUME ls.pc = "ready" PROVE DnKind \in {None, "req"}
    <3>1. CASE DnKind = None
      BY <3>1
    <3>2. CASE DnKind # None
      <4>1. link.dn # <<>> /\ DnKind = link.dn[1].kind /\ link.dn \in Seq(Message)
        BY <2>1, <3>2, DnFacts
      <4>2. AllOf(link.dn, "req") /\ 1 \in DOMAIN link.dn
        BY <2>1, <2>3, <4>1, TailFacts DEF DnShape
      <4> QED
        BY <4>1, <4>2 DEF AllOf
    <3> QED
      BY <3>1, <3>2
  <2>4. ASSUME lt.pc = "loop", UpKind = "dfx" PROVE link.late
    BY <1>1, <2>1, <2>4, UpFacts DEF IInv, LinkInv, Dialogue, Quiet
  <2>5. ASSUME lt.pc = "xfer" PROVE UpKind \in {None, "dfx"}
    BY <2>1, <2>5, UpFacts DEF LinkShape, UpKind
  <2> QED
    BY <2>2, <2>3, <2>4, <2>5 DEF DialoguesApart
<1> QED
  BY <1>1, Invariant, PTL

(* read_and_print_loop, gazelle_print_lstack_stat_total and the other print *)
(* functions read structures whose size the request and the loop determine: *)
(* the next one has that size.                                              *)
THEOREM FrameFitsCorrect == Spec => []FrameFits
<1>1. ASSUME IInv, NEW c \in Ctl, ctl[c].pc = "read", chan[Mine(c)].out # <<>>
      PROVE  Head(chan[Mine(c)].out).kind = ctl[c].want
  <2>1. /\ Types /\ ChanInv /\ ctl[c] \in CtlRec /\ CtlShape(c) /\ Stage(ctl[c])
        /\ ReadShape(c)
    BY <1>1 DEF IInv, Types, ChanInv, CtlShape
  <2>2. PICK h \in Conn : h = Mine(c)
    BY <2>1 DEF Mine, Conn, CtlRec
  <2>3. PICK out \in Seq(Message) : out = chan[h].out
    BY <2>1 DEF Types, ChanRec
  <2>4. out # <<>> /\ Head(out) = out[1] /\ 1 \in DOMAIN out /\ DOMAIN out = 1..Len(out)
        /\ Len(out) \in Nat
    BY <1>1, <2>2, <2>3, TailFacts
  <2>5. ReadAt(c, h) /\ ChanShape(h)
    BY <2>1, <2>2, ReadByName DEF ChanInv
  <2>6. PICK reqs : reqs = Requests(ctl[c].cmd, ctl[c].use)
    OBVIOUS
  <2>7. /\ ctl[c].cmd \in DOMAIN Command /\ ctl[c].use \in BOOLEAN
        /\ ~ctl[c].use => Supported(reqs)
        /\ ctl[c].i \in DOMAIN reqs /\ reqs[ctl[c].i] # "MODE_MAX"
        /\ Mode(c) = reqs[ctl[c].i]
    BY <1>1, <2>1, <2>6 DEF Stage, CtlRec, Mode
  <2>8. Mode(c) \in DOMAIN RecvKind /\ Mode(c) # None
    <3>1. Listed(reqs)
      BY <2>6, <2>7, RequestFacts
    <3>2. reqs \in Seq(DOMAIN RecvKind \cup {"MODE_MAX"})
      BY <3>1 DEF Listed
    <3>3. reqs[ctl[c].i] \in DOMAIN RecvKind \cup {"MODE_MAX"}
      BY <2>7, <3>2
    <3> QED
      BY <2>7, <3>3, NoneApart
  <2>9. CASE ctl[c].use /\ Mode(c) = "LSTACK_SHOW"
    <3>1. CASE ctl[c].want = "total" /\ TotalsLeft(h)
      <4>1. TotalsFirst(out)
        BY <2>3, <2>4, <3>1 DEF TotalsLeft
      <4>2. out[1].kind = "total"
        BY <2>4, <4>1 DEF TotalsFirst
      <4> QED
        BY <2>2, <2>3, <2>4, <3>1, <4>2
    <3>2. CASE ctl[c].want = "dfx" /\ DfxLeft(h)
      <4>1. AllOf(out, "dfx")
        BY <2>3, <3>2 DEF DfxLeft
      <4> QED
        BY <2>2, <2>3, <2>4, <3>2, <4>1 DEF AllOf
    <3> QED
      BY <1>1, <2>5, <2>9, <3>1, <3>2 DEF ReadAt
  <2>10. CASE ctl[c].use /\ Mode(c) # "LSTACK_SHOW"
    <3>1. /\ chan[h].path = "dfx" /\ chan[h].mode = Mode(c)
          /\ ctl[c].want = FirstKind(Mode(c), ctl[c].use)
      BY <1>1, <2>5, <2>10 DEF ReadAt
    <3>2. ctl[c].want = RecvKind[Mode(c)]
      BY <2>10, <3>1 DEF FirstKind
    <3>3. AllOf(out, RecvKind[Mode(c)])
      BY <2>3, <2>5, <2>8, <2>10, <3>1 DEF ChanShape
    <3> QED
      BY <2>2, <2>3, <2>4, <3>2, <3>3 DEF AllOf
  <2>11. CASE ~ctl[c].use
    <3>1. /\ chan[h].path = "reg" /\ ctl[c].want # "none"
          /\ ctl[c].want = FirstKind(Mode(c), FALSE)
      <4>1. ctl[c].use = FALSE
        BY <2>7, <2>11
      <4> QED
        BY <1>1, <2>5, <4>1 DEF ReadAt
    <3>2. ctl[c].want = "dfx"
      <4>1. reqs = Requests(ctl[c].cmd, FALSE) /\ Supported(reqs)
        BY <2>6, <2>7, <2>11
      <4>2. FirstKind(reqs[ctl[c].i], FALSE) \in {"none", "dfx"}
        BY <2>7, <4>1, RequestFacts
      <4> QED
        BY <2>7, <3>1, <4>2
    <3>3. AllOf(out, "dfx")
      BY <2>3, <2>5, <3>1 DEF ChanShape
    <3> QED
      BY <2>2, <2>3, <2>4, <3>2, <3>3 DEF AllOf
  <2> QED
    BY <2>9, <2>10, <2>11
<1>2. IInv => FrameFits
  BY <1>1 DEF FrameFits
<1> QED
  BY <1>2, Invariant, PTL
=============================================================================
