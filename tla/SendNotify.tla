----------------------------- MODULE SendNotify -----------------------------
(***************************************************************************)
(* How an application thread that has put data on a socket's send_ring     *)
(* gets the stack thread to send it, and how the stack thread decides that *)
(* it need not look again (notice_stack_send, stack_send, do_lwip_send and *)
(* replenish_send_idlembuf in src/lstack/core/lstack_lwip.c).              *)
(*                                                                         *)
(* The ring is reduced to its counts: one unit of data is one pbuf.        *)
(* The RPC queue is a FIFO; only the stack_send messages of this socket    *)
(* are counted.                                                            *)
(***************************************************************************)
EXTENDS Integers

CONSTANTS
  Capacity,     \* pbufs the send_ring holds
  ExpandSendRing, \* expand_send_ring of lstack.conf
  MaxWrites,    \* bound: units the application writes in all
  CallNumMod    \* 2^32, the width of sock->call_num

ASSUME SendNotifyAssumption ==
  /\ Capacity \in Nat \ {0}
  /\ ExpandSendRing \in BOOLEAN
  /\ MaxWrites \in Nat
  /\ CallNumMod \in Nat /\ CallNumMod >= 4

VARIABLES
  written,      \* units the application has put on the ring
  sent,         \* units lwip has taken
  avail,        \* idle pbufs of the ring (gazelle_ring_readable_count)
  call_num,     \* sock->call_num
  queued,       \* stack_send messages of this socket in the RPC queue
  app_pc,       \* the application thread, in gazelle_send
  stack_pc,     \* the stack thread, in stack_send
  again,        \* its local replenish_again
  setbacks      \* history: lwip has taken less than there was ("lwip"),
                \* the mbuf pool was empty at a refill ("pool")

ringVars == <<written, sent, avail>>
vars == <<written, sent, avail, call_num, queued, app_pc, stack_pc, again,
          setbacks>>

(* NETCONN_IS_DATAOUT *)
DataOut == written > sent
FreeCount == Capacity - avail - (written - sent)

(* Unsigned arithmetic modulo CallNumMod. *)
Inc(n) == IF n + 1 = CallNumMod THEN 0 ELSE n + 1
Dec(n) == IF n = 0 THEN CallNumMod - 1 ELSE n - 1

Init ==
  /\ written = 0
  /\ sent = 0
  /\ avail = Capacity
  /\ call_num = 0
  /\ queued = 0
  /\ app_pc = "idle"
  /\ stack_pc = "idle"
  /\ again = FALSE
  /\ setbacks = {}

-----------------------------------------------------------------------------
(* write_stack_data takes an idle pbuf (app_buff_write, app_direct_write).   *)
(* With none left the call ends with EAGAIN and tells the stack nothing.     *)
Write ==
  /\ app_pc = "idle"
  /\ written < MaxWrites
  /\ avail > 0
  /\ written' = written + 1
  /\ avail' = avail - 1
  /\ app_pc' = "load"
  /\ UNCHANGED <<sent, call_num, queued, stack_pc, again, setbacks>>

(* write_stack_data: all of the data fits into the last pbuf on the ring, or *)
(* is attached to it when the ring is full (app_direct_attach).              *)
WriteMerged ==
  /\ app_pc = "idle"
  /\ DataOut
  /\ app_pc' = "load"
  /\ UNCHANGED <<ringVars, call_num, queued, stack_pc, again, setbacks>>

(* write_stack_data, expand_send_ring: no idle pbuf, and none to attach to;  *)
(* the caller has the ring refilled before it fails with EAGAIN.             *)
CallReplenish ==
  /\ ExpandSendRing
  /\ app_pc = "idle"
  /\ avail = 0
  /\ app_pc' = "reply"
  /\ UNCHANGED <<ringVars, call_num, queued, stack_pc, again, setbacks>>

(* Mutant of LoadCallNum: a message for every write. *)
LoadCallNum_Always ==
  /\ app_pc = "load"
  /\ app_pc' = "push"
  /\ UNCHANGED <<ringVars, call_num, queued, stack_pc, again, setbacks>>

(* notice_stack_send: call_num >= 2, don't need add new rpc send *)
LoadCallNum ==
  /\ app_pc = "load"
  /\ app_pc' = IF call_num < 2 THEN "push" ELSE "idle"
  /\ UNCHANGED <<ringVars, call_num, queued, stack_pc, again, setbacks>>

(* notice_stack_send: rpc_call_send, repeated until a message is free *)
PushSend ==
  /\ app_pc = "push"
  /\ queued' = queued + 1
  /\ app_pc' = "inc"
  /\ UNCHANGED <<ringVars, call_num, stack_pc, again, setbacks>>

(* notice_stack_send: __sync_fetch_and_add(&sock->call_num, 1) *)
CountSend ==
  /\ app_pc = "inc"
  /\ call_num' = Inc(call_num)
  /\ app_pc' = "idle"
  /\ UNCHANGED <<ringVars, queued, stack_pc, again, setbacks>>

-----------------------------------------------------------------------------
(* poll_rpc_msg pops a message of this socket *)
Pop ==
  /\ stack_pc = "idle"
  /\ queued > 0
  /\ queued' = queued - 1
  /\ stack_pc' = "send"
  /\ UNCHANGED <<ringVars, call_num, app_pc, again, setbacks>>

(* do_lwip_send: lwip takes pbuf after pbuf ... *)
LwipTake ==
  /\ stack_pc = "send"
  /\ DataOut
  /\ sent' = sent + 1
  /\ UNCHANGED <<written, avail, call_num, queued, app_pc, stack_pc, again, setbacks>>

(* ... until there is none, or it can take no more *)
LwipStop ==
  /\ stack_pc = "send"
  /\ setbacks' = IF DataOut THEN setbacks \cup {"lwip"} ELSE setbacks
  /\ stack_pc' = "replenish"
  /\ UNCHANGED <<ringVars, call_num, queued, app_pc, again>>

(* replenish_send_idlembuf *)
Replenish ==
  /\ stack_pc = "replenish"
  /\ again' = FALSE
  /\ avail' = avail + FreeCount
  /\ stack_pc' = "dec"
  /\ UNCHANGED <<written, sent, call_num, queued, app_pc, setbacks>>

(* replenish_send_idlembuf: rte_pktmbuf_alloc_bulk fails *)
ReplenishFails ==
  /\ stack_pc = "replenish"
  /\ FreeCount > 0
  /\ again' = TRUE
  /\ setbacks' = setbacks \cup {"pool"}
  /\ stack_pc' = "dec"
  /\ UNCHANGED <<ringVars, call_num, queued, app_pc>>

(* rpc_replenish, which does not try again when the pool is empty; its call  *)
(* is synchronous.                                                           *)
RpcReplenish ==
  /\ stack_pc = "idle"
  /\ app_pc = "reply"
  /\ app_pc' = "idle"
  /\ \/ avail' = avail + FreeCount /\ UNCHANGED setbacks
     \/ FreeCount > 0 /\ setbacks' = setbacks \cup {"pool"} /\ UNCHANGED avail
  /\ UNCHANGED <<written, sent, call_num, queued, stack_pc, again>>

(* Mutant of DecCallNum: the count of a finished call is not taken back. *)
DecCallNum_Forgotten ==
  /\ stack_pc = "dec"
  /\ stack_pc' = "test"
  /\ UNCHANGED <<ringVars, call_num, queued, app_pc, again, setbacks>>

(* stack_send: __sync_fetch_and_sub(&sock->call_num, 1) *)
DecCallNum ==
  /\ stack_pc = "dec"
  /\ call_num' = Dec(call_num)
  /\ stack_pc' = "test"
  /\ UNCHANGED <<ringVars, queued, app_pc, again, setbacks>>

(* stack_send: nothing left to do, rpc_msg_free *)
TestDrained ==
  /\ stack_pc = "test"
  /\ stack_pc' = IF ~DataOut /\ ~again THEN "idle" ELSE "load"
  /\ UNCHANGED <<ringVars, call_num, queued, app_pc, again, setbacks>>

(* stack_send: post again only if no other send is under way *)
TestCallNum ==
  /\ stack_pc = "load"
  /\ stack_pc' = IF call_num = 0 THEN "repost" ELSE "idle"
  /\ UNCHANGED <<ringVars, call_num, queued, app_pc, again, setbacks>>

(* stack_send: rpc_call, then call_num is counted up again *)
RepostSend ==
  /\ stack_pc = "repost"
  /\ queued' = queued + 1
  /\ stack_pc' = "reinc"
  /\ UNCHANGED <<ringVars, call_num, app_pc, again, setbacks>>

RecountSend ==
  /\ stack_pc = "reinc"
  /\ call_num' = Inc(call_num)
  /\ stack_pc' = "idle"
  /\ UNCHANGED <<ringVars, queued, app_pc, again, setbacks>>

-----------------------------------------------------------------------------
AppStep   == LoadCallNum \/ PushSend \/ CountSend
StackStep ==
  \/ Pop
  \/ RpcReplenish
  \/ LwipStop
  \/ Replenish
  \/ ReplenishFails
  \/ DecCallNum
  \/ TestDrained
  \/ TestCallNum
  \/ RepostSend
  \/ RecountSend

Next == Write \/ WriteMerged \/ CallReplenish \/ AppStep \/ LwipTake \/ StackStep

Spec == Init /\ [][Next]_vars

(* Both threads keep running, and the RPC queue is a FIFO: no other message *)
(* is handled before a stack_send for ever.  A peer that acknowledges makes *)
(* lwip take data again and again, and mbufs come back: when stack_send     *)
(* keeps trying it gets through.                                            *)
Fairness ==
  /\ WF_vars(AppStep)
  /\ WF_vars(LwipTake \/ StackStep)
  /\ SF_vars(Pop)
  /\ SF_vars(LwipTake)
  /\ SF_vars(Replenish)

FairSpec == Spec /\ Fairness

-----------------------------------------------------------------------------
(* The types: do_lwip_send never takes more out of send_ring, nor replenish *)
(* puts more idle buffers in, than it holds.                                *)
TypeOK ==
  /\ written \in 0..MaxWrites
  /\ sent \in 0..written
  /\ avail \in 0..(Capacity - (written - sent))
  /\ call_num \in 0..(CallNumMod - 1)
  /\ queued \in Nat
  /\ app_pc \in {"idle", "load", "push", "inc", "reply"}
  /\ stack_pc \in {"idle", "send", "replenish", "dec", "test", "load",
                   "repost", "reinc"}
  /\ again \in BOOLEAN
  /\ setbacks \subseteq {"lwip", "pool"}

(* When notice_stack_send decides that it "don't need add new rpc send", a  *)
(* message is still in the queue and will see the data just written.        *)
SkipIsSafe ==
  app_pc = "load" /\ call_num >= 2 => queued >= 1

(* A socket never has more than three stack_send messages under way,       *)
(* however posts and reposts overlap: its share of the message pools.       *)
ThreeSendsAtMost ==
  queued + (IF stack_pc \in {"idle", "reinc"} THEN 0 ELSE 1) <= 3

(* Why these hold: call_num is the number of messages queued or being       *)
(* handled, less the increments that are still due, taken modulo its width; *)
(* and a message is only added while fewer than three are under way.        *)
CallNumBalance ==
  LET due  == (IF app_pc = "inc" THEN 1 ELSE 0)
                + (IF stack_pc = "reinc" THEN 1 ELSE 0)
      live == queued + (IF stack_pc \in {"send", "replenish", "dec"}
                          THEN 1 ELSE 0)
      held == IF stack_pc \in {"test", "load", "repost"} THEN 1 ELSE 0
  IN /\ call_num = IF live >= due THEN live - due ELSE CallNumMod - 1
     /\ live + held + (IF app_pc = "push" THEN 1 ELSE 0) <= 3
     /\ live + 1 >= due
     /\ stack_pc = "reinc" => queued >= 1

(* Everything written to the ring is handed to lwip in the end, without     *)
(* another write by the application, as long as do_lwip_send's comment      *)
(* "send all send_ring, so len set lwip send max" is true of lwip.  Once it *)
(* has taken less, stack_send may free the last message with data left: the *)
(* call_num it trusts may count a message that is gone already.             *)
AllDataSent ==
  \A n \in 1..MaxWrites :
    (written >= n) ~> (sent >= n \/ "lwip" \in setbacks)

(* A full ring is refilled in the end, so that a blocked writer goes on, as *)
(* long as neither lwip nor the mbuf pool has failed stack_send.            *)
WriterServed ==
  (avail = 0) ~> (avail > 0 \/ setbacks # {})

(* The notifications suffice: nothing written stays in the ring, and no     *)
(* writer stays blocked.                                                    *)
SendGoesOn == AllDataSent /\ WriterServed
=============================================================================
