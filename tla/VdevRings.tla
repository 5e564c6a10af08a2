------------------------------ MODULE VdevRings ------------------------------
(***************************************************************************)
(* The three rings between a stack thread and ltran, each used in its own  *)
(* way: rx_ring lends ltran empty mbufs to copy packets into, tx_ring      *)
(* lends it packets to copy from, and reg_ring hands it the records of     *)
(* reg_buf.  In all three only the stack thread enqueues, dequeues,        *)
(* allocates and frees (lstack_vdev.c); ltran reads ahead and says when it *)
(* is through (ltran_forward.c).  Packets that find no empty mbuf wait in  *)
(* ltran's pkt_buf and backup_pkt_buf.  ltran may die and start again.     *)
(*                                                                         *)
(* due is a history variable: what has been handed over and has neither    *)
(* arrived at the other side nor been dropped, in the order of its coming. *)
(* Packets and messages are numbered in the order they come.               *)
(***************************************************************************)
EXTENDS GazelleRing, FiniteSets

CONSTANTS
  Uses,        \* the rings to look at, of "rx", "tx" and "reg"
  NBuf,        \* mbufs of rxtx_pktmbuf_pool
  Burst,       \* packets a poll takes (nic_read_number)
  ReadSize,    \* GAZELLE_PACKET_READ_SIZE
  BackupSize,  \* BACKUP_MBUF_SIZE
  Watermark,   \* USED_RX_PKTS_WATERMARK, INUSE_TX_PKTS_WATERMARK
  MaxRx, MaxTx, MaxReg,   \* bounds on packets and messages
  MaxOdd       \* bound on retransmissions (tx) and failed posts (reg)

ASSUME VdevAssumption ==
  /\ Uses \subseteq {"rx", "tx", "reg"}
  /\ {NBuf, Burst, ReadSize, BackupSize, Watermark, MaxRx, MaxTx, MaxReg} \subseteq Nat \ {0}
  /\ NBuf >= Size /\ MaxOdd \in Nat

Names == 1..Max({MaxRx, MaxTx, MaxReg})
Buf == 0..(NBuf - 1)       \* mbufs; for reg_ring the records of reg_buf

VARIABLES
  use,         \* the ring this behaviour is about
  cell,        \* what a buffer holds, 0 for nothing that is to arrive
  refs,        \* reference count of an mbuf, 0 when it is in the pool
  held,        \* mbufs lwip keeps until they are acknowledged
  stack_pc, pend,                    \* the stack thread, what it enqueues
  used,        \* rx_ring_used, tx_ring_used
  reg_head,
  ltran_pc, got,                     \* ltran, what it read and not yet used
  pkt_buf, backup,
  due, next, odd, restarted

stackVars == <<stack_pc, pend, used, reg_head, held>>
ltranVars == <<ltran_pc, got, pkt_buf, backup>>
ghosts == <<next, odd, restarted>>
vars == <<ringVars, use, cell, refs, stackVars, ltranVars, due, ghosts>>

Contents(bufs) == [i \in DOMAIN bufs |-> cell[bufs[i]]]
Packets(contents) == SelectSeq(contents, LAMBDA n : n # 0)
Times(b, bufs) == Cardinality({i \in DOMAIN bufs : bufs[i] = b})
DropFirst(s, n) == SubSeq(s, n + 1, Len(s))

(* Buffers rte_pktmbuf_alloc_bulk may hand out: it does not matter which   *)
Pool == {b \in Buf : refs[b] = 0}
Fresh(n) == SubSeq(SetToSortSeq(Pool, <), 1, n)

Bound == CASE use = "rx" -> MaxRx [] use = "tx" -> MaxTx [] use = "reg" -> MaxReg
Named == next <= Bound /\ next' = next + 1

Init ==
  /\ use \in Uses
  /\ RingInit(IF use = "rx" THEN [i \in 1..Capacity |-> i - 1] ELSE <<>>)
  /\ cell = [b \in Buf |-> 0]
  /\ refs = [b \in Buf |-> IF use = "rx" /\ b < Capacity THEN 1 ELSE 0]
  /\ held = {}
  /\ stack_pc = "idle" /\ pend = <<>> /\ used = 0 /\ reg_head = 0
  /\ ltran_pc = "idle" /\ got = <<>> /\ pkt_buf = <<>> /\ backup = <<>>
  /\ due = <<>> /\ next = 1 /\ odd = 0 /\ restarted = FALSE

-----------------------------------------------------------------------------
(* The stack thread and rx_ring: ltran_rx_poll.  Packets that arrived go   *)
(* to lwip, which is taken to free them at once; lent are the empty mbufs  *)
(* that take the place of those used up.                                   *)

RxStep(lent) ==
  LET n == Dequeueable(Burst)
      bufs == Window(cons_tail, n) IN
  /\ Dequeue(n)
  /\ due' = DropFirst(due, Len(Packets(Contents(bufs))))
  /\ refs' = [b \in Buf |-> refs[b] + Times(b, lent) - Times(b, bufs)]
  /\ cell' = [b \in Buf |-> IF Times(b, lent) > 0 THEN 0 ELSE cell[b]]
  /\ used' = used + n
  /\ pend' = Accepted(lent, cons_tail')
  /\ EnqueueElems(pend')
  /\ stack_pc' = IF lent = <<>> THEN "idle" ELSE "publish"
  /\ UNCHANGED <<prod_tail, prod_head, cons_head, use, reg_head, held,
                 ltranVars, ghosts>>

UsedUp_ThisPoll == Dequeueable(Burst)      \* variant: rcvd_pkts only
UsedUp == Min({used + Dequeueable(Burst), Capacity})

(* Too little is used up for a refill, or the pool cannot give that much   *)
RxPoll ==
  /\ use = "rx" /\ stack_pc = "idle"
  /\ RxStep(<<>>)

RxRefill ==
  /\ use = "rx" /\ stack_pc = "idle"
  /\ UsedUp >= Watermark
  /\ Cardinality(Pool) >= UsedUp
  /\ RxStep(Fresh(UsedUp))

-----------------------------------------------------------------------------
(* The stack thread and tx_ring: eth_dev_output, ltran_tx_xmit.  The ring  *)
(* holds a reference of its own to an mbuf that lwip keeps for             *)
(* retransmission.                                                         *)

StartTx(b) ==
  /\ pend' = <<b>>
  /\ stack_pc' = "try"
  /\ UNCHANGED <<ringVars, use, used, reg_head, ltranVars, due, restarted>>

TxNew ==
  /\ use = "tx" /\ stack_pc = "idle" /\ Pool # {}
  /\ LET b == Fresh(1)[1] IN
     /\ StartTx(b)
     /\ cell' = [cell EXCEPT ![b] = next]
     /\ refs' = [refs EXCEPT ![b] = 2]
     /\ held' = held \cup {b}
  /\ Named
  /\ UNCHANGED odd

(* A retransmission: eth_dev_output takes another reference and rewrites the *)
(* lengths and offsets of the mbuf, which are contents and left out.         *)
TxAgain ==
  /\ use = "tx" /\ stack_pc = "idle" /\ odd < MaxOdd
  /\ \E b \in held :
       /\ StartTx(b)
       /\ refs' = [refs EXCEPT ![b] = @ + 1]
  /\ odd' = odd + 1
  /\ UNCHANGED <<cell, held, next>>

(* What was acknowledged lwip frees *)
TxAcked ==
  /\ use = "tx" /\ stack_pc = "idle"
  /\ \E b \in held :
       /\ refs' = [refs EXCEPT ![b] = @ - 1]
       /\ held' = held \ {b}
  /\ UNCHANGED <<ringVars, use, cell, stack_pc, pend, used, reg_head,
                 ltranVars, due, ghosts>>

(* eth_dev_output frees what could not be sent *)
NotSent_Kept == <<>>                       \* variant: it does not
NotSent == pend

(* One turn of the loop: mbufs ltran is through with are freed, and the    *)
(* packet enqueued if there is room.  If not, the loop ends some time.     *)
TxTry ==
  /\ use = "tx" /\ stack_pc = "try"
  /\ LET n == IF used >= Watermark THEN Dequeueable(used) ELSE 0
         bufs == Window(cons_tail, n) IN
     /\ Dequeue(n)
     /\ used' = used - n
     /\ \/ /\ Accepted(pend, cons_tail') # <<>>
           /\ EnqueueElems(pend)
           /\ stack_pc' = "publish"
           /\ refs' = [b \in Buf |-> refs[b] - Times(b, bufs)]
           /\ UNCHANGED pend
        \/ /\ Accepted(pend, cons_tail') = <<>>
           /\ refs' = [b \in Buf |-> refs[b] - Times(b, bufs)]
           /\ UNCHANGED <<slot, stack_pc, pend>>
        \/ /\ Accepted(pend, cons_tail') = <<>>
           /\ refs' = [b \in Buf |-> refs[b] - Times(b, bufs \o NotSent)]
           /\ stack_pc' = "idle" /\ pend' = <<>>
           /\ UNCHANGED slot
  /\ UNCHANGED <<prod_tail, prod_head, cons_head, use, cell, reg_head, held,
                 ltranVars, due, ghosts>>

-----------------------------------------------------------------------------
(* The stack thread and reg_ring: vdev_reg_xmit.  The record is chosen     *)
(* once, and passed over for good if the post fails.                       *)

RegPost ==
  /\ use = "reg" /\ stack_pc = "idle"
  /\ pend' = <<reg_head>>
  /\ reg_head' = (reg_head + 1) % Size
  /\ stack_pc' = "try"
  /\ UNCHANGED <<ringVars, use, cell, refs, used, held, ltranVars, due, ghosts>>

RegTry ==
  /\ use = "reg" /\ stack_pc = "try"
  /\ Dequeue(Dequeueable(Size))
  /\ \/ /\ FreeEntries(cons_tail') # 0
        /\ cell' = [cell EXCEPT ![pend[1]] = next]
        /\ EnqueueElems(pend)
        /\ stack_pc' = "publish"
        /\ Named
        /\ UNCHANGED <<pend, odd>>
     \/ /\ FreeEntries(cons_tail') = 0
        /\ UNCHANGED <<slot, cell, stack_pc, pend, next, odd>>
     \/ /\ FreeEntries(cons_tail') = 0 /\ odd < MaxOdd
        /\ stack_pc' = "idle" /\ pend' = <<>>
        /\ odd' = odd + 1
        /\ UNCHANGED <<slot, cell, next>>
  /\ UNCHANGED <<prod_tail, prod_head, cons_head, use, refs, used, reg_head,
                 held, ltranVars, due, restarted>>

(* gazelle_ring_sp_enqueue stores cons.head, and the caller counts *)
Publish ==
  /\ stack_pc = "publish"
  /\ EnqueuePublish(Len(pend))
  /\ used' = CASE use = "rx" -> used - Len(pend)
                [] use = "tx" -> used + Len(pend)
                [] use = "reg" -> used
  /\ due' = IF use = "rx" THEN due ELSE due \o Contents(pend)
  /\ stack_pc' = "idle" /\ pend' = <<>>
  /\ UNCHANGED <<slot, cons_tail, prod_tail, prod_head, use, cell, refs,
                 reg_head, held, ltranVars, ghosts>>

-----------------------------------------------------------------------------
(* ltran and rx_ring: enqueue_rx_packet, flush_rx_ring.  flush_all_stack   *)
(* flushes every stack in every pass, whether it has packets or not, and   *)
(* a full pkt_buf is flushed at once.                                      *)

Unmoved == UNCHANGED <<slot, cons_tail, cons_head, use, stackVars, refs>>

Arrive ==
  /\ use = "rx" /\ ltran_pc = "idle"
  /\ pkt_buf' = Append(pkt_buf, next)
  /\ due' = Append(due, next)
  /\ Named
  /\ ltran_pc' = IF Len(pkt_buf') >= ReadSize THEN "flush" ELSE "idle"
  /\ Unmoved
  /\ UNCHANGED <<prod_tail, prod_head, cell, got, backup, odd, restarted>>

FlushAll ==
  /\ use = "rx" /\ ltran_pc = "idle"
  /\ ltran_pc' = "flush"
  /\ Unmoved
  /\ UNCHANGED <<prod_tail, prod_head, cell, got, pkt_buf, backup, due, ghosts>>

(* What is in the backup goes first.  Read as many empty mbufs as there    *)
(* are packets, *)
ToFlush_Newest == "pkts"                   \* variant: backup last
ToFlush == IF ltran_pc = "flush" /\ backup # <<>> THEN "backup" ELSE "pkts"
Flushable ==
  Readable(IF ToFlush = "backup" THEN Len(backup) ELSE Len(pkt_buf))

ReadEmpty ==
  /\ use = "rx" /\ ltran_pc \in {"flush", "flush_pkts"}
  /\ ToFlush = "backup" \/ Flushable > 0
  /\ got' = Window(prod_head, Flushable)
  /\ ReadAhead(Flushable)
  /\ ltran_pc' = IF ToFlush = "backup" THEN "fill_backup" ELSE "fill_pkts"
  /\ Unmoved
  /\ UNCHANGED <<prod_tail, cell, pkt_buf, backup, due, ghosts>>

(* flush_rx_mbuf: copy one packet into one mbuf *)
Fill ==
  /\ use = "rx" /\ got # <<>>
  /\ IF ltran_pc = "fill_backup"
       THEN /\ cell' = [cell EXCEPT ![Head(got)] = Head(backup)]
            /\ backup' = Tail(backup)
            /\ UNCHANGED pkt_buf
       ELSE /\ cell' = [cell EXCEPT ![Head(got)] = Head(pkt_buf)]
            /\ pkt_buf' = Tail(pkt_buf)
            /\ UNCHANGED backup
  /\ got' = Tail(got)
  /\ Unmoved
  /\ UNCHANGED <<prod_tail, prod_head, ltran_pc, due, ghosts>>

(* pktbufs_move_to_backup_bufs: what the backup has no room for is dropped *)
MoveToBackup ==
  LET room == Min({BackupSize - Len(backup), Len(pkt_buf)}) IN
  /\ backup' = backup \o SubSeq(pkt_buf, 1, room)
  /\ pkt_buf' = <<>>
  /\ due' = SubSeq(due, 1, Len(due) - (Len(pkt_buf) - room))

(* The backup could not be emptied: newer packets must queue behind it *)
OverBackup ==
  /\ use = "rx" /\ ltran_pc = "fill_backup" /\ got = <<>>
  /\ ReadOver
  /\ \/ /\ backup = <<>>
        /\ ltran_pc' = "flush_pkts"
        /\ UNCHANGED <<pkt_buf, backup, due>>
     \/ /\ backup # <<>>
        /\ ltran_pc' = "idle"
        /\ MoveToBackup
  /\ Unmoved
  /\ UNCHANGED <<prod_head, cell, got, ghosts>>

OverPkts ==
  /\ use = "rx" /\ ltran_pc = "fill_pkts" /\ got = <<>>
  /\ ReadOver
  /\ MoveToBackup
  /\ ltran_pc' = "idle"
  /\ Unmoved
  /\ UNCHANGED <<prod_head, cell, got, ghosts>>

(* No packet or no empty mbuf: gazelle_ring_read_over is skipped *)
NothingRead ==
  /\ use = "rx" /\ ltran_pc \in {"flush", "flush_pkts"}
  /\ ToFlush = "pkts" /\ Flushable = 0
  /\ MoveToBackup
  /\ ltran_pc' = "idle"
  /\ Unmoved
  /\ UNCHANGED <<prod_tail, prod_head, cell, got, ghosts>>

-----------------------------------------------------------------------------
(* ltran and the rings it takes from: downstream_forward_one for tx_ring,  *)
(* tcp_hash_table_handle, with mlock held, for reg_ring                    *)

ReadFilled ==
  /\ use # "rx" /\ ltran_pc = "idle"
  /\ Readable(ReadSize) > 0
  /\ got' = Window(prod_head, Readable(ReadSize))
  /\ ReadAhead(Readable(ReadSize))
  /\ ltran_pc' = "take"
  /\ Unmoved
  /\ UNCHANGED <<prod_tail, cell, pkt_buf, backup, due, ghosts>>

(* Copy the packet, or do what the record says *)
Take ==
  /\ ltran_pc = "take" /\ got # <<>>
  /\ got' = Tail(got)
  /\ due' = Tail(due)
  /\ Unmoved
  /\ UNCHANGED <<prod_tail, prod_head, cell, ltran_pc, pkt_buf, backup, ghosts>>

OverTaken ==
  /\ ltran_pc = "take" /\ got = <<>>
  /\ ReadOver
  /\ ltran_pc' = "idle"
  /\ Unmoved
  /\ UNCHANGED <<prod_head, cell, got, pkt_buf, backup, due, ghosts>>

-----------------------------------------------------------------------------
(* ltran dies and comes back.  What it had in its own memory is lost; the  *)
(* rings are the client's and stay as they are, mbufs read and not yet     *)
(* given back included: the next gazelle_ring_read_over returns them.      *)
Restart ==
  /\ ~restarted /\ restarted' = TRUE
  /\ ltran_pc' = "idle" /\ got' = <<>>
  /\ pkt_buf' = <<>> /\ backup' = <<>>
  /\ due' = IF use = "rx"
              THEN Packets(Contents(Between(cons_tail, prod_head)))
              ELSE DropFirst(due, Len(got))
  /\ Unmoved
  /\ UNCHANGED <<prod_tail, prod_head, cell, next, odd>>

-----------------------------------------------------------------------------
StackStep == RxPoll \/ TxTry \/ RegTry \/ Publish
LtranStep ==
  \/ FlushAll \/ ReadEmpty \/ Fill \/ OverBackup \/ OverPkts
  \/ NothingRead \/ ReadFilled \/ Take \/ OverTaken

Next ==
  \/ RxPoll \/ RxRefill
  \/ TxNew \/ TxAgain \/ TxAcked \/ TxTry
  \/ RegPost \/ RegTry \/ Publish
  \/ Arrive \/ FlushAll \/ ReadEmpty \/ Fill \/ OverBackup \/ OverPkts
  \/ NothingRead \/ ReadFilled \/ Take \/ OverTaken
  \/ Restart

Spec == Init /\ [][Next]_vars

(* Both threads run for ever.  A stack thread keeps polling and its pool   *)
(* is not empty for ever; nothing is assumed of lwip, of the application   *)
(* or of the network.                                                      *)
FairSpec ==
  /\ Spec
  /\ WF_vars(StackStep) /\ SF_vars(RxRefill)
  /\ WF_vars(LtranStep)

-----------------------------------------------------------------------------
InRing == Between(cons_tail, cons_head)
Lent == IF stack_pc = "publish" THEN InRing \o pend ELSE InRing

(* The cursors are in order, in uint32_t, and at most Capacity apart; the  *)
(* counter that decides on refilling or freeing agrees with them.          *)
TypeOK ==
  /\ slot \in [0..(Size - 1) -> Buf] /\ cell \in [Buf -> {0} \cup Names]
  /\ {cons_tail, prod_tail, prod_head, cons_head} \subseteq 0..(Mod - 1)
  /\ Dist(cons_tail, prod_tail) + Dist(prod_tail, prod_head)
       + Dist(prod_head, cons_head) <= Capacity
  /\ held \subseteq Buf /\ used \in 0..Capacity
  /\ Len(backup) <= BackupSize /\ Len(pkt_buf) <= ReadSize
  /\ used = CASE use = "rx" -> Capacity - Len(InRing)
               [] use = "tx" -> Len(InRing)
               [] use = "reg" -> 0

(* An mbuf is free when nobody refers to it: its count is what lwip, the   *)
(* ring and a call under way make of it.  So none is handed out while      *)
(* ltran may copy into or out of it, and none is lost.                     *)
RefsExact ==
  use # "reg" =>
    \A b \in Buf :
      refs[b] = (IF b \in held THEN 1 ELSE 0) + Times(b, InRing \o pend)

(* Everything handed over is where the next reader will find it, once, in  *)
(* the order it came, with the contents it had: neither reuse of a buffer  *)
(* nor a late or early cursor nor the way through the backup changes that. *)
DueIntact ==
  due = IF use = "rx"
          THEN Packets(Contents(Between(cons_tail, prod_head))) \o backup \o pkt_buf
          ELSE Contents(got \o Between(prod_head, cons_head))

(* What ltran has read and not yet used nobody frees or writes to: the     *)
(* stack thread takes back only what gazelle_ring_read_over names.         *)
NoReuseWhileHeld ==
  [][\A b \in Range(got) \cap Range(got') :
       cell'[b] = cell[b] /\ (use # "reg" => refs'[b] > 0)]_vars

(* Every packet and message arrives or is dropped in the end: nobody waits *)
(* for mbufs that the other side does not know it should give back.  Only  *)
(* what an ltran that died had copied, and had not yet told the stack of,  *)
(* waits for the packet after it.                                          *)
Stranded(n) ==
  /\ restarted
  /\ LET bufs == Between(prod_tail, prod_head) IN
     \E i \in DOMAIN bufs : cell[bufs[i]] = n

EverythingLeaves == <>[](\A i \in DOMAIN due : Stranded(due[i]))
=============================================================================
