------------------------ MODULE LocklessQueueProofs ------------------------
(* Safety of the RPC queue for any number of threads and messages. *)
EXTENDS LocklessQueue, TLAPS

-----------------------------------------------------------------------------
(* The stack thread is one of the threads. *)
LEMMA StackThreadInThread == StackThread \in Thread
  BY DEF Thread

(* After lockless_queue_init the invariant holds: the list is the stub.       *)
LEMMA InitInd ==
  ASSUME Init PROVE IndInv
<1> USE QueueAssumption DEF Init
<1>1. TypeOK
  <2>1. excuse \in BOOLEAN
    BY Zenon
  <2>2. count \in Nat /\ q \in Seq(Node) /\ chain \in Seq(Slot)
    BY DEF Slot
  <2> QED
    BY <2>1, <2>2 DEF TypeOK, Slot, Thread
<1>2. Queued = {Stub}
  BY DEF Queued
<1>3. ListIntact
  BY DEF ListIntact, Slot
<1>4. LinkPending /\ PushPrivate /\ PopStage /\ Excused /\ CountStage
  BY <1>2 DEF LinkPending, PushPrivate, PopStage, Excused, CountStage,
              Handling, Thread
<1>5. Mirrors
  BY <1>2 DEF Mirrors
<1> QED
  BY <1>1, <1>3, <1>4, <1>5 DEF IndInv

(* What the private part of a push leaves of the list. *)
LEMMA EnterPushList ==
  ASSUME IndInv, NEW t \in Thread, NEW n \in Slot, EnterPush(t, n),
         n \notin Queued, UNCHANGED <<chain, head, tail>>
  PROVE  /\ \A i \in 1..Len(chain) : next'[chain[i]] = next[chain[i]]
         /\ next' \in [Slot -> Slot \cup {NULL}]
         /\ next'[n] = NULL
         /\ \A s \in Thread : /\ push_pc'[s] = IF s = t THEN "swap" ELSE push_pc[s]
                              /\ push_node'[s] = IF s = t THEN n ELSE push_node[s]
                              /\ old_head'[s] = old_head[s]
         /\ push_pc' \in [Thread -> {"idle", "swap", "link"}]
         /\ push_node' \in [Thread -> Slot]
         /\ old_head' \in [Thread -> Slot]
         /\ Queued' = Queued
         /\ ListIntact'
         /\ LinkPending'
<1> USE QueueAssumption DEF IndInv
<1>1. \A i \in 1..Len(chain) : chain[i] \in Slot /\ chain[i] # n
  BY DEF TypeOK, Queued
<1>2. /\ \A i \in 1..Len(chain) : next'[chain[i]] = next[chain[i]]
      /\ next'[n] = NULL
      /\ next' \in [Slot -> Slot \cup {NULL}]
  BY <1>1 DEF TypeOK, EnterPush
<1>3. \A s \in Thread : /\ push_pc'[s] = IF s = t THEN "swap" ELSE push_pc[s]
                        /\ push_node'[s] = IF s = t THEN n ELSE push_node[s]
                        /\ old_head'[s] = old_head[s]
  BY DEF TypeOK, EnterPush
<1>4. /\ push_pc' \in [Thread -> {"idle", "swap", "link"}]
      /\ push_node' \in [Thread -> Slot]
      /\ old_head' \in [Thread -> Slot]
  BY DEF TypeOK, EnterPush
<1>5. push_pc[t] = "idle"
  BY DEF EnterPush
<1>6. \A i \in 1..(Len(chain) - 1), s \in Thread : Fills(s, i) => Fills(s, i)'
  BY <1>3, <1>5 DEF Fills
<1>7. Queued' = Queued
  BY DEF Queued
<1>8. ListIntact'
  BY <1>1, <1>2, <1>6 DEF ListIntact, TypeOK
<1>9. LinkPending'
  <2> SUFFICES ASSUME NEW s \in Thread, push_pc'[s] = "link"
               PROVE  \E i \in 1..(Len(chain) - 1) :
                         Fills(s, i)' /\ next'[chain[i]] = NULL
    BY DEF LinkPending
  <2>1. push_pc[s] = "link"
    BY <1>3
  <2>2. PICK i \in 1..(Len(chain) - 1) : Fills(s, i) /\ next[chain[i]] = NULL
    BY <2>1 DEF LinkPending
  <2>3. i \in 1..Len(chain)
    BY DEF TypeOK
  <2> QED
    BY <1>2, <1>6, <2>2, <2>3
<1> QED
  BY <1>2, <1>3, <1>4, <1>7, <1>8, <1>9

(* What advancing queue->tail over a linked node leaves of the list. *)
LEMMA AdvanceTail ==
  ASSUME IndInv, next[tail] # NULL, tail' = next[tail], chain' = Tail(chain),
         UNCHANGED <<head, next, push_pc, push_node, old_head>>
  PROVE  /\ Len(chain) >= 2
         /\ Len(chain') = Len(chain) - 1
         /\ \A i \in 1..Len(chain') : chain'[i] = chain[i + 1]
         /\ chain' \in Seq(Slot)
         /\ tail' \in Slot
         /\ tail \in Queued
         /\ Queued' = Queued \ {tail}
         /\ ListIntact'
         /\ LinkPending'
<1> USE QueueAssumption DEF IndInv
<1>1. Len(chain) >= 2 /\ tail = chain[1]
  BY DEF ListIntact, TypeOK
<1>2. /\ Len(chain') = Len(chain) - 1
      /\ \A i \in 1..Len(chain') : chain'[i] = chain[i + 1]
      /\ chain' \in Seq(Slot)
  <2>1. chain # << >>
    BY <1>1
  <2> QED
    BY <1>1, <2>1 DEF TypeOK
<1>3. tail' \in Slot /\ tail' = chain'[1]
  BY <1>1, <1>2 DEF ListIntact, TypeOK
<1>4. Queued' = Queued \ {tail} /\ tail \in Queued
  <2>1. Queued = {chain[i] : i \in 1..Len(chain)}
    BY DEF Queued, TypeOK
  <2>2. Queued' = {chain'[i] : i \in 1..Len(chain')}
    <3>1. DOMAIN chain' = 1..Len(chain')
      BY <1>2
    <3> QED
      BY <3>1 DEF Queued
  <2>3. \A i \in 1..Len(chain') : i + 1 \in 1..Len(chain)
    BY <1>1, <1>2 DEF TypeOK
  <2>4. Queued' \subseteq Queued
    BY <2>1, <2>2, <2>3, <1>2
  <2>5. tail \notin Queued'
    <3> SUFFICES ASSUME NEW i \in 1..Len(chain'), chain'[i] = tail PROVE FALSE
      BY <2>2
    <3>1. i + 1 \in 1..Len(chain) /\ 1 \in 1..Len(chain) /\ chain[i + 1] = chain[1]
      BY <1>1, <1>2, <2>3 DEF TypeOK
    <3>2. i + 1 = 1
      BY <3>1 DEF ListIntact
    <3> QED
      BY <3>2
  <2>6. ASSUME NEW x \in Queued, x # tail PROVE x \in Queued'
    <3>1. PICK i \in 1..Len(chain) : x = chain[i]
      BY <2>1
    <3>2. i # 1 /\ i - 1 \in 1..Len(chain')
      BY <3>1, <2>6, <1>1, <1>2 DEF TypeOK
    <3>3. chain'[i - 1] = x
      BY <3>1, <3>2, <1>2 DEF TypeOK
    <3> QED
      BY <3>2, <3>3, <2>2
  <2>7. tail \in Queued
    BY <1>1, <2>1 DEF TypeOK
  <2> QED
    BY <2>4, <2>5, <2>6, <2>7
<1>5. \A i \in 1..(Len(chain') - 1), s \in Thread :
        Fills(s, i)' <=> Fills(s, i + 1)
  BY <1>1, <1>2 DEF Fills, TypeOK
<1>6. ListIntact'
  <2>1. Len(chain') > 0 /\ head' = chain'[Len(chain')] /\ next'[head'] = NULL
    <3>1. Len(chain) \in Nat /\ Len(chain') \in 1..Len(chain')
      BY <1>1, <1>2 DEF TypeOK
    <3>2. chain'[Len(chain')] = chain[Len(chain)]
      BY <3>1, <1>2
    <3>3. Len(chain') > 0
      BY <3>1, <1>2
    <3> QED
      BY <3>2, <3>3 DEF ListIntact
  <2>2. \A i, j \in 1..Len(chain') : chain'[i] = chain'[j] => i = j
    BY <1>1, <1>2 DEF ListIntact, TypeOK
  <2>3. \A i \in 1..(Len(chain') - 1) :
          \/ next'[chain'[i]] = chain'[i + 1]
          \/ next'[chain'[i]] = NULL /\ \E t \in Thread : Fills(t, i)'
    <3> SUFFICES ASSUME NEW i \in 1..(Len(chain') - 1)
                 PROVE \/ next'[chain'[i]] = chain'[i + 1]
                       \/ next'[chain'[i]] = NULL /\ \E t \in Thread : Fills(t, i)'
      OBVIOUS
    <3>1. /\ i + 1 \in 1..(Len(chain) - 1) /\ chain'[i] = chain[i + 1]
          /\ chain'[i + 1] = chain[(i + 1) + 1]
      BY <1>1, <1>2 DEF TypeOK
    <3>2. \/ next[chain[i + 1]] = chain[(i + 1) + 1]
          \/ next[chain[i + 1]] = NULL /\ \E t \in Thread : Fills(t, i + 1)
      BY <3>1 DEF ListIntact
    <3> QED
      BY <3>1, <3>2, <1>5
  <2> QED
    BY <1>3, <2>1, <2>2, <2>3 DEF ListIntact
<1>7. LinkPending'
  <2> SUFFICES ASSUME NEW t \in Thread, push_pc[t] = "link"
               PROVE \E i \in 1..(Len(chain') - 1) :
                       Fills(t, i)' /\ next[chain'[i]] = NULL
    BY DEF LinkPending
  <2>1. PICK i \in 1..(Len(chain) - 1) : Fills(t, i) /\ next[chain[i]] = NULL
    BY DEF LinkPending
  <2>2. i # 1
    BY <2>1, <1>1
  <2>3. i - 1 \in 1..(Len(chain') - 1) /\ (i - 1) + 1 = i
    BY <2>2, <1>1, <1>2 DEF TypeOK
  <2>4. chain'[i - 1] = chain[i] /\ Fills(t, i - 1)'
    BY <2>1, <2>3, <1>2, <1>5 DEF TypeOK
  <2> QED
    BY <2>1, <2>3, <2>4
<1> QED
  BY <1>1, <1>2, <1>3, <1>4, <1>6, <1>7

(* A caller takes a free message for its push. *)
LEMMA PushCallInd ==
  ASSUME IndInv, NEW p \in Producer, NEW n \in Node, PushCall(p, n)
  PROVE  IndInv'
<1> USE QueueAssumption DEF IndInv
<1>0. /\ p \in Thread /\ p # StackThread /\ n \in Slot /\ n # Stub
      /\ n \notin Queued /\ EnterPush(p, n) /\ push_pc[p] = "idle"
      /\ UNCHANGED <<chain, head, tail, pop_pc, popped, q, excuse, cursor, count>>
  BY DEF PushCall, EnterPush, Idle, Thread, Slot, countVars
<1>1. /\ TypeOK' /\ ListIntact' /\ LinkPending' /\ Queued' = Queued
      /\ next'[n] = NULL
  BY <1>0, EnterPushList DEF TypeOK
<1>2. \A t \in Thread : /\ push_pc'[t] = IF t = p THEN "swap" ELSE push_pc[t]
                        /\ push_node'[t] = IF t = p THEN n ELSE push_node[t]
  BY <1>0, EnterPushList
<1>3. \A t \in Thread \ {p} : push_pc[t] = "swap" =>
        next'[push_node[t]] = NULL
  BY <1>0 DEF PushPrivate, EnterPush, TypeOK
<1>4. PushPrivate'
  BY <1>0, <1>1, <1>2, <1>3 DEF PushPrivate, PushCall, Idle, Handling
<1>5. PopStage'
  BY <1>0, <1>1, <1>2 DEF PopStage, Thread
<1>6. Mirrors' /\ CountStage'
  BY <1>0, <1>1 DEF Mirrors, CountStage
<1>7. Unpublished' = Unpublished
  BY <1>0, <1>2 DEF Unpublished
<1>8. next'[tail] = next[tail]
  BY <1>0, EnterPushList DEF ListIntact, TypeOK
<1>9. Excused'
  BY <1>0, <1>7, <1>8 DEF Excused
<1> QED
  BY <1>1, <1>4, <1>5, <1>6, <1>9

(* The store prev->next = node joins two stretches of the list. *)
LEMMA PushLinkInd ==
  ASSUME IndInv, NEW t \in Thread, PushLink(t)
  PROVE  IndInv'
<1> USE QueueAssumption DEF IndInv
<1>0. /\ push_pc[t] = "link"
      /\ UNCHANGED <<head, tail, push_node, old_head, pop_pc, popped, cursor,
                     count, q, chain, excuse>>
      /\ Queued' = Queued /\ Handling' = Handling
  BY DEF PushLink, Queued, Handling, countVars
<1>1. PICK k \in 1..(Len(chain) - 1) : Fills(t, k) /\ next[chain[k]] = NULL
  BY <1>0 DEF LinkPending
<1>2. /\ Len(chain) \in Nat /\ k \in 1..Len(chain) /\ k + 1 \in 1..Len(chain)
      /\ \A i \in 1..Len(chain) : chain[i] \in Slot
      /\ \A i \in 1..(Len(chain) - 1) : i \in 1..Len(chain) /\ i + 1 \in 1..Len(chain)
  BY DEF TypeOK
<1>3. /\ next' = [next EXCEPT ![chain[k]] = chain[k + 1]]
      /\ next \in [Slot -> Slot \cup {NULL}]
  BY <1>1 DEF PushLink, Fills, TypeOK
<1>4. \A i \in 1..Len(chain) :
        next'[chain[i]] = IF i = k THEN chain[k + 1] ELSE next[chain[i]]
  BY <1>2, <1>3 DEF ListIntact
<1>5. \A n \in Slot : n \notin Queued => next'[n] = next[n]
  BY <1>2, <1>3 DEF Queued, TypeOK
<1>6. \A s \in Thread : push_pc'[s] = IF s = t THEN "idle" ELSE push_pc[s]
  BY DEF PushLink, TypeOK
<1>7. TypeOK'
  BY <1>0, <1>2, <1>3 DEF TypeOK, PushLink
<1>8. \A i \in 1..(Len(chain) - 1), s \in Thread : Fills(s, i) /\ i # k => Fills(s, i)'
  <2> SUFFICES ASSUME NEW i \in 1..(Len(chain) - 1), NEW s \in Thread, Fills(s, i), i # k
               PROVE  Fills(s, i)'
    OBVIOUS
  <2>1. chain[i] # chain[k]
    BY <1>2 DEF ListIntact
  <2>2. s # t
    BY <2>1, <1>1 DEF Fills
  <2> QED
    BY <2>2, <1>0, <1>6 DEF Fills
<1>9. ListIntact'
  <2>1. next'[head'] = NULL
    <3>1. Len(chain) \in 1..Len(chain) /\ Len(chain) # k
      BY <1>2
    <3> QED
      BY <3>1, <1>0, <1>4 DEF ListIntact
  <2>2. \A i \in 1..(Len(chain) - 1) :
          \/ next'[chain[i]] = chain[i + 1]
          \/ next'[chain[i]] = NULL /\ \E s \in Thread : Fills(s, i)'
    BY <1>2, <1>4, <1>8 DEF ListIntact
  <2> QED
    BY <1>0, <2>1, <2>2 DEF ListIntact
<1>10. LinkPending'
  <2> SUFFICES ASSUME NEW s \in Thread, push_pc'[s] = "link"
               PROVE \E i \in 1..(Len(chain) - 1) :
                       Fills(s, i)' /\ next'[chain[i]] = NULL
    BY <1>0 DEF LinkPending
  <2>1. s # t /\ push_pc[s] = "link"
    BY <1>6
  <2>2. PICK i \in 1..(Len(chain) - 1) : Fills(s, i) /\ next[chain[i]] = NULL
    BY <2>1 DEF LinkPending
  <2>3. push_node[s] # push_node[t]
    BY <2>1, <1>0 DEF PushPrivate
  <2>4. i # k
    BY <2>2, <2>3, <1>1 DEF Fills
  <2> QED
    BY <2>2, <2>4, <1>2, <1>4, <1>8
<1>11. PushPrivate'
  BY <1>0, <1>5, <1>6 DEF PushPrivate, TypeOK
<1>12. PopStage'
  BY <1>0, <1>6, StackThreadInThread DEF PopStage
<1>13. Mirrors' /\ CountStage'
  BY <1>0 DEF Mirrors, CountStage
<1>14. Excused'
  <2>1. Unpublished' = Unpublished \ {t}
    BY <1>0, <1>6 DEF Unpublished
  <2>2. ASSUME pop_pc = "head", ~excuse, next[tail] = NULL PROVE next'[tail] = NULL
    <3>1. push_node[t] # Stub
      BY <1>0, <2>2 DEF PopStage
    <3>2. t \in Unpublished
      BY <1>0, <3>1 DEF Unpublished
    <3> QED
      BY <3>2, <2>2 DEF Excused
  <2> QED
    BY <1>0, <2>1, <2>2 DEF Excused
<1> QED
  BY <1>7, <1>9, <1>10, <1>11, <1>12, <1>13, <1>14

(* The exchange of queue->head appends a node behind a gap. *)
LEMMA PushSwapInd ==
  ASSUME IndInv, NEW t \in Thread, PushSwap(t)
  PROVE  IndInv'
<1> USE QueueAssumption DEF IndInv
<1> DEFINE n == push_node[t]
<1>0. /\ push_pc[t] = "swap" /\ n \in Slot /\ n \notin Queued /\ next[n] = NULL
      /\ UNCHANGED <<tail, next, push_node, pop_pc, popped, cursor, count>>
      /\ chain' = Append(chain, n) /\ head' = n
      /\ Handling' = Handling
  BY DEF PushSwap, countVars, PushPrivate, TypeOK, Handling
<1>1. \A s \in Thread : /\ push_pc'[s] = IF s = t THEN "link" ELSE push_pc[s]
                        /\ old_head'[s] = IF s = t THEN head ELSE old_head[s]
  BY DEF PushSwap, TypeOK
<1> HIDE DEF n
<1>2. /\ Len(chain) \in Nat /\ Len(chain) > 0
      /\ Len(chain') = Len(chain) + 1
      /\ \A i \in 1..Len(chain) : chain'[i] = chain[i] /\ chain[i] # n
      /\ chain'[Len(chain) + 1] = n
      /\ chain' \in Seq(Slot)
  BY <1>0 DEF TypeOK, ListIntact, Queued
<1>3. Queued' = Queued \cup {n}
  <2>1. Queued = {chain[i] : i \in 1..Len(chain)}
    BY DEF Queued, TypeOK
  <2>2. DOMAIN chain' = 1..(Len(chain) + 1)
    BY <1>2
  <2>3. Queued' = {chain'[i] : i \in 1..(Len(chain) + 1)}
    BY <2>2 DEF Queued
  <2> QED
    BY <2>1, <2>3, <1>2
<1>4. TypeOK'
  <2>1. excuse' \in BOOLEAN
    BY Zenon DEF PushSwap, TypeOK
  <2>2. q' \in Seq(Node)
    <3>1. CASE n = Stub
      BY <3>1 DEF PushSwap, TypeOK, n
    <3>2. CASE n # Stub
      <4>1. n \in Node /\ q' = Append(q, n) /\ q \in Seq(Node)
        BY <3>2, <1>0 DEF PushSwap, TypeOK, Slot, n
      <4> QED
        BY <4>1
    <3> QED
      BY <3>1, <3>2
  <2>3. /\ push_pc' \in [Thread -> {"idle", "swap", "link"}]
        /\ old_head' \in [Thread -> Slot]
    BY DEF PushSwap, TypeOK
  <2> QED
    BY <1>0, <1>2, <2>1, <2>2, <2>3 DEF TypeOK
<1>5. \A i \in 1..Len(chain) : i = Len(chain) => Fills(t, i)'
  BY <1>0, <1>1, <1>2 DEF Fills, ListIntact, n
<1>6. \A i \in 1..(Len(chain) - 1), s \in Thread : Fills(s, i) => Fills(s, i)'
  <2> SUFFICES ASSUME NEW i \in 1..(Len(chain) - 1), NEW s \in Thread, Fills(s, i)
               PROVE  Fills(s, i)'
    OBVIOUS
  <2>1. s # t /\ i \in 1..Len(chain) /\ i + 1 \in 1..Len(chain)
    BY <1>0, <1>2 DEF Fills
  <2> QED
    BY <2>1, <1>0, <1>1, <1>2 DEF Fills
<1>7. ListIntact'
  <2>1. \A i \in 1..Len(chain) :
          \/ next[chain'[i]] = chain'[i + 1]
          \/ next[chain'[i]] = NULL /\ \E s \in Thread : Fills(s, i)'
    <3> SUFFICES ASSUME NEW i \in 1..Len(chain)
                 PROVE \/ next[chain'[i]] = chain'[i + 1]
                       \/ next[chain'[i]] = NULL /\ \E s \in Thread : Fills(s, i)'
      OBVIOUS
    <3>1. CASE i = Len(chain)
      BY <3>1, <1>2, <1>5 DEF ListIntact
    <3>2. CASE i # Len(chain)
      <4>1. i \in 1..(Len(chain) - 1) /\ i + 1 \in 1..Len(chain)
        BY <3>2, <1>2
      <4> QED
        BY <4>1, <1>2, <1>6 DEF ListIntact
    <3> QED
      BY <3>1, <3>2
  <2>2. \A i, j \in 1..Len(chain') : chain'[i] = chain'[j] => i = j
    BY <1>2 DEF ListIntact
  <2>3. tail' = chain'[1] /\ head' = chain'[Len(chain')] /\ next'[head'] = NULL
    BY <1>0, <1>2 DEF ListIntact
  <2> QED
    BY <1>0, <1>2, <2>1, <2>2, <2>3 DEF ListIntact
<1>8. LinkPending'
  <2> SUFFICES ASSUME NEW s \in Thread, push_pc'[s] = "link"
               PROVE \E i \in 1..Len(chain) : Fills(s, i)' /\ next[chain'[i]] = NULL
    BY <1>0, <1>2 DEF LinkPending
  <2>1. CASE s = t
    BY <2>1, <1>2, <1>5 DEF ListIntact
  <2>2. CASE s # t
    <3>1. PICK i \in 1..(Len(chain) - 1) : Fills(s, i) /\ next[chain[i]] = NULL
      BY <2>2, <1>1 DEF LinkPending
    <3> QED
      BY <3>1, <1>2, <1>6
  <2> QED
    BY <2>1, <2>2
<1>9. PushPrivate'
  BY <1>0, <1>1, <1>3 DEF PushPrivate, n
<1>10. PopStage'
  BY <1>0, <1>1, <1>3, StackThreadInThread DEF PopStage, n
<1>11. Mirrors'
  <2>1. CASE n = Stub
    <3>1. Stub \notin Queued /\ q' = q
      BY <2>1, <1>0 DEF PushSwap, n
    <3>2. Len(q) = Len(chain) /\ \A i \in 1..Len(q) : q[i] = chain[i]
      <4>1. \A k \in 1..Len(chain) : chain[k] # Stub
        BY <2>1, <1>2
      <4> QED
        BY <4>1 DEF Mirrors
    <3> QED
      BY <2>1, <3>1, <3>2, <1>2 DEF Mirrors
  <2>2. CASE n # Stub
    <3>1. q' = Append(q, n) /\ q \in Seq(Node) /\ n \in Node
      BY <2>2, <1>0 DEF PushSwap, n, TypeOK, Slot
    <3>2. /\ Len(q) \in Nat /\ Len(q') = Len(q) + 1 /\ q'[Len(q) + 1] = n
          /\ \A i \in 1..Len(q) : q'[i] = q[i]
      BY <3>1
    <3>3. CASE Stub \notin Queued
      <4>1. Len(q) = Len(chain) /\ \A i \in 1..Len(q) : q[i] = chain[i]
        BY <3>3, <1>2 DEF Mirrors, Queued, TypeOK
      <4>2. \A i \in 1..Len(q') : q'[i] = chain'[i]
        BY <4>1, <3>2, <1>2
      <4> QED
        BY <2>2, <3>2, <3>3, <4>1, <4>2, <1>2, <1>3 DEF Mirrors
    <3>4. CASE Stub \in Queued
      <4>1. PICK k \in 1..Len(chain) :
              /\ chain[k] = Stub
              /\ Len(q) = Len(chain) - 1
              /\ \A i \in 1..Len(q) : q[i] = chain[IF i < k THEN i ELSE i + 1]
        BY <3>4 DEF Mirrors
      <4>2. k \in 1..Len(chain') /\ chain'[k] = Stub /\ Len(q') = Len(chain') - 1
        BY <4>1, <3>2, <1>2
      <4>3. \A i \in 1..Len(q') : q'[i] = chain'[IF i < k THEN i ELSE i + 1]
        BY <4>1, <3>2, <1>2
      <4> QED
        BY <4>2, <4>3 DEF Mirrors
    <3> QED
      BY <3>3, <3>4
  <2> QED
    BY <2>1, <2>2
<1>12. Excused'
  <2>1. CASE n = Stub
    <3>1. q' = q /\ excuse' = excuse /\ Unpublished' = Unpublished
      BY <2>1, <1>0, <1>1 DEF PushSwap, n, Unpublished
    <3> QED
      BY <3>1, <1>0 DEF Excused
  <2>2. CASE n # Stub
    <3>1. excuse'
      BY <2>2 DEF PushSwap, n
    <3> QED
      BY <3>1 DEF Excused
  <2> QED
    BY <2>1, <2>2
<1>13. CountStage'
  BY <1>0, <1>2 DEF CountStage, TypeOK
<1> QED
  BY <1>4, <1>7, <1>8, <1>9, <1>10, <1>11, <1>12, <1>13

-----------------------------------------------------------------------------
(* The stack thread's own steps leave the list alone or drop its oldest node. *)
LEMMA Frame ==
  ASSUME IndInv,
         UNCHANGED <<head, tail, next, push_pc, push_node, old_head, q, chain>>
  PROVE  /\ ListIntact' /\ LinkPending' /\ Mirrors'
         /\ Queued' = Queued /\ Unpublished' = Unpublished
<1>1. \A i \in Nat, t \in Thread : Fills(t, i)' <=> Fills(t, i)
  BY DEF Fills
<1>2. ListIntact' /\ LinkPending'
  BY <1>1 DEF IndInv, TypeOK, ListIntact, LinkPending, Fills
<1> QED
  BY <1>2 DEF IndInv, Mirrors, Queued, Unpublished

(* pop hands out the oldest node, and the next one becomes queue->tail. *)
LEMMA ReturnTailInd ==
  ASSUME IndInv, pop_pc \in {"pop", "next", "stub"}, tail # Stub,
         push_pc[StackThread] = "idle", next[tail] # NULL, ReturnTail,
         UNCHANGED <<head, next, push_pc, push_node, old_head, cursor, count,
                     excuse>>
  PROVE  IndInv' /\ q # << >> /\ Head(q) = tail
<1> USE QueueAssumption DEF IndInv
<1>0. /\ tail' = next[tail] /\ chain' = Tail(chain) /\ popped' = tail
      /\ pop_pc' = "handle" /\ q' = Tail(q)
  BY DEF ReturnTail
<1>1. /\ Len(chain) >= 2
      /\ Len(chain') = Len(chain) - 1
      /\ \A i \in 1..Len(chain') : chain'[i] = chain[i + 1]
      /\ chain' \in Seq(Slot)
      /\ tail' \in Slot
      /\ tail \in Queued
      /\ Queued' = Queued \ {tail}
      /\ ListIntact'
      /\ LinkPending'
  BY <1>0, AdvanceTail
<1>2. tail = chain[1] /\ Len(chain) \in Nat /\ tail \in Node
  BY DEF ListIntact, TypeOK, Slot
<1>3. Len(q) >= 1 /\ q[1] = tail /\ q \in Seq(Node)
  <2>1. CASE Stub \notin Queued
    <3>1. \A k \in 1..Len(chain) : chain[k] # Stub
      BY <2>1 DEF Queued, TypeOK
    <3> QED
      BY <3>1, <1>1, <1>2 DEF Mirrors, TypeOK
  <2>2. CASE Stub \in Queued
    <3>1. PICK k \in 1..Len(chain) :
            /\ chain[k] = Stub
            /\ Len(q) = Len(chain) - 1
            /\ \A i \in 1..Len(q) : q[i] = chain[IF i < k THEN i ELSE i + 1]
      BY <2>2 DEF Mirrors
    <3>2. k # 1
      BY <3>1, <1>2
    <3> QED
      BY <3>1, <3>2, <1>1, <1>2 DEF TypeOK
  <2> QED
    BY <2>1, <2>2
<1>4. q # << >> /\ Head(q) = tail
  BY <1>3
<1>5. /\ Len(q') = Len(q) - 1 /\ Len(q) \in Nat
      /\ \A i \in 1..Len(q') : q'[i] = q[i + 1]
      /\ q' \in Seq(Node)
  BY <1>0, <1>3, <1>4
<1>6. TypeOK'
  BY <1>0, <1>1, <1>2, <1>5 DEF TypeOK
<1>7. Mirrors'
  <2>1. CASE Stub \notin Queued
    <3>1. Len(q) = Len(chain) /\ \A i \in 1..Len(q) : q[i] = chain[i]
      <4>1. \A k \in 1..Len(chain) : chain[k] # Stub
        BY <2>1 DEF Queued, TypeOK
      <4> QED
        BY <4>1 DEF Mirrors
    <3>2. \A i \in 1..Len(q') : q'[i] = chain'[i]
      BY <3>1, <1>1, <1>5
    <3> QED
      BY <2>1, <3>1, <3>2, <1>1, <1>5 DEF Mirrors
  <2>2. CASE Stub \in Queued
    <3>1. PICK k \in 1..Len(chain) :
            /\ chain[k] = Stub
            /\ Len(q) = Len(chain) - 1
            /\ \A i \in 1..Len(q) : q[i] = chain[IF i < k THEN i ELSE i + 1]
      BY <2>2 DEF Mirrors
    <3>2. k - 1 \in 1..Len(chain') /\ chain'[k - 1] = Stub
      <4>1. k # 1
        BY <3>1, <1>2
      <4>2. k - 1 \in 1..(Len(chain) - 1)
        BY <4>1, <1>2
      <4>3. Len(chain') = Len(chain) - 1
        BY <1>1
      <4>4. chain'[k - 1] = chain[(k - 1) + 1]
        BY <1>1, <4>2, <4>3
      <4> QED
        BY <4>2, <4>3, <4>4, <3>1
    <3>3. \A i \in 1..Len(q') : q'[i] = chain'[IF i < k - 1 THEN i ELSE i + 1]
      <4> SUFFICES ASSUME NEW i \in 1..Len(q')
                   PROVE q'[i] = chain'[IF i < k - 1 THEN i ELSE i + 1]
        OBVIOUS
      <4>1. i + 1 \in 1..Len(q) /\ q'[i] = q[i + 1] /\ i \in Nat
        BY <1>5
      <4>2. CASE i < k - 1
        <5>1. q[i + 1] = chain[i + 1] /\ i \in 1..Len(chain')
          BY <3>1, <4>1, <4>2, <1>1
        <5> QED
          BY <5>1, <4>1, <4>2, <1>1
      <4>3. CASE ~(i < k - 1)
        <5>1. q[i + 1] = chain[(i + 1) + 1] /\ i + 1 \in 1..Len(chain')
          BY <3>1, <4>1, <4>3, <1>1
        <5> QED
          BY <5>1, <4>1, <4>3, <1>1
      <4> QED
        BY <4>2, <4>3
    <3> QED
      BY <3>1, <3>2, <3>3, <1>1, <1>5 DEF Mirrors
  <2> QED
    BY <2>1, <2>2
<1>8. PushPrivate'
  BY <1>0, <1>1, <1>2 DEF PushPrivate, Handling
<1>9. PopStage'
  BY <1>0, StackThreadInThread DEF PopStage
<1>10. Excused' /\ CountStage'
  BY <1>0 DEF Excused, CountStage
<1> QED
  BY <1>1, <1>4, <1>6, <1>7, <1>8, <1>9, <1>10

(* pop gives up: the queue is as it was. *)
LEMMA ReturnNullInd ==
  ASSUME IndInv, push_pc[StackThread] = "idle", ReturnNull,
         UNCHANGED <<head, next, push_pc, push_node, old_head, cursor, count,
                     excuse>>
  PROVE  IndInv'
<1> USE QueueAssumption DEF IndInv
<1>1. pop_pc' = "idle" /\ UNCHANGED <<tail, popped, q, chain>>
  BY DEF ReturnNull
<1>2. TypeOK'
  BY <1>1 DEF TypeOK
<1>3. ListIntact' /\ LinkPending' /\ Mirrors' /\ Queued' = Queued
  BY <1>1, Frame
<1>4. PushPrivate'
  BY <1>1, <1>3 DEF PushPrivate, Handling
<1>5. PopStage' /\ Excused' /\ CountStage'
  BY <1>1, StackThreadInThread DEF PopStage, Excused, CountStage
<1> QED
  BY <1>2, <1>3, <1>4, <1>5

(* The stack thread enters lockless_queue_mpsc_pop. *)
LEMMA PopCallInd ==
  ASSUME IndInv, PopCall
  PROVE  IndInv'
<1> USE QueueAssumption DEF IndInv
<1>1. /\ pop_pc = "idle" /\ pop_pc' = "pop" /\ popped' = NULL
      /\ UNCHANGED <<head, tail, next, push_pc, push_node, old_head, cursor,
                     count, q, chain>>
  BY DEF PopCall, pushVars, countVars
<1>2. ListIntact' /\ LinkPending' /\ Mirrors' /\ Queued' = Queued
      /\ Unpublished' = Unpublished
  BY <1>1, Frame
<1>3. excuse' \in BOOLEAN /\ (~excuse' => q # << >> /\ Unpublished = {})
  BY Zenon DEF PopCall
<1>4. TypeOK'
  BY <1>1, <1>3 DEF TypeOK
<1>5. PushPrivate'
  BY <1>1, <1>2 DEF PushPrivate, Handling
<1>6. PopStage' /\ CountStage'
  BY <1>1, StackThreadInThread DEF PopStage, CountStage
<1>7. Excused'
  BY <1>1, <1>2, <1>3 DEF Excused
<1> QED
  BY <1>2, <1>4, <1>5, <1>6, <1>7

(* pop steps over the stub, or finds nothing behind it. *)
LEMMA PopSkipStubInd ==
  ASSUME IndInv, PopSkipStub
  PROVE  IndInv'
<1> USE QueueAssumption DEF IndInv
<1>0. /\ pop_pc = "pop" /\ tail = Stub
      /\ push_pc[StackThread] = "idle"
      /\ UNCHANGED <<head, next, push_pc, push_node, old_head, cursor, count,
                     excuse>>
  BY StackThreadInThread DEF PopSkipStub, PopStage, pushVars, countVars
<1>1. CASE next[Stub] = NULL
  BY <1>0, <1>1, ReturnNullInd DEF PopSkipStub
<1>2. CASE next[Stub] # NULL
  <2>1. /\ tail' = next[tail] /\ chain' = Tail(chain) /\ pop_pc' = "next"
        /\ popped' = popped /\ q' = q
    BY <1>0, <1>2 DEF PopSkipStub
  <2>2. /\ Len(chain) >= 2
        /\ Len(chain') = Len(chain) - 1
        /\ \A i \in 1..Len(chain') : chain'[i] = chain[i + 1]
        /\ chain' \in Seq(Slot)
        /\ tail' \in Slot
        /\ tail \in Queued
        /\ Queued' = Queued \ {tail}
        /\ ListIntact'
        /\ LinkPending'
    BY <1>0, <1>2, <2>1, AdvanceTail
  <2>3. Len(chain) \in Nat /\ chain[1] = Stub
    BY <1>0 DEF ListIntact, TypeOK
  <2>4. tail' # Stub
    <3>1. 1 \in 1..Len(chain') /\ 1 \in 1..Len(chain) /\ 2 \in 1..Len(chain)
      BY <2>2, <2>3
    <3>2. tail' = chain[2]
      BY <3>1, <2>2 DEF ListIntact
    <3> QED
      BY <3>1, <3>2, <2>3 DEF ListIntact
  <2>5. TypeOK'
    BY <1>0, <2>1, <2>2 DEF TypeOK
  <2>6. Mirrors'
    <3>1. PICK k \in 1..Len(chain) :
            /\ chain[k] = Stub
            /\ Len(q) = Len(chain) - 1
            /\ \A i \in 1..Len(q) : q[i] = chain[IF i < k THEN i ELSE i + 1]
      BY <2>2, <1>0 DEF Mirrors
    <3>2. k = 1
      BY <3>1, <2>3, <2>2 DEF ListIntact
    <3>3. \A i \in 1..Len(q) : q[i] = chain'[i]
      BY <3>1, <3>2, <2>2
    <3> QED
      BY <3>1, <3>3, <2>1, <2>2, <1>0 DEF Mirrors
  <2>7. PushPrivate'
    BY <1>0, <2>1, <2>2 DEF PushPrivate, Handling
  <2>8. PopStage'
    BY <1>0, <2>1, <2>4, StackThreadInThread DEF PopStage
  <2>9. Excused' /\ CountStage'
    BY <1>0, <2>1 DEF Excused, CountStage, Unpublished
  <2> QED
    BY <2>2, <2>5, <2>6, <2>7, <2>8, <2>9
<1> QED
  BY <1>1, <1>2

(* pop looks at the oldest node's next. *)
LEMMA PopNextInd ==
  ASSUME IndInv, PopNext
  PROVE  IndInv'
<1> USE QueueAssumption DEF IndInv
<1>0. /\ pop_pc \in {"pop", "next"} /\ tail # Stub
      /\ push_pc[StackThread] = "idle"
      /\ UNCHANGED <<head, next, push_pc, push_node, old_head, cursor, count,
                     excuse>>
  BY StackThreadInThread DEF PopNext, PopStage, pushVars, countVars
<1>1. CASE next[tail] # NULL
  BY <1>0, <1>1, ReturnTailInd DEF PopNext
<1>2. CASE next[tail] = NULL
  <2>1. pop_pc' = "head" /\ UNCHANGED <<tail, popped, q, chain>>
    BY <1>2 DEF PopNext
  <2>2. ListIntact' /\ LinkPending' /\ Mirrors' /\ Queued' = Queued
        /\ Unpublished' = Unpublished
    BY <1>0, <2>1, Frame
  <2>3. TypeOK'
    BY <1>0, <2>1 DEF TypeOK
  <2>4. PushPrivate'
    BY <1>0, <2>1, <2>2 DEF PushPrivate, Handling
  <2>5. PopStage' /\ CountStage'
    BY <1>0, <2>1, StackThreadInThread DEF PopStage, CountStage
  <2>6. Excused'
    BY <1>0, <1>2, <2>1, <2>2 DEF Excused
  <2> QED
    BY <2>2, <2>3, <2>4, <2>5, <2>6
<1> QED
  BY <1>1, <1>2

(* pop compares queue->head with its node, and pushes the stub if it is last. *)
LEMMA PopReadHeadInd ==
  ASSUME IndInv, PopReadHead
  PROVE  IndInv'
<1> USE QueueAssumption DEF IndInv
<1>0. /\ pop_pc = "head" /\ tail # Stub
      /\ push_pc[StackThread] = "idle"
      /\ UNCHANGED <<head, cursor, count, excuse>>
  BY StackThreadInThread DEF PopReadHead, PopStage, countVars
<1>1. CASE tail # head
  BY <1>0, <1>1, ReturnNullInd DEF PopReadHead, pushVars
<1>2. CASE tail = head
  <2>1. /\ EnterPush(StackThread, Stub) /\ pop_pc' = "stub"
        /\ UNCHANGED <<tail, popped, q, chain>>
    BY <1>2 DEF PopReadHead
  <2>2. Len(chain) = 1 /\ Queued = {tail}
    <3>1. Len(chain) \in 1..Len(chain) /\ 1 \in 1..Len(chain)
      BY DEF ListIntact, TypeOK
    <3>2. Len(chain) = 1
      BY <3>1, <1>2 DEF ListIntact
    <3> QED
      BY <3>2 DEF ListIntact, Queued, TypeOK
  <2>3. Stub \notin Queued /\ Stub \in Slot
    BY <2>2, <1>0 DEF Slot
  <2>4. /\ next' \in [Slot -> Slot \cup {NULL}]
        /\ push_pc' \in [Thread -> {"idle", "swap", "link"}]
        /\ push_node' \in [Thread -> Slot]
        /\ old_head' \in [Thread -> Slot]
        /\ Queued' = Queued
        /\ ListIntact'
        /\ LinkPending'
        /\ next'[Stub] = NULL
    BY <1>0, <2>1, <2>3, StackThreadInThread, EnterPushList
  <2>5. \A t \in Thread :
          /\ push_pc'[t] = IF t = StackThread THEN "swap" ELSE push_pc[t]
          /\ push_node'[t] = IF t = StackThread THEN Stub ELSE push_node[t]
    BY <1>0, <2>1, <2>3, StackThreadInThread, EnterPushList
  <2>6. TypeOK'
    BY <1>0, <2>1, <2>4 DEF TypeOK
  <2>7. \A t \in Thread : push_pc[t] # "idle" => push_node[t] # Stub
    BY <1>0 DEF PopStage
  <2>8. \A t \in Thread : push_pc[t] = "swap" => next'[push_node[t]] = NULL
    BY <2>1 DEF PushPrivate, EnterPush, TypeOK
  <2>9. PushPrivate'
    BY <1>0, <2>1, <2>3, <2>4, <2>5, <2>7, <2>8 DEF PushPrivate, Handling
  <2>10. PopStage'
    BY <1>0, <2>1, <2>5, <2>7, StackThreadInThread DEF PopStage
  <2>11. Mirrors' /\ CountStage'
    BY <1>0, <2>1, <2>4 DEF Mirrors, CountStage
  <2>12. Unpublished' = Unpublished
    BY <1>0, <2>5 DEF Unpublished
  <2>13. Excused'
    BY <1>0, <2>1, <2>12 DEF Excused
  <2> QED
    BY <2>4, <2>6, <2>9, <2>10, <2>11, <2>13
<1> QED
  BY <1>1, <1>2

(* pop looks at the oldest node's next a second time. *)
LEMMA PopAgainInd ==
  ASSUME IndInv, PopAgain
  PROVE  IndInv'
<1>0. /\ pop_pc = "stub" /\ tail # Stub
      /\ push_pc[StackThread] = "idle"
      /\ UNCHANGED <<head, next, push_pc, push_node, old_head, cursor, count,
                     excuse>>
  BY DEF IndInv, PopAgain, PopStage, pushVars, countVars
<1> QED
  BY <1>0, ReturnTailInd, ReturnNullInd DEF PopAgain

(* The handler pushes the message it was given back into the queue. *)
LEMMA RepostInd ==
  ASSUME IndInv, Repost
  PROVE  IndInv'
<1> USE QueueAssumption DEF IndInv
<1>0. /\ pop_pc = "handle" /\ pop_pc' = "repost"
      /\ EnterPush(StackThread, popped)
      /\ popped \in Node /\ popped \in Slot /\ popped # Stub
      /\ popped \notin Queued
      /\ UNCHANGED <<head, tail, popped, cursor, count, q, chain, excuse>>
  BY DEF Repost, PushPrivate, Handling, Slot, countVars
<1>1. /\ next' \in [Slot -> Slot \cup {NULL}]
      /\ push_pc' \in [Thread -> {"idle", "swap", "link"}]
      /\ push_node' \in [Thread -> Slot]
      /\ old_head' \in [Thread -> Slot]
      /\ Queued' = Queued
      /\ ListIntact'
      /\ LinkPending'
      /\ next'[popped] = NULL
  BY <1>0, StackThreadInThread, EnterPushList
<1>2. \A t \in Thread :
        /\ push_pc'[t] = IF t = StackThread THEN "swap" ELSE push_pc[t]
        /\ push_node'[t] = IF t = StackThread THEN popped ELSE push_node[t]
  BY <1>0, StackThreadInThread, EnterPushList
<1>3. TypeOK'
  BY <1>0, <1>1 DEF TypeOK
<1>4. \A t \in Thread : push_pc[t] # "idle" => push_node[t] # popped
  <2>1. \A t \in Thread : push_pc[t] = "link" => push_node[t] \in Queued
    BY DEF LinkPending, Fills, Queued, TypeOK
  <2> QED
    BY <1>0, <2>1 DEF PushPrivate, Handling, TypeOK
<1>5. \A t \in Thread : push_pc[t] = "swap" => next'[push_node[t]] = NULL
  BY <1>0 DEF PushPrivate, EnterPush, TypeOK
<1>6. PushPrivate'
  BY <1>0, <1>1, <1>2, <1>4, <1>5 DEF PushPrivate, Handling
<1>7. PopStage'
  BY <1>0, <1>2, StackThreadInThread DEF PopStage
<1>8. Mirrors' /\ CountStage' /\ Excused'
  BY <1>0, <1>1 DEF Mirrors, CountStage, Excused
<1> QED
  BY <1>1, <1>3, <1>6, <1>7, <1>8

(* Steps of the handler that touch nothing but its own locals. *)
LEMMA HandlerLocalInd ==
  ASSUME IndInv, HandleDone \/ RepostDone \/ CountDone
  PROVE  IndInv'
<1> USE QueueAssumption DEF IndInv
<1>0. /\ pop_pc \in {"handle", "counted", "repost"} /\ pop_pc' = "idle"
      /\ push_pc[StackThread] = "idle"
      /\ UNCHANGED <<head, tail, next, push_pc, push_node, old_head, popped,
                     cursor, count, q, chain, excuse>>
  BY DEF HandleDone, RepostDone, CountDone, PopStage, pushVars, countVars
<1>1. ListIntact' /\ LinkPending' /\ Mirrors' /\ Queued' = Queued
  BY <1>0, Frame
<1>2. TypeOK'
  BY <1>0 DEF TypeOK
<1>3. PushPrivate'
  BY <1>0, <1>1 DEF PushPrivate, Handling
<1>4. PopStage' /\ CountStage' /\ Excused'
  BY <1>0, StackThreadInThread DEF PopStage, CountStage, Excused
<1> QED
  BY <1>1, <1>2, <1>3, <1>4

(* lockless_queue_count starts at queue->tail, past the stub. *)
LEMMA CountCallInd ==
  ASSUME IndInv, CountCall
  PROVE  IndInv'
<1> USE QueueAssumption DEF IndInv
<1>0. /\ pop_pc = "handle" /\ pop_pc' \in {"count", "counted"}
      /\ cursor' = (IF tail = Stub THEN next[Stub] ELSE tail) /\ count' = 0
      /\ (pop_pc' = "counted" => head = tail /\ tail = Stub)
      /\ UNCHANGED <<head, tail, next, push_pc, push_node, old_head, popped,
                     q, chain, excuse>>
  BY DEF CountCall, pushVars
<1>1. ListIntact' /\ LinkPending' /\ Mirrors' /\ Queued' = Queued
  BY <1>0, Frame
<1>2. TypeOK'
  BY <1>0 DEF TypeOK, Slot
<1>3. PushPrivate'
  BY <1>0, <1>1 DEF PushPrivate, Handling
<1>4. PopStage' /\ Excused'
  BY <1>0, StackThreadInThread DEF PopStage, Excused
<1>5. tail = chain[1] /\ Len(chain) \in Nat /\ Len(chain) > 0
      /\ next[chain[Len(chain)]] = NULL
  BY DEF ListIntact, TypeOK
<1>6. next[tail] # NULL => Len(chain) >= 2 /\ next[tail] = chain[2]
  BY <1>5 DEF ListIntact
<1>7. CountStage'
  BY <1>0, <1>5, <1>6 DEF CountStage
<1> QED
  BY <1>1, <1>2, <1>3, <1>4, <1>7

(* lockless_queue_count goes one node on. *)
LEMMA CountStepInd ==
  ASSUME IndInv, CountStep
  PROVE  IndInv'
<1> USE QueueAssumption DEF IndInv
<1>0. /\ pop_pc = "count" /\ pop_pc' \in {"count", "counted"}
      /\ UNCHANGED <<head, tail, next, push_pc, push_node, old_head, popped,
                     q, chain, excuse>>
  BY DEF CountStep, pushVars
<1>1. ListIntact' /\ LinkPending' /\ Mirrors' /\ Queued' = Queued
  BY <1>0, Frame
<1>2. TypeOK'
  BY <1>0 DEF TypeOK, CountStep, countVars, Slot
<1>3. PushPrivate'
  BY <1>0, <1>1 DEF PushPrivate, Handling
<1>4. PopStage' /\ Excused'
  BY <1>0, StackThreadInThread DEF PopStage, Excused
<1>5. CountStage'
  <2> DEFINE skip == IF tail = Stub THEN 1 ELSE 0
  <2>0. skip \in Nat /\ count \in Nat /\ Len(chain) \in Nat
    BY DEF TypeOK
  <2>1. CASE cursor = NULL
    BY <1>0, <2>1 DEF CountStage, CountStep, countVars
  <2>2. CASE cursor # NULL
    <3>1. /\ count + skip + 1 <= Len(chain) /\ cursor = chain[count + skip + 1]
          /\ cursor' = next[cursor] /\ count' = count + 1 /\ pop_pc' = "count"
      BY <1>0, <2>2 DEF CountStage, CountStep
    <3>2. next[cursor] # NULL =>
            /\ count + skip + 2 <= Len(chain)
            /\ next[cursor] = chain[(count + skip + 1) + 1]
      BY <3>1, <2>0 DEF ListIntact
    <3> QED
      BY <1>0, <3>1, <3>2, <2>0 DEF CountStage
  <2> QED
    BY <2>1, <2>2
<1> QED
  BY <1>1, <1>2, <1>3, <1>4, <1>5

-----------------------------------------------------------------------------
(* No step of any thread inside push, pop, count or a handler breaks the    *)
(* inductive invariant.                                                     *)
THEOREM Inductive == IndInv /\ [Next]_vars => IndInv'
<1> SUFFICES ASSUME IndInv, [Next]_vars PROVE IndInv'
  OBVIOUS
<1>1. CASE UNCHANGED vars
  <2>1. UNCHANGED <<head, tail, next, push_pc, push_node, old_head, pop_pc,
                    popped, cursor, count, q, chain, excuse>>
    BY <1>1 DEF vars
  <2>2. ListIntact' /\ LinkPending' /\ Mirrors' /\ Queued' = Queued
        /\ Unpublished' = Unpublished
    BY <2>1, Frame
  <2>3. TypeOK' /\ CountStage' /\ PopStage' /\ Excused'
    BY <2>1, <2>2 DEF IndInv, TypeOK, CountStage, PopStage, Excused
  <2>4. PushPrivate'
    BY <2>1, <2>2 DEF IndInv, PushPrivate, Handling
  <2> QED
    BY <2>2, <2>3, <2>4 DEF IndInv
<1>2. ASSUME NEW p \in Producer, NEW n \in Node, PushCall(p, n) PROVE IndInv'
  BY <1>2, PushCallInd
<1>3. ASSUME NEW t \in Thread, PushSwap(t) \/ PushLink(t) PROVE IndInv'
  BY <1>3, PushSwapInd, PushLinkInd
<1>4. CASE PopStep
  BY <1>4, PopCallInd, PopSkipStubInd, PopNextInd, PopReadHeadInd, PopAgainInd
     DEF PopStep
<1>5. CASE HandlerStep
  BY <1>5, HandlerLocalInd, RepostInd, CountCallInd, CountStepInd
     DEF HandlerStep
<1> QED
  BY <1>1, <1>2, <1>3, <1>4, <1>5 DEF Next

(* The inductive invariant holds in every reachable state. *)
THEOREM Invariance == Spec => []IndInv
  BY InitInd, Inductive, PTL DEF Spec

(* Every variable of the queue keeps its type: in particular queue->tail    *)
(* never becomes NULL and pop returns message nodes only, never the stub.   *)
THEOREM TypeCorrect == Spec => []TypeOK
<1>1. IndInv => TypeOK
  BY DEF IndInv
<1> QED
  BY <1>1, Invariance, PTL

(* Whatever the interleaving of pushes with the pop, the list in memory is  *)
(* the pushes in the order of their exchanges, with gaps only where a       *)
(* pusher is about to store the link.                                       *)
THEOREM ListIntactCorrect == Spec => []ListIntact
<1>1. IndInv => ListIntact
  BY DEF IndInv
<1> QED
  BY <1>1, Invariance, PTL

(* The late store of lockless_queue_mpsc_push never hits a popped message.  *)
THEOREM NoStoreIntoPoppedCorrect == Spec => []NoStoreIntoPopped
<1>1. IndInv => NoStoreIntoPopped
  BY DEF IndInv, NoStoreIntoPopped, LinkPending, Fills, Queued, TypeOK
<1> QED
  BY <1>1, Invariance, PTL

(* A message is never in the queue and in a thread's hands at once.         *)
THEOREM OnePlaceCorrect == Spec => []OnePlace
<1>1. IndInv => OnePlace
  BY DEF IndInv, OnePlace, PushPrivate
<1> QED
  BY <1>1, Invariance, PTL

(* lockless_queue_count never counts more than what is queued.              *)
THEOREM CountSoundCorrect == Spec => []CountSound
<1>1. IndInv => CountSound
  <2> SUFFICES ASSUME IndInv, pop_pc = "counted"
               PROVE  count <= Len(q) + (IF \E i \in 2..Len(chain) : chain[i] = Stub
                                           THEN 1 ELSE 0)
    BY DEF CountSound
  <2> USE DEF IndInv
  <2>1. /\ count \in Nat /\ Len(chain) \in Nat /\ Len(q) \in Nat
        /\ chain[1] = tail
        /\ count + (IF tail = Stub THEN 1 ELSE 0) <= Len(chain)
    BY DEF TypeOK, CountStage, ListIntact
  <2>2. CASE Stub \notin Queued
    <3>1. \A k \in 1..Len(chain) : chain[k] # Stub
      BY <2>2 DEF Queued, TypeOK
    <3> QED
      BY <3>1, <2>1 DEF Mirrors
  <2>3. CASE Stub \in Queued
    <3>1. PICK k \in 1..Len(chain) : chain[k] = Stub /\ Len(q) = Len(chain) - 1
      BY <2>3 DEF Mirrors
    <3>2. CASE k = 1
      BY <3>1, <3>2, <2>1
    <3>3. CASE k # 1
      <4>1. k \in 2..Len(chain)
        BY <3>3, <2>1
      <4> QED
        BY <4>1, <3>1, <2>1
    <3> QED
      BY <3>2, <3>3
  <2> QED
    BY <2>2, <2>3
<1> QED
  BY <1>1, Invariance, PTL

-----------------------------------------------------------------------------
(* When pop returns NULL the FIFO may miss: it was empty, or a push had not *)
(* stored its link, at some moment of the call.                             *)
LEMMA MissExcused ==
  ASSUME IndInv, push_pc[StackThread] = "idle", next[tail] = NULL,
         pop_pc \in {"pop", "stub"} \/ (pop_pc = "head" /\ tail # head),
         pop_pc = "pop" => tail = Stub
  PROVE  excuse
<1> USE QueueAssumption DEF IndInv
<1> SUFFICES ASSUME ~excuse PROVE FALSE
  OBVIOUS
<1>1. q # << >> /\ Unpublished = {} /\ Len(q) \in Nat /\ Len(q) # 0
  BY DEF Excused, TypeOK
<1>2. Len(chain) \in Nat /\ Len(chain) > 0 /\ tail = chain[1]
  BY DEF ListIntact, TypeOK
<1>3. Len(chain) # 1
  <2>1. CASE pop_pc = "head"
    BY <2>1, <1>2 DEF ListIntact
  <2>2. CASE pop_pc = "stub"
    <3>1. Stub \in Queued /\ tail # Stub
      BY <2>2 DEF PopStage
    <3> QED
      BY <3>1, <1>2 DEF Queued, TypeOK
  <2>3. CASE pop_pc = "pop"
    <3>1. Stub \in Queued
      BY <2>3, <1>2 DEF Queued, TypeOK
    <3> QED
      BY <3>1, <1>1, <1>2 DEF Mirrors
  <2> QED
    BY <2>1, <2>2, <2>3
<1>4. \E t \in Thread : Fills(t, 1)
  <2>0. Len(chain) >= 2
    <3> HIDE DEF IndInv
    <3>1. ASSUME NEW m \in Nat, m > 0, m # 1 PROVE m >= 2
      BY <3>1
    <3> QED
      BY <1>2, <1>3, <3>1
  <2>1. 1 \in 1..(Len(chain) - 1) /\ 1 + 1 \in 1..Len(chain)
    BY <2>0, <1>2
  <2>2. chain[1 + 1] # NULL
    BY <2>1 DEF TypeOK, Slot
  <2> QED
    BY <2>1, <2>2, <1>2 DEF ListIntact
<1>5. PICK t \in Thread : Fills(t, 1)
  BY <1>4
<1>6. push_pc[t] = "link" /\ t # StackThread
  BY <1>5 DEF Fills
<1>7. push_node[t] # Stub
  BY <1>6 DEF PopStage
<1> QED
  BY <1>1, <1>6, <1>7 DEF Unpublished

(* The lock-free queue implements MpscFifo for any threads and messages: no *)
(* message is lost, doubled or reordered, and pop misses only when it       *)
(* overlapped an empty queue or an unfinished push.                         *)
THEOREM Refinement == Spec => ImplementsFifo
<1> DEFINE popping == pop_pc \in {"pop", "next", "head", "stub"}
<1>1. Init => Fifo!Init
  BY DEF Init, Fifo!Init, Unpublished
<1>2. IndInv /\ [Next]_vars => [Fifo!Next]_(Fifo!vars)
  <2> SUFFICES ASSUME IndInv, [Next]_vars PROVE Fifo!Next \/ UNCHANGED Fifo!vars
    OBVIOUS
  <2> USE QueueAssumption
  <2>1. ASSUME UNCHANGED <<q, Unpublished, popping, excuse, popped>>
        PROVE  UNCHANGED Fifo!vars
    BY <2>1 DEF Fifo!vars
  <2>2. CASE UNCHANGED vars
    BY <2>1, <2>2 DEF vars, Unpublished
  <2>3. ASSUME NEW p \in Producer, NEW n \in Node, PushCall(p, n)
        PROVE  UNCHANGED Fifo!vars
    <3>1. \A t \in Thread : /\ push_pc'[t] = IF t = p THEN "swap" ELSE push_pc[t]
                            /\ push_node'[t] = IF t = p THEN n ELSE push_node[t]
      BY <2>3 DEF PushCall, EnterPush, IndInv, TypeOK
    <3>2. Unpublished' = Unpublished
      BY <2>3, <3>1 DEF Unpublished, PushCall, EnterPush
    <3> QED
      BY <2>1, <2>3, <3>2 DEF PushCall
  <2>4. ASSUME NEW t \in Thread, PushSwap(t)
        PROVE  Fifo!Next \/ UNCHANGED Fifo!vars
    <3>1. /\ push_pc[t] = "swap"
          /\ push_node' = push_node
          /\ UNCHANGED <<pop_pc, popped>>
          /\ \A s \in Thread : push_pc'[s] = IF s = t THEN "link" ELSE push_pc[s]
      BY <2>4 DEF PushSwap, IndInv, TypeOK
    <3>2. CASE push_node[t] = Stub
      <4>1. q' = q /\ excuse' = excuse
        BY <2>4, <3>2 DEF PushSwap
      <4>2. Unpublished' = Unpublished
        BY <3>1, <3>2 DEF Unpublished
      <4> QED
        BY <2>1, <3>1, <4>1, <4>2
    <3>3. CASE push_node[t] # Stub
      <4>1. push_node[t] \in Node
        BY <3>3 DEF IndInv, TypeOK, Slot
      <4>2. Unpublished' = Unpublished \cup {t}
        BY <3>1, <3>3 DEF Unpublished
      <4>3. q' = Append(q, push_node[t]) /\ excuse' = TRUE
        BY <2>4, <3>3 DEF PushSwap
      <4>4. push_node[t] \notin {q[i] : i \in DOMAIN q}
        <5>1. {q[i] : i \in DOMAIN q} \subseteq Queued
          <6>1. /\ DOMAIN q = 1..Len(q) /\ DOMAIN chain = 1..Len(chain)
                /\ Len(q) \in Nat /\ Len(chain) \in Nat
            BY DEF IndInv, TypeOK
          <6>2. ASSUME NEW i \in 1..Len(q) PROVE \E j \in 1..Len(chain) : q[i] = chain[j]
            <7>1. CASE Len(q) = Len(chain) /\ q[i] = chain[i]
              BY <7>1
            <7>2. CASE \E k \in 1..Len(chain) :
                         /\ Len(q) = Len(chain) - 1
                         /\ q[i] = chain[IF i < k THEN i ELSE i + 1]
              BY <6>1, <7>2
            <7> QED
              BY <7>1, <7>2 DEF IndInv, Mirrors
          <6> QED
            BY <6>1, <6>2 DEF Queued
        <5> QED
          BY <5>1, <3>1 DEF IndInv, PushPrivate
      <4>5. Fifo!Push(t, push_node[t])
        BY <3>1, <4>2, <4>3, <4>4 DEF Fifo!Push
      <4> QED
        BY <4>1, <4>5 DEF Fifo!Next
    <3> QED
      BY <3>2, <3>3
  <2>5. ASSUME NEW t \in Thread, PushLink(t)
        PROVE  Fifo!Next
    <3>1. /\ UNCHANGED <<push_node, q, pop_pc, excuse, popped>>
          /\ \A s \in Thread : push_pc'[s] = IF s = t THEN "idle" ELSE push_pc[s]
      BY <2>5 DEF PushLink, IndInv, TypeOK
    <3>2. Unpublished' = Unpublished \ {t}
      BY <3>1 DEF Unpublished
    <3>3. Fifo!Publish(t)
      BY <3>1, <3>2 DEF Fifo!Publish
    <3> QED
      BY <3>3 DEF Fifo!Next
  <2>6. CASE PopCall
    <3>1. Unpublished' = Unpublished
      BY <2>6 DEF PopCall, pushVars, Unpublished
    <3>2. Fifo!PopCall
      BY <2>6, <3>1 DEF PopCall, Fifo!PopCall
    <3> QED
      BY <3>2 DEF Fifo!Next
  <2>7. ASSUME ReturnTail, pop_pc \in {"pop", "next", "stub"}, tail # Stub,
               push_pc[StackThread] = "idle", next[tail] # NULL,
               UNCHANGED <<head, next, push_pc, push_node, old_head, cursor,
                           count, excuse>>
        PROVE  Fifo!Next
    <3>1. q # << >> /\ Head(q) = tail
      BY <2>7, ReturnTailInd
    <3>2. Unpublished' = Unpublished
      BY <2>7 DEF Unpublished
    <3>3. Fifo!PopHit
      BY <2>7, <3>1, <3>2 DEF ReturnTail, Fifo!PopHit
    <3> QED
      BY <3>3 DEF Fifo!Next
  <2>8. ASSUME ReturnNull, popping, excuse,
               UNCHANGED <<push_pc, push_node, excuse>>
        PROVE  Fifo!Next
    <3>1. Unpublished' = Unpublished
      BY <2>8 DEF Unpublished
    <3>2. Fifo!PopMiss
      BY <2>8, <3>1 DEF ReturnNull, Fifo!PopMiss
    <3> QED
      BY <3>2 DEF Fifo!Next
  <2>9. CASE PopSkipStub
    <3>1. /\ pop_pc = "pop" /\ tail = Stub /\ push_pc[StackThread] = "idle"
          /\ UNCHANGED <<push_pc, push_node, excuse>>
      BY <2>9 DEF PopSkipStub, pushVars, IndInv, PopStage
    <3>2. CASE next[Stub] = NULL
      <4>1. excuse
        BY <3>1, <3>2, MissExcused
      <4> QED
        BY <2>8, <2>9, <3>1, <3>2, <4>1 DEF PopSkipStub
    <3>3. CASE next[Stub] # NULL
      <4>1. Unpublished' = Unpublished
        BY <3>1 DEF Unpublished
      <4> QED
        BY <2>1, <2>9, <3>1, <3>3, <4>1 DEF PopSkipStub
    <3> QED
      BY <3>2, <3>3
  <2>10. CASE PopNext
    <3>1. /\ pop_pc \in {"pop", "next"} /\ tail # Stub
          /\ push_pc[StackThread] = "idle"
          /\ UNCHANGED <<head, next, push_pc, push_node, old_head, cursor,
                         count, excuse>>
      BY <2>10 DEF PopNext, pushVars, countVars, IndInv, PopStage
    <3>2. CASE next[tail] # NULL
      BY <2>7, <2>10, <3>1, <3>2 DEF PopNext
    <3>3. CASE next[tail] = NULL
      <4>1. Unpublished' = Unpublished
        BY <3>1 DEF Unpublished
      <4> QED
        BY <2>1, <2>10, <3>1, <3>3, <4>1 DEF PopNext
    <3> QED
      BY <3>2, <3>3
  <2>11. CASE PopReadHead
    <3>1. /\ pop_pc = "head" /\ push_pc[StackThread] = "idle"
          /\ excuse' = excuse
      BY <2>11 DEF PopReadHead, IndInv, PopStage
    <3>2. CASE tail # head
      <4>1. excuse
        <5>1. CASE next[tail] = NULL
          BY <3>1, <3>2, <5>1, MissExcused
        <5>2. CASE next[tail] # NULL
          BY <3>1, <5>2 DEF IndInv, Excused
        <5> QED
          BY <5>1, <5>2
      <4> QED
        BY <2>8, <2>11, <3>1, <3>2, <4>1 DEF PopReadHead, pushVars
    <3>3. CASE tail = head
      <4>1. EnterPush(StackThread, Stub) /\ pop_pc' = "stub"
            /\ UNCHANGED <<popped, q>>
        BY <2>11, <3>3 DEF PopReadHead
      <4>2. \A t \in Thread :
              /\ push_pc'[t] = IF t = StackThread THEN "swap" ELSE push_pc[t]
              /\ push_node'[t] = IF t = StackThread THEN Stub ELSE push_node[t]
        BY <4>1 DEF EnterPush, IndInv, TypeOK
      <4>3. Unpublished' = Unpublished
        BY <3>1, <4>2 DEF Unpublished
      <4> QED
        BY <2>1, <3>1, <4>1, <4>3
    <3> QED
      BY <3>2, <3>3
  <2>12. CASE PopAgain
    <3>1. /\ pop_pc = "stub" /\ tail # Stub /\ push_pc[StackThread] = "idle"
          /\ UNCHANGED <<head, next, push_pc, push_node, old_head, cursor,
                         count, excuse>>
      BY <2>12 DEF PopAgain, pushVars, countVars, IndInv, PopStage
    <3>2. CASE next[tail] # NULL
      BY <2>7, <2>12, <3>1, <3>2 DEF PopAgain
    <3>3. CASE next[tail] = NULL
      <4>1. excuse
        BY <3>1, <3>3, MissExcused
      <4> QED
        BY <2>8, <2>12, <3>1, <3>3, <4>1 DEF PopAgain
    <3> QED
      BY <3>2, <3>3
  <2>13. CASE Repost
    <3>1. \A t \in Thread :
            /\ push_pc'[t] = IF t = StackThread THEN "swap" ELSE push_pc[t]
            /\ push_node'[t] = IF t = StackThread THEN popped ELSE push_node[t]
      BY <2>13 DEF Repost, EnterPush, IndInv, TypeOK
    <3>2. Unpublished' = Unpublished
      BY <2>13, <3>1 DEF Unpublished, Repost, EnterPush
    <3> QED
      BY <2>1, <2>13, <3>2 DEF Repost
  <2>14. CASE HandleDone \/ RepostDone \/ CountCall \/ CountStep \/ CountDone
    <3>1. Unpublished' = Unpublished /\ UNCHANGED <<q, excuse, popped>>
      BY <2>14 DEF HandleDone, RepostDone, CountCall, CountStep, CountDone,
                   pushVars, Unpublished
    <3>2. popping' = popping
      BY <2>14 DEF HandleDone, RepostDone, CountCall, CountStep, CountDone
    <3> QED
      BY <2>1, <3>1, <3>2
  <2> QED
    BY <2>2, <2>3, <2>4, <2>5, <2>6, <2>9, <2>10, <2>11, <2>12, <2>13, <2>14
       DEF Next, PopStep, HandlerStep
<1> QED
  BY <1>1, <1>2, Invariance, PTL DEF Spec, ImplementsFifo, Fifo!Spec
=============================================================================
