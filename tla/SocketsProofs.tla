---------------------------- MODULE SocketsProofs ----------------------------
(***************************************************************************)
(* Sockets for any number of threads, stacks and descriptors.              *)
(*                                                                         *)
(* A descriptor is with one holder at a time: the application, a call that *)
(* is about to return it, a stack that has just accepted it, or a call     *)
(* that closes it; a clone is in the list of the socket it was cloned      *)
(* from, or in what is left of that list while it is being closed.  The    *)
(* lists are what makes it hard: stack_broadcast_close frees the first     *)
(* socket, whose number may be handed out again at once, and then goes on  *)
(* with a successor it has noted before.                                   *)
(* A second part adds what is in the sockets' queues and in the queues of  *)
(* the stacks: nobody is told there is nothing when there is.  The last    *)
(* follows a listen call over the stacks: CoverInv says which of them have *)
(* their listener by now, and where the master is.                         *)
(***************************************************************************)
EXTENDS Sockets, FiniteSetTheorems, WellFoundedInduction, TLAPS

Live(d) == sock[d].type # "none"
Closes(t) == call[t].op \in {"close", "failed"}

(* The holders of a descriptor. *)
Given(t, d) ==
  pc[t] = "ret" /\ call[t].op \in {"socket", "accept"} /\ call[t].ret = d
Accepting(k, d) == stk[k].pc = "accept" /\ stk[k].fd = d
Closing(t, d)   == Closes(t) /\ pc[t] \in {"close", "sent"} /\ call[t].cur = d
NextOf(t, d)    == Closes(t) /\ pc[t] \in {"sent", "ret"} /\ call[t].next = d

(* What a call that closes a list has yet to close. *)
Doomed(t, d) ==
  /\ Closes(t)
  /\ \/ pc[t] = "close" /\ d \in Reach(call[t].cur)
     \/ pc[t] = "sent" /\ d = call[t].cur
     \/ pc[t] \in {"sent", "ret"} /\ call[t].next # No /\ d \in Reach(call[t].next)

SlotShape(d) ==
  /\ ~sock[d].open => sock[d] = FreeSock
  /\ Live(d) => /\ sock[d].open /\ sock[d].kind # "kernel"
                /\ sock[d].stack \in Stack /\ sock[d].head \in Fd
  /\ ~Live(d) => sock[d].state = "CLOSED" /\ sock[d].queue = 0
  /\ sock[d].type = "HOST" => sock[d].state \in {"CLOSED", "LISTEN"}
  /\ sock[d].state = "ESTABLISHED" => sock[d].type = "LIBOS"
  /\ sock[d].state = "CLOSE_WAIT" => sock[d].type = "LIBOS"
  /\ sock[d].kernel =>
       \/ sock[d].type \in {"none", "HOST"}
       \/ \E t \in App : /\ call[t].fd = d /\ call[t].op = "connect"
                         /\ call[t].f = "local"

RoleShape(d) ==
  /\ owner[d] # No =>
       /\ sock[d].open /\ sock[d].head = d /\ (Live(d) \/ sock[d].kind = "kernel")
       /\ \A t \in App : ~Given(t, d) /\ ~Closing(t, d)
       /\ \A k \in Stack : ~Accepting(k, d)
  /\ \A t \in App : Given(t, d) =>
       /\ Live(d) /\ sock[d].head = d /\ sock[d].listen_next = No
       /\ \A u \in App : (Given(u, d) => u = t) /\ ~Closing(u, d)
       /\ \A k \in Stack : ~Accepting(k, d)
  /\ \A k \in Stack : Accepting(k, d) =>
       /\ Live(d) /\ sock[d].head = d /\ sock[d].listen_next = No
       /\ \A j \in Stack : Accepting(j, d) => j = k
       /\ \A u \in App : ~Closing(u, d)
  /\ \A t \in App : Closing(t, d) =>
       /\ sock[d].open /\ (pc[t] = "close" => Live(d) \/ sock[d].kind = "kernel")
       /\ \A u \in App : Closing(u, d) => u = t
  /\ \A t \in App : NextOf(t, d) =>
       /\ Live(d) /\ sock[d].head # d
       /\ \A u \in App : (NextOf(u, d) => u = t) /\ ~Closing(u, d)

LinkShape(d) ==
  LET y == sock[d].listen_next IN
  y # No =>
    /\ Live(y) /\ sock[y].head = sock[d].head /\ sock[y].head # y
    /\ \A z \in Fd : sock[z].listen_next = y => z = d
    /\ \A t \in App : ~Closing(t, y) /\ (NextOf(t, y) => Closing(t, d))
    /\ d \notin Reach(y) /\ sock[d].kind # "kernel"

(* A list ends, and a clone is in one. *)
ListShape(d) ==
  /\ owner[d] # No => \E x \in Reach(d) : sock[x].listen_next = No
  /\ Live(d) /\ sock[d].head # d =>
       \/ owner[sock[d].head] # No /\ d \in Reach(sock[d].head)
       \/ \E t \in App : Doomed(t, d)

(* Nothing is open that nobody holds. *)
OpenShape(d) ==
  sock[d].open =>
    \/ owner[d] # No
    \/ \E t \in App : Given(t, d) \/ Closing(t, d)
    \/ \E k \in Stack : Accepting(k, d)
    \/ Live(d) /\ sock[d].head # d

(* A thread and its call: where it may stand, ... *)
StageShape(t) ==
  LET c == call[t] IN
  /\ pc[t] = "idle" => c = NoCall
  /\ pc[t] = "count" => c.op = "socket"
  /\ pc[t] = "walk"  => c.op = "recvfrom" /\ c.f = "none"
  /\ pc[t] = "loop"  => c.op \in {"bind", "listen"}
  /\ pc[t] = "close" => Closes(t) /\ c.next = No
  /\ pc[t] \in {"sent", "ret"} =>
       \/ c.op = "socket"
       \/ c.op = "bind"     /\ c.f \in {"bind", "shadow"}
       \/ c.op = "listen"   /\ c.f \in {"getsockname", "shadow", "listen"}
       \/ c.op = "accept"   /\ c.f \in {"none", "accept"}
       \/ c.op = "connect"  /\ c.f \in {"connect", "local"}
       \/ c.op = "recvfrom" /\ c.f = "none"
       \/ c.op = "query"    /\ c.f = "query"
       \/ Closes(t)         /\ c.f = "close"
  /\ pc[t] = "sent" => c.f \notin {"none", "local"}
  /\ c.op = "socket" => c.f \in {"tcp", "udp"} /\ c.k \in Stack
  /\ c.op \in {"bind", "listen"} => c.k \in Stack /\ pc[t] \in {"loop", "sent", "ret"}
  /\ c.f = "shadow" /\ pc[t] # "loop" => c.i \in Stack
  /\ c.op = "listen" /\ c.f = "listen" /\ pc[t] # "loop" /\ Spread => c.i \in Stack
  /\ c.op = "connect" => c.cur = c.fd
  /\ c.op \in {"recvfrom", "query"} => c.cur \in Fd
  /\ c.op = "accept" => c.fd \in Fd /\ (pc[t] = "sent" => c.cur \in Fd)
  /\ Closes(t) => c.fd \in Fd /\ c.cur \in Fd
  /\ c.op \in {"socket", "accept"} /\ pc[t] = "ret" => c.ret \in Fd \cup {-1}

(* ... and what it may rely on. *)
UseShape(t) ==
  LET c == call[t] IN
  /\ c.op \in {"bind", "listen", "connect", "recvfrom", "query"} =>
       c.fd \in Fd /\ owner[c.fd] = t /\ Live(c.fd)
  /\ c.op \in {"listen", "bind"} /\ pc[t] \in {"sent", "ret"} =>
       /\ c.cur \in Reach(c.fd)
       /\ c.f \in {"bind", "shadow", "getsockname"} => c.cur = c.fd
       /\ c.f = "shadow" /\ pc[t] = "ret" =>
            \/ c.ret = -1
            \/ c.ret \in Reach(c.fd) /\ c.ret # c.fd
  /\ c.op = "recvfrom" /\ pc[t] = "walk" => c.cur \in Reach(c.fd)
  /\ c.op = "connect" =>
       /\ sock[c.fd].type \in {"UNKNOW", "LIBOS"}
       /\ c.f = "connect" => ~sock[c.fd].kernel
       /\ c.f = "local" => sock[c.fd].kernel /\ sock[c.fd].state = "CLOSED"

(* A thread whose call is not answered is in one queue, once. *)
QueueShape ==
  /\ \A k \in Stack : \A i \in DOMAIN rpc_queue[k] : pc[rpc_queue[k][i]] = "sent"
  /\ \A k, j \in Stack : \A i \in DOMAIN rpc_queue[k], m \in DOMAIN rpc_queue[j] :
       rpc_queue[k][i] = rpc_queue[j][m] => k = j /\ i = m

(* A stack thread in the middle of a handler. *)
WorkShape(k) ==
  LET w == stk[k]
      t == Head(rpc_queue[k])
  IN  /\ w.pc = "poll" => w = NoWork
      /\ w.pc # "poll" => rpc_queue[k] # << >> /\ w.fd \in Fd
      /\ w.pc = "accept" => call[t].op = "accept"
      /\ w.pc \in {"clean", "close_fn"} =>
           /\ Closes(t) /\ w.fd = call[t].cur /\ ~Live(w.fd) /\ sock[w.fd].open
      /\ w.pc = "close_fn" => sock[w.fd] = [FreeSock EXCEPT !.open = TRUE]

(* The types of what TypeOK does not mention. *)
CallRec ==
  [op : {"none", "socket", "bind", "listen", "accept", "connect", "recvfrom", "query",
         "close", "failed"},
   fd : Fd \cup {No},
   f : {"none", "tcp", "udp", "bind", "listen", "accept", "connect", "local", "query",
        "getsockname", "shadow", "close"},
   cur : Fd \cup {No}, i : 0..StackNum, k : Stack \cup {No}, next : Fd \cup {No},
   tmp : 0..(ConnMod - 1) \cup Stack, ret : Int, found : BOOLEAN]

VarShape ==
  /\ pc \in [App -> {"idle", "count", "walk", "loop", "close", "sent", "ret"}]
  /\ call \in [App -> CallRec]
  /\ rpc_queue \in [Stack -> Seq(App)]
  /\ stk \in [Stack -> [pc : {"poll", "accept", "clean", "close_fn"},
                        fd : Fd \cup {No}, tmp : 0..(ConnMod - 1)]]

IInv ==
  /\ TypeOK
  /\ VarShape
  /\ \A d \in Fd : /\ SlotShape(d) /\ RoleShape(d) /\ LinkShape(d)
                   /\ ListShape(d) /\ OpenShape(d)
  /\ \A t \in App : StageShape(t) /\ UseShape(t)
  /\ QueueShape
  /\ \A k \in Stack : WorkShape(k)

-----------------------------------------------------------------------------
(* The constants. *)
LEMMA Consts ==
  /\ StackNum \in Nat /\ StackNum >= 1 /\ FdNum \in Nat /\ 0 \in Stack
  /\ \A t \in App : t # No
  /\ \A k \in Stack : k # No /\ k \in Int
  /\ \A d \in Fd : d # No /\ d \in Int /\ d > 0
  BY SocketsAssumption DEF Stack, Fd

(* Walks along listen_next. *)
LEMMA ReachLeast ==
  ASSUME NEW d, NEW S \in SUBSET Fd, d \in S, Closed(S)
  PROVE  Reach(d) \subseteq S
  BY DEF Reach

LEMMA ReachSelf ==
  ASSUME NEW d \in Fd
  PROVE  d \in Reach(d) /\ Reach(d) \subseteq Fd
  BY DEF Reach

LEMMA ReachClosed ==
  ASSUME TypeOK, NEW d \in Fd
  PROVE  Closed(Reach(d))
<1> SUFFICES ASSUME NEW x \in Reach(d), sock[x].listen_next # No
             PROVE  sock[x].listen_next \in Reach(d)
  BY DEF Closed
<1>1. x \in Fd /\ sock[x].listen_next \in Fd
  BY DEF TypeOK, Reach
<1>2. ASSUME NEW S \in SUBSET Fd, d \in S, Closed(S) PROVE sock[x].listen_next \in S
  <2>1. x \in S
    BY <1>2 DEF Reach
  <2> QED
    BY <2>1, <1>2 DEF Closed
<1> QED
  BY <1>1, <1>2 DEF Reach

LEMMA ReachTrans ==
  ASSUME TypeOK, NEW d \in Fd, NEW x \in Reach(d)
  PROVE  Reach(x) \subseteq Reach(d)
  BY ReachSelf, ReachClosed, ReachLeast

(* The walk from d is d and the walk from its successor. *)
LEMMA ReachStep ==
  ASSUME TypeOK, NEW d \in Fd, NEW x \in Reach(d), x # d
  PROVE  sock[d].listen_next \in Fd /\ x \in Reach(sock[d].listen_next)
<1>1. CASE sock[d].listen_next = No
  <2>1. Closed({d})
    BY <1>1 DEF Closed
  <2> QED
    BY <2>1, ReachLeast
<1>2. CASE sock[d].listen_next # No
  <2> DEFINE y == sock[d].listen_next
             S == {d} \cup Reach(y)
  <2>1. y \in Fd
    BY <1>2 DEF TypeOK
  <2>2. y \in Reach(y) /\ Reach(y) \subseteq Fd /\ Closed(Reach(y))
    BY <2>1, ReachSelf, ReachClosed
  <2>3. Closed(S)
    BY <2>2 DEF Closed
  <2>4. S \in SUBSET Fd /\ d \in S
    BY <2>2
  <2>5. Reach(d) \subseteq S
    BY <2>3, <2>4, ReachLeast
  <2> QED
    BY <2>1, <2>5
<1> QED
  BY <1>1, <1>2

(* Nobody walks to what nobody links to. *)
LEMMA ReachUnlinked ==
  ASSUME TypeOK, NEW d \in Fd, NEW x \in Fd, x # d,
         \A z \in Fd : sock[z].listen_next # x
  PROVE  x \notin Reach(d)
<1>1. Closed(Fd \ {x})
  BY DEF Closed, TypeOK
<1> QED
  BY <1>1, ReachLeast

(* A walk is not changed by what happens to links it does not meet. *)
LEMMA ReachSame ==
  ASSUME TypeOK, NEW d \in Fd,
         \A x \in Reach(d) : sock'[x].listen_next = sock[x].listen_next
  PROVE  Reach(d)' = Reach(d)
<1>1. PICK R : R = Reach(d)
  OBVIOUS
<1>2. d \in R /\ R \in SUBSET Fd /\ Closed(R)
  BY <1>1, ReachSelf, ReachClosed
<1>3. Closed(R)'
  BY <1>1, <1>2 DEF Closed
<1>4. ASSUME NEW x \in R, NEW S \in SUBSET Fd, d \in S, Closed(S)' PROVE x \in S
  <2>1. Closed(S \cap R)
    BY <1>1, <1>2, <1>4 DEF Closed
  <2> QED
    BY <2>1, <1>1, <1>2, <1>4, ReachLeast
<1>5. R \subseteq Reach(d)'
  BY <1>2, <1>4 DEF Reach
<1>6. Reach(d)' \subseteq R
  BY <1>2, <1>3 DEF Reach
<1> QED
  BY <1>1, <1>5, <1>6

(* A list that is made longer at its end. *)
LEMMA ReachGrows ==
  ASSUME TypeOK, NEW d \in Fd, NEW e \in Fd, NEW n \in Fd,
         sock[e].listen_next = No, sock'[e].listen_next = n, sock'[n].listen_next = No,
         \A x \in Fd \ {e, n} : sock'[x].listen_next = sock[x].listen_next,
         sock[n].listen_next = No, e # n
  PROVE  /\ Reach(d) \subseteq Reach(d)' /\ Reach(d)' \subseteq Reach(d) \cup {n}
         /\ e \in Reach(d) => n \in Reach(d)'
         /\ Reach(n)' = {n}
<1>1. PICK R : R = Reach(d)
  OBVIOUS
<1>2. d \in R /\ R \in SUBSET Fd /\ Closed(R)
  BY <1>1, ReachSelf, ReachClosed
<1>3. Closed(R \cup {n})' /\ Closed({n})'
  BY <1>2 DEF Closed
<1>4. ASSUME NEW S \in SUBSET Fd, d \in S, Closed(S)'
      PROVE  R \subseteq S /\ (e \in R => n \in S)
  <2>1. Closed(S)
    BY <1>4 DEF Closed
  <2>2. R \subseteq S
    BY <2>1, <1>1, <1>4, ReachLeast
  <2> QED
    BY <2>2, <1>4, Consts DEF Closed
<1>5. R \subseteq Reach(d)' /\ (e \in R => n \in Reach(d)')
  BY <1>2, <1>4 DEF Reach
<1>6. Reach(d)' \subseteq R \cup {n}
  <2>1. R \cup {n} \in SUBSET Fd /\ d \in R \cup {n}
    BY <1>2
  <2> QED
    BY <2>1, <1>3 DEF Reach
<1>7. Reach(n)' = {n}
  <2>1. {n} \in SUBSET Fd
    OBVIOUS
  <2> QED
    BY <2>1, <1>3 DEF Reach
<1> QED
  BY <1>1, <1>5, <1>6, <1>7

(* The list of a socket that is held: its clones. *)
LEMMA ReachHeld ==
  ASSUME IInv, NEW h \in Fd, sock[h].head = h, NEW x \in Reach(h)
  PROVE  /\ x \in Fd /\ sock[x].head = h
         /\ x # h => /\ Live(x) /\ \E z \in Fd : sock[z].listen_next = x
<1> DEFINE S == {y \in Fd : /\ sock[y].head = h
                            /\ y # h => Live(y) /\ \E z \in Fd : sock[z].listen_next = y}
<1>1. Closed(S)
  <2> SUFFICES ASSUME NEW y \in S, sock[y].listen_next # No
               PROVE  sock[y].listen_next \in S
    BY DEF Closed
  <2>1. LinkShape(y) /\ sock[y].listen_next \in Fd
    BY DEF IInv, TypeOK
  <2> QED
    BY <2>1 DEF LinkShape
<1>2. S \in SUBSET Fd /\ h \in S
  OBVIOUS
<1>3. x \in S
  BY <1>1, <1>2, ReachLeast
<1> QED
  BY <1>3

(* In the list of a socket that the application holds nothing is closed. *)
LEMMA HeldList ==
  ASSUME IInv, NEW h \in Fd, owner[h] # No, NEW x \in Reach(h)
  PROVE  /\ x \in Fd /\ sock[x].head = h /\ sock[x].open
         /\ x # h => Live(x)
         /\ \A t \in App : ~Closing(t, x)
<1>1. sock[h].head = h /\ sock[h].open /\ \A t \in App : ~Closing(t, h)
  BY DEF IInv, RoleShape
<1>2. x \in Fd /\ sock[x].head = h /\ (x # h => Live(x))
  BY <1>1, ReachHeld
<1>3. x # h => \E z \in Fd : sock[z].listen_next = x
  BY <1>1, ReachHeld
<1>4. x # h => \A t \in App : ~Closing(t, x)
  BY <1>2, <1>3, Consts DEF IInv, LinkShape
<1> QED
  BY <1>1, <1>2, <1>4 DEF IInv, SlotShape

-----------------------------------------------------------------------------
(* Steps that leave every descriptor with its holder. *)
Role(t) == <<pc[t], call[t].op, call[t].cur, call[t].next, call[t].ret>>
Plain(t) ==
  /\ ~Closes(t)
  /\ ~(pc[t] = "ret" /\ call[t].op \in {"socket", "accept"} /\ call[t].ret \in Fd)
KeepsRole(t) == Role(t)' = Role(t) \/ (Plain(t) /\ Plain(t)')
KeepsSlot(d) ==
  /\ sock'[d].open = sock[d].open /\ (Live(d)' <=> Live(d))
  /\ sock'[d].kind = sock[d].kind /\ sock'[d].stack = sock[d].stack
  /\ sock'[d].head = sock[d].head /\ sock'[d].listen_next = sock[d].listen_next

ListsShape(d) == RoleShape(d) /\ LinkShape(d) /\ ListShape(d) /\ OpenShape(d)

LEMMA ReachKept ==
  ASSUME IInv, \A d \in Fd : KeepsSlot(d)
  PROVE  \A d \in Fd : Reach(d)' = Reach(d)
<1> SUFFICES ASSUME NEW d \in Fd PROVE Reach(d)' = Reach(d)
  OBVIOUS
<1>1. \A x \in Reach(d) : sock'[x].listen_next = sock[x].listen_next
  BY ReachSelf DEF KeepsSlot
<1> QED
  BY <1>1, ReachSame DEF IInv

LEMMA RolesKept ==
  ASSUME IInv, \A t \in App : KeepsRole(t), \A d \in Fd : KeepsSlot(d),
         owner' = owner,
         \A k \in Stack, d \in Fd : Accepting(k, d)' <=> Accepting(k, d)
  PROVE  \A d \in Fd : ListsShape(d)'
<1>1. \A t \in App, d \in Fd : /\ Given(t, d)' <=> Given(t, d)
                               /\ Closing(t, d)' <=> Closing(t, d)
                               /\ NextOf(t, d)' <=> NextOf(t, d)
                               /\ Closing(t, d) => pc'[t] = pc[t]
  BY DEF KeepsRole, Role, Plain, Given, Closing, NextOf, Closes
<1>2. \A d \in Fd : Reach(d)' = Reach(d)
  BY ReachKept
<1>3. \A t \in App, d \in Fd : Doomed(t, d)' <=> Doomed(t, d)
  <2> SUFFICES ASSUME NEW t \in App, NEW d \in Fd
               PROVE  Doomed(t, d)' <=> Doomed(t, d)
    OBVIOUS
  <2>1. Closes(t) => /\ call[t].cur \in Fd
                     /\ call[t].next \in Fd \cup {No}
    BY DEF IInv, StageShape, VarShape, CallRec
  <2>2. CASE Role(t)' = Role(t)
    <3>1. /\ pc'[t] = pc[t] /\ call'[t].cur = call[t].cur /\ call'[t].next = call[t].next
          /\ Closes(t)' <=> Closes(t)
      BY <2>2 DEF Role, Closes
    <3> QED
      BY <2>1, <3>1, <1>2 DEF Doomed
  <2>3. CASE Plain(t) /\ Plain(t)'
    BY <2>3 DEF Plain, Doomed
  <2> QED
    BY <2>2, <2>3 DEF KeepsRole
<1> SUFFICES ASSUME NEW d \in Fd PROVE ListsShape(d)'
  OBVIOUS
<1>4. KeepsSlot(d) /\ RoleShape(d) /\ LinkShape(d) /\ ListShape(d) /\ OpenShape(d)
      /\ SlotShape(d)
  BY DEF IInv
<1>5. RoleShape(d)'
  BY <1>1, <1>4 DEF RoleShape, KeepsSlot
<1>6. LinkShape(d)'
  <2>1. CASE sock[d].listen_next = No
    BY <2>1, <1>4 DEF LinkShape, KeepsSlot
  <2>2. CASE sock[d].listen_next # No
    <3>1. PICK y \in Fd : y = sock[d].listen_next
      BY <2>2 DEF IInv, TypeOK
    <3>2. KeepsSlot(y) /\ Reach(y)' = Reach(y)
      BY <1>2
    <3>3. /\ Live(y) /\ sock[y].head = sock[d].head /\ sock[y].head # y
          /\ \A z \in Fd : sock[z].listen_next = y => z = d
          /\ \A t \in App : ~Closing(t, y) /\ (NextOf(t, y) => Closing(t, d))
          /\ d \notin Reach(y)
      BY <2>2, <3>1, <1>4 DEF LinkShape
    <3>4. sock'[d].listen_next = y /\ \A z \in Fd : sock'[z].listen_next = y => z = d
      BY <3>1, <3>3 DEF KeepsSlot
    <3> QED
      BY <3>1, <3>2, <3>3, <3>4, <1>1, <1>4 DEF LinkShape, KeepsSlot
  <2> QED
    BY <2>1, <2>2
<1>7. ListShape(d)'
  <2>1. owner'[d] # No => \E x \in Reach(d)' : sock'[x].listen_next = No
    BY <1>2, <1>4, ReachSelf DEF ListShape, KeepsSlot
  <2>2. CASE Live(d) /\ sock[d].head # d
    <3>1. PICK h \in Fd : h = sock[d].head
      BY <2>2, <1>4 DEF SlotShape
    <3>2. Reach(h)' = Reach(h) /\ sock'[d].head = h
      BY <3>1, <1>2, <1>4 DEF KeepsSlot
    <3>3. (owner[h] # No /\ d \in Reach(h)) \/ \E t \in App : Doomed(t, d)
      BY <2>2, <3>1, <1>4 DEF ListShape
    <3>4. (owner'[h] # No /\ d \in Reach(h)') \/ \E t \in App : Doomed(t, d)'
      BY <3>2, <3>3, <1>3
    <3> QED
      BY <2>1, <3>2, <3>4 DEF ListShape
  <2>3. CASE ~(Live(d) /\ sock[d].head # d)
    BY <2>1, <2>3, <1>4 DEF ListShape, KeepsSlot
  <2> QED
    BY <2>2, <2>3
<1>8. OpenShape(d)'
  BY <1>1, <1>4 DEF OpenShape, KeepsSlot
<1> QED
  BY <1>5, <1>6, <1>7, <1>8 DEF ListsShape

(* The call of a thread that a step leaves alone, but that accept may no   *)
(* longer find what it found.                                              *)
SameCall(t) ==
  /\ pc'[t] = pc[t]
  /\ \/ call'[t] = call[t]
     \/ call[t].fd # No /\ call'[t] = [call[t] EXCEPT !.found = FALSE]

(* What the connect of another thread relies on. *)
KeepsConn(d) ==
  /\ sock[d].type \in {"UNKNOW", "LIBOS"} => sock'[d].type \in {"UNKNOW", "LIBOS"}
  /\ ~sock[d].kernel => ~sock'[d].kernel
  /\ sock[d].kernel /\ sock[d].state = "CLOSED" =>
       sock'[d].kernel /\ sock'[d].state = "CLOSED"

LEMMA SameFields ==
  ASSUME IInv, NEW t \in App, SameCall(t)
  PROVE  /\ pc'[t] = pc[t]
         /\ call'[t].op = call[t].op /\ call'[t].fd = call[t].fd
         /\ call'[t].f = call[t].f /\ call'[t].cur = call[t].cur
         /\ call'[t].i = call[t].i /\ call'[t].k = call[t].k
         /\ call'[t].next = call[t].next /\ call'[t].ret = call[t].ret
         /\ call'[t].tmp = call[t].tmp
         /\ call[t] = NoCall => call'[t] = NoCall
<1>1. CASE call'[t] = call[t]
  BY <1>1 DEF SameCall
<1>2. CASE call[t].fd # No /\ call'[t] = [call[t] EXCEPT !.found = FALSE]
  <2>1. NoCall.fd = No
    BY DEF NoCall
  <2>2. pc'[t] = pc[t] /\ call \in [App -> CallRec]
    BY DEF SameCall, IInv, VarShape
  <2> QED
    BY <1>2, <2>1, <2>2 DEF CallRec
<1> QED
  BY <1>1, <1>2 DEF SameCall

LEMMA CallKept ==
  ASSUME IInv, NEW t \in App, SameCall(t), cfg' = cfg,
         \A d \in Fd : owner[d] = t =>
           /\ owner'[d] = t /\ (Live(d) => Live(d)') /\ Reach(d) \subseteq Reach(d)'
           /\ KeepsConn(d)
  PROVE  StageShape(t)' /\ UseShape(t)'
<1>1. /\ pc'[t] = pc[t]
      /\ call'[t].op = call[t].op /\ call'[t].fd = call[t].fd
      /\ call'[t].f = call[t].f /\ call'[t].cur = call[t].cur
      /\ call'[t].i = call[t].i /\ call'[t].k = call[t].k
      /\ call'[t].next = call[t].next /\ call'[t].ret = call[t].ret
      /\ call[t] = NoCall => call'[t] = NoCall
  BY SameFields
<1>2. StageShape(t) /\ UseShape(t)
  BY DEF IInv
<1>3. StageShape(t)'
  BY <1>1, <1>2 DEF StageShape, Closes, Spread
<1>4. UseShape(t)'
  <2>1. CASE call[t].op \in {"bind", "listen", "connect", "recvfrom", "query"}
    <3>1. PICK d \in Fd : d = call[t].fd /\ owner[d] = t /\ Live(d)
      BY <2>1, <1>2 DEF UseShape
    <3>2. /\ owner'[d] = t /\ Live(d)' /\ Reach(d) \subseteq Reach(d)' /\ KeepsConn(d)
          /\ call'[t].fd = d
      BY <3>1, <1>1
    <3> QED
      BY <1>1, <1>2, <3>1, <3>2 DEF UseShape, KeepsConn
  <2>2. CASE call[t].op \notin {"bind", "listen", "connect", "recvfrom", "query"}
    BY <2>2, <1>1 DEF UseShape
  <2> QED
    BY <2>1, <2>2
<1> QED
  BY <1>3, <1>4

-----------------------------------------------------------------------------
(* The queues of the stacks. *)
LEMMA QueueKept ==
  ASSUME IInv, rpc_queue' = rpc_queue,
         \A t \in App : pc[t] = "sent" => pc'[t] = "sent"
  PROVE  QueueShape'
  BY DEF IInv, QueueShape, VarShape

LEMMA Enqueued ==
  ASSUME IInv, NEW t \in App, NEW k \in Stack, pc[t] # "sent", pc'[t] = "sent",
         \A u \in App \ {t} : pc'[u] = pc[u],
         rpc_queue' = [rpc_queue EXCEPT ![k] = Append(@, t)]
  PROVE  /\ QueueShape' /\ rpc_queue' \in [Stack -> Seq(App)]
         /\ \A j \in Stack : rpc_queue[j] # << >> =>
              rpc_queue'[j] # << >> /\ Head(rpc_queue'[j]) = Head(rpc_queue[j])
<1>1. rpc_queue \in [Stack -> Seq(App)] /\ rpc_queue' \in [Stack -> Seq(App)]
  BY DEF IInv, VarShape
<1>2. /\ \A j \in Stack : DOMAIN rpc_queue[j] = 1..Len(rpc_queue[j])
      /\ DOMAIN rpc_queue'[k] = 1..(Len(rpc_queue[k]) + 1)
      /\ rpc_queue'[k][Len(rpc_queue[k]) + 1] = t
      /\ \A i \in 1..Len(rpc_queue[k]) : rpc_queue'[k][i] = rpc_queue[k][i]
      /\ \A j \in Stack \ {k} : rpc_queue'[j] = rpc_queue[j]
      /\ Len(rpc_queue[k]) \in Nat
  BY <1>1
<1>3. \A j \in Stack : \A i \in DOMAIN rpc_queue[j] :
         rpc_queue[j][i] \in App /\ pc[rpc_queue[j][i]] = "sent" /\ rpc_queue[j][i] # t
  BY <1>1 DEF IInv, QueueShape
<1>4. \A j \in Stack : \A i \in DOMAIN rpc_queue'[j] :
         \/ i \in DOMAIN rpc_queue[j] /\ rpc_queue'[j][i] = rpc_queue[j][i]
         \/ j = k /\ i = Len(rpc_queue[k]) + 1 /\ rpc_queue'[j][i] = t
  BY <1>2
<1>5. \A j \in Stack : \A i \in DOMAIN rpc_queue'[j] : pc'[rpc_queue'[j][i]] = "sent"
  BY <1>3, <1>4
<1>6. ASSUME NEW j \in Stack, NEW l \in Stack, NEW i \in DOMAIN rpc_queue'[j],
             NEW m \in DOMAIN rpc_queue'[l], rpc_queue'[j][i] = rpc_queue'[l][m]
      PROVE  j = l /\ i = m
  BY <1>3, <1>4, <1>6 DEF IInv, QueueShape
<1>7. ASSUME NEW j \in Stack, rpc_queue[j] # << >>
      PROVE  rpc_queue'[j] # << >> /\ Head(rpc_queue'[j]) = Head(rpc_queue[j])
  BY <1>1, <1>7
<1> QED
  BY <1>1, <1>5, <1>6, <1>7 DEF QueueShape

LEMMA Dequeued ==
  ASSUME IInv, NEW k \in Stack, rpc_queue[k] # << >>, NEW t \in App, t = Head(rpc_queue[k]),
         \A u \in App \ {t} : pc'[u] = pc[u],
         rpc_queue' = [rpc_queue EXCEPT ![k] = Tail(@)]
  PROVE  /\ QueueShape' /\ rpc_queue' \in [Stack -> Seq(App)] /\ pc[t] = "sent"
         /\ \A j \in Stack \ {k} :
              /\ rpc_queue'[j] = rpc_queue[j]
              /\ rpc_queue[j] # << >> => Head(rpc_queue[j]) # t /\ Head(rpc_queue[j]) \in App
<1>1. rpc_queue \in [Stack -> Seq(App)] /\ rpc_queue' \in [Stack -> Seq(App)]
  BY DEF IInv, VarShape
<1>2. /\ \A j \in Stack : DOMAIN rpc_queue[j] = 1..Len(rpc_queue[j])
      /\ DOMAIN rpc_queue'[k] = 1..(Len(rpc_queue[k]) - 1)
      /\ \A i \in 1..(Len(rpc_queue[k]) - 1) : rpc_queue'[k][i] = rpc_queue[k][i + 1]
      /\ \A j \in Stack \ {k} : rpc_queue'[j] = rpc_queue[j]
      /\ Len(rpc_queue[k]) \in Nat \ {0} /\ rpc_queue[k][1] = t
  BY <1>1
<1>3. ASSUME NEW j \in Stack, NEW i \in DOMAIN rpc_queue'[j]
      PROVE  /\ rpc_queue'[j][i] \in App /\ pc'[rpc_queue'[j][i]] = "sent"
             /\ j = k => /\ i + 1 \in DOMAIN rpc_queue[k]
                         /\ rpc_queue'[j][i] = rpc_queue[k][i + 1]
             /\ j # k => i \in DOMAIN rpc_queue[j] /\ rpc_queue'[j][i] = rpc_queue[j][i]
  BY <1>1, <1>2 DEF IInv, QueueShape
<1>4. ASSUME NEW j \in Stack, NEW l \in Stack, NEW i \in DOMAIN rpc_queue'[j],
             NEW m \in DOMAIN rpc_queue'[l], rpc_queue'[j][i] = rpc_queue'[l][m]
      PROVE  j = l /\ i = m
  <2>1. i \in Int /\ m \in Int
    BY <1>1
  <2> QED
    BY <2>1, <1>3, <1>4 DEF IInv, QueueShape
<1>5. ASSUME NEW j \in Stack \ {k}, rpc_queue[j] # << >>
      PROVE  Head(rpc_queue[j]) # t /\ Head(rpc_queue[j]) \in App
  <2>1. 1 \in DOMAIN rpc_queue[j] /\ Head(rpc_queue[j]) = rpc_queue[j][1]
    BY <1>1, <1>5
  <2> QED
    BY <2>1, <1>1, <1>2 DEF IInv, QueueShape
<1>6. pc[t] = "sent"
  BY <1>2 DEF IInv, QueueShape
<1> QED
  BY <1>1, <1>2, <1>3, <1>4, <1>5, <1>6 DEF QueueShape

(* A stack thread that a step leaves alone. *)
LEMMA WorkKept ==
  ASSUME IInv, NEW k \in Stack, stk'[k] = stk[k],
         stk[k].pc # "poll" =>
           /\ rpc_queue'[k] # << >> /\ Head(rpc_queue'[k]) = Head(rpc_queue[k])
           /\ SameCall(Head(rpc_queue[k])),
         stk[k].pc \in {"clean", "close_fn"} => sock'[stk[k].fd] = sock[stk[k].fd]
  PROVE  WorkShape(k)'
<1>1. WorkShape(k)
  BY DEF IInv
<1>2. CASE stk[k].pc = "poll"
  BY <1>1, <1>2 DEF WorkShape
<1>3. CASE stk[k].pc # "poll"
  <2>1. PICK t : t = Head(rpc_queue[k])
    OBVIOUS
  <2>2. t \in App /\ SameCall(t) /\ rpc_queue'[k] # << >> /\ Head(rpc_queue'[k]) = t
    BY <1>1, <1>3, <2>1 DEF WorkShape, IInv, VarShape
  <2>3. call'[t].op = call[t].op /\ call'[t].cur = call[t].cur
    BY <2>2, SameFields
  <2>4. PICK d \in Fd : d = stk[k].fd
    BY <1>1, <1>3 DEF WorkShape
  <2> QED
    BY <1>1, <1>3, <2>1, <2>2, <2>3, <2>4 DEF WorkShape, Closes, Live
<1> QED
  BY <1>2, <1>3

(* A slot that a step leaves alone. *)
LEMMA SlotKept ==
  ASSUME IInv, NEW d \in Fd, sock'[d] = sock[d],
         \A t \in App : call[t].fd = d => SameCall(t) \/ call[t].op # "connect"
  PROVE  SlotShape(d)'
<1>1. SlotShape(d)
  BY DEF IInv
<1>2. ASSUME NEW t \in App, call[t].fd = d, call[t].op = "connect", call[t].f = "local"
      PROVE  call'[t].fd = d /\ call'[t].op = "connect" /\ call'[t].f = "local"
  BY <1>2, SameFields
<1> QED
  BY <1>1, <1>2 DEF SlotShape, Live

(* What the other threads rely on, and the stacks in the middle of a close. *)
Undisturbed(u) ==
  \A d \in Fd : owner[d] = u =>
    /\ owner'[d] = u /\ (Live(d) => Live(d)') /\ Reach(d) \subseteq Reach(d)'
    /\ KeepsConn(d)
CleansOn(k) ==
  stk[k].pc \in {"clean", "close_fn"} => sock'[stk[k].fd] = sock[stk[k].fd]

(* A step of an application thread: what is left to show. *)
LEMMA AppFrame ==
  ASSUME IInv, NEW t \in App, pc[t] # "sent",
         \A u \in App \ {t} : pc'[u] = pc[u] /\ call'[u] = call[u] /\ Undisturbed(u),
         cfg' = cfg, stk' = stk, TypeOK', VarShape',
         \A d \in Fd : SlotShape(d)' /\ ListsShape(d)',
         \A k \in Stack : CleansOn(k),
         \/ rpc_queue' = rpc_queue
         \/ /\ pc'[t] = "sent"
            /\ \E k \in Stack : rpc_queue' = [rpc_queue EXCEPT ![k] = Append(@, t)],
         StageShape(t)', UseShape(t)'
  PROVE  IInv'
<1>1. \A u \in App \ {t} : SameCall(u)
  BY DEF SameCall
<1>2. \A u \in App : StageShape(u)' /\ UseShape(u)'
  BY <1>1, CallKept DEF Undisturbed
<1>3. QueueShape' /\ \A j \in Stack : rpc_queue[j] # << >> =>
        rpc_queue'[j] # << >> /\ Head(rpc_queue'[j]) = Head(rpc_queue[j])
  <2>1. CASE rpc_queue' = rpc_queue
    BY <2>1, QueueKept
  <2>2. CASE rpc_queue' # rpc_queue
    BY <2>2, Enqueued
  <2> QED
    BY <2>1, <2>2
<1>4. ASSUME NEW k \in Stack PROVE WorkShape(k)'
  <2>1. stk[k].pc # "poll" => rpc_queue[k] # << >>
    BY DEF IInv, WorkShape
  <2>2. rpc_queue[k] # << >> =>
          Head(rpc_queue[k]) \in App /\ Head(rpc_queue[k]) # t
    BY DEF IInv, VarShape, QueueShape
  <2> QED
    BY <2>1, <2>2, <1>1, <1>3, WorkKept DEF CleansOn
<1> QED
  BY <1>2, <1>3, <1>4 DEF IInv, ListsShape

(* A stack thread answers a call: what is left to show. *)
LEMMA StackFrame ==
  ASSUME IInv, NEW k \in Stack, NEW t \in App, rpc_queue[k] # << >>, t = Head(rpc_queue[k]),
         \A u \in App \ {t} : SameCall(u) /\ Undisturbed(u),
         rpc_queue' = [rpc_queue EXCEPT ![k] = Tail(@)],
         cfg' = cfg, stk'[k] = NoWork, \A j \in Stack \ {k} : stk'[j] = stk[j] /\ CleansOn(j),
         TypeOK', VarShape',
         \A d \in Fd : SlotShape(d)' /\ ListsShape(d)',
         StageShape(t)', UseShape(t)'
  PROVE  IInv'
<1>1. \A u \in App : StageShape(u)' /\ UseShape(u)'
  BY CallKept DEF Undisturbed
<1>2. /\ QueueShape'
      /\ \A j \in Stack \ {k} :
           /\ rpc_queue'[j] = rpc_queue[j]
           /\ rpc_queue[j] # << >> => Head(rpc_queue[j]) # t /\ Head(rpc_queue[j]) \in App
  <2>1. \A u \in App \ {t} : pc'[u] = pc[u]
    BY DEF SameCall
  <2> QED
    BY <2>1, Dequeued
<1>3. ASSUME NEW j \in Stack \ {k} PROVE WorkShape(j)'
  <2>1. stk[j].pc # "poll" => rpc_queue[j] # << >>
    BY DEF IInv, WorkShape
  <2> QED
    BY <2>1, <1>2, WorkKept DEF CleansOn
<1>4. WorkShape(k)'
  BY DEF WorkShape, NoWork
<1> QED
  BY <1>1, <1>2, <1>3, <1>4 DEF IInv, ListsShape

(* A step of a stack thread in the middle of a handler, or of the network. *)
LEMMA SilentFrame ==
  ASSUME IInv, \A u \in App : SameCall(u) /\ Undisturbed(u), rpc_queue' = rpc_queue,
         cfg' = cfg, \A k \in Stack : WorkShape(k)', TypeOK', VarShape',
         \A d \in Fd : SlotShape(d)' /\ ListsShape(d)'
  PROVE  IInv'
<1>1. \A u \in App : StageShape(u)' /\ UseShape(u)'
  BY CallKept DEF Undisturbed
<1>2. QueueShape'
  BY QueueKept DEF SameCall
<1> QED
  BY <1>1, <1>2 DEF IInv, ListsShape

LEMMA CleansKept ==
  ASSUME IInv, \A d \in Fd : sock[d].open /\ ~Live(d) => sock'[d] = sock[d]
  PROVE  \A k \in Stack : CleansOn(k)
<1> SUFFICES ASSUME NEW k \in Stack, stk[k].pc \in {"clean", "close_fn"}
             PROVE  sock'[stk[k].fd] = sock[stk[k].fd]
  BY DEF CleansOn
<1>1. stk[k].fd \in Fd /\ sock[stk[k].fd].open /\ ~Live(stk[k].fd)
  BY DEF IInv, WorkShape
<1> QED
  BY <1>1

(* A step of an application thread that holds nothing but what it owns. *)
LEMMA AppPlain ==
  ASSUME IInv, NEW t \in App, pc[t] # "sent", Plain(t), Plain(t)',
         \A u \in App \ {t} : pc'[u] = pc[u] /\ call'[u] = call[u],
         cfg' = cfg, owner' = owner, stk' = stk, TypeOK', VarShape',
         \A d \in Fd : KeepsSlot(d) /\ SlotShape(d)',
         \A d \in Fd : owner[d] \notin {t, No} => KeepsConn(d),
         \A d \in Fd : ~Live(d) => sock'[d] = sock[d],
         \/ rpc_queue' = rpc_queue
         \/ /\ pc'[t] = "sent"
            /\ \E k \in Stack : rpc_queue' = [rpc_queue EXCEPT ![k] = Append(@, t)],
         StageShape(t)', UseShape(t)'
  PROVE  IInv'
<1>1. \A u \in App : KeepsRole(u)
  BY DEF KeepsRole, Role
<1>2. \A k \in Stack, d \in Fd : Accepting(k, d)' <=> Accepting(k, d)
  BY DEF Accepting
<1>3. \A d \in Fd : ListsShape(d)'
  BY <1>1, <1>2, RolesKept
<1>4. \A u \in App \ {t} : Undisturbed(u)
  BY ReachKept, Consts DEF KeepsSlot, Undisturbed
<1>5. \A k \in Stack : CleansOn(k)
  BY CleansKept
<1> QED
  BY <1>3, <1>4, <1>5, AppFrame

(* A stack thread answers a call that holds nothing before and after. *)
LEMMA StackPlain ==
  ASSUME IInv, NEW k \in Stack, NEW t \in App, stk[k] = NoWork, rpc_queue[k] # << >>,
         t = Head(rpc_queue[k]), Plain(t), Plain(t)',
         \A u \in App \ {t} : SameCall(u),
         rpc_queue' = [rpc_queue EXCEPT ![k] = Tail(@)],
         cfg' = cfg, owner' = owner, stk' = stk, TypeOK', VarShape',
         \A d \in Fd : KeepsSlot(d) /\ SlotShape(d)',
         \A d \in Fd : owner[d] \notin {t, No} => KeepsConn(d),
         \A d \in Fd : ~Live(d) => sock'[d] = sock[d],
         StageShape(t)', UseShape(t)'
  PROVE  IInv'
<1>1. ASSUME NEW u \in App PROVE KeepsRole(u)
  <2>1. CASE u = t
    BY <2>1 DEF KeepsRole
  <2>2. CASE u # t
    BY <2>2, SameFields DEF KeepsRole, Role
  <2> QED
    BY <2>1, <2>2
<1>2. \A j \in Stack, d \in Fd : Accepting(j, d)' <=> Accepting(j, d)
  BY DEF Accepting
<1>3. \A d \in Fd : ListsShape(d)'
  BY <1>1, <1>2, RolesKept
<1>4. \A u \in App \ {t} : Undisturbed(u)
  BY ReachKept, Consts DEF KeepsSlot, Undisturbed
<1>5. \A j \in Stack : CleansOn(j)
  BY CleansKept
<1> QED
  BY <1>3, <1>4, <1>5, StackFrame

-----------------------------------------------------------------------------
(* The calls that touch no descriptor's holder. *)
Pcs == {"idle", "count", "walk", "loop", "close", "sent", "ret"}

LEMMA Idle ==
  ASSUME IInv, NEW t \in App, pc[t] = "idle"
  PROVE  call[t] = NoCall /\ Plain(t) /\ call[t].op = "none"
<1>1. call[t] = NoCall
  BY DEF IInv, StageShape
<1> QED
  BY <1>1 DEF NoCall, Plain, Closes

LEMMA NoCallType == NoCall \in CallRec /\ NoCall.i = 0
  BY SocketsAssumption DEF NoCall, CallRec

SockRec ==
  [open : BOOLEAN, type : {"none", "UNKNOW", "HOST", "LIBOS"},
   kind : {"tcp", "udp", "kernel"},
   state : {"CLOSED", "LISTEN", "SYN_SENT", "ESTABLISHED", "CLOSE_WAIT"},
   stack : Stack \cup {No}, listen_next : Fd \cup {No},
   head : Fd \cup {No}, queue : 0..MaxQueue, bound : BOOLEAN,
   kernel : BOOLEAN, master : BOOLEAN]

LEMMA SockTypes ==
  ASSUME IInv, NEW d \in Fd
  PROVE  sock[d] \in SockRec
  BY DEF IInv, TypeOK, SockRec

(* The type of the sockets after one of them has changed. *)
LEMMA OneSocket ==
  ASSUME TypeOK, NEW d \in Fd, NEW r \in SockRec, sock' = [sock EXCEPT ![d] = r],
         UNCHANGED <<cfg, counts, history>>
  PROVE  /\ TypeOK' /\ sock'[d] = r /\ sock[d] \in SockRec
         /\ \A x \in Fd \ {d} : sock'[x] = sock[x]
<1>1. sock \in [Fd -> SockRec]
  BY DEF TypeOK, SockRec
<1>2. sock' \in [Fd -> SockRec]
  BY <1>1
<1>3. TypeOK'
  BY <1>2 DEF TypeOK, SockRec, counts, history
<1> QED
  BY <1>1, <1>3

(* A thread goes on to p with the call c and changes no socket. *)
LEMMA AppQuiet ==
  ASSUME IInv, NEW t \in App, pc[t] # "sent", Plain(t), call[t].op # "connect",
         NEW p \in Pcs, NEW c \in CallRec,
         pc' = [pc EXCEPT ![t] = p], call' = [call EXCEPT ![t] = c],
         cfg' = cfg, sock' = sock, owner' = owner, stk' = stk, TypeOK',
         c.op \notin {"close", "failed"},
         ~(p = "ret" /\ c.op \in {"socket", "accept"} /\ c.ret \in Fd),
         \/ rpc_queue' = rpc_queue
         \/ p = "sent" /\ \E k \in Stack : rpc_queue' = [rpc_queue EXCEPT ![k] = Append(@, t)],
         StageShape(t)', UseShape(t)'
  PROVE  IInv'
<1>1. /\ pc'[t] = p /\ call'[t] = c
      /\ \A u \in App \ {t} : pc'[u] = pc[u] /\ call'[u] = call[u]
  BY DEF IInv, VarShape
<1>2. Plain(t)'
  BY <1>1 DEF Plain, Closes
<1>3. VarShape'
  <2>1. rpc_queue \in [Stack -> Seq(App)]
    BY DEF IInv, VarShape
  <2>2. ASSUME NEW k \in Stack, rpc_queue' = [rpc_queue EXCEPT ![k] = Append(@, t)]
        PROVE  rpc_queue' \in [Stack -> Seq(App)]
    BY <2>1, <2>2
  <2> QED
    BY <2>1, <2>2 DEF IInv, VarShape, Pcs
<1>4. \A d \in Fd : KeepsSlot(d) /\ KeepsConn(d) /\ sock'[d] = sock[d]
  BY DEF KeepsSlot, KeepsConn, Live
<1>5. \A d \in Fd : SlotShape(d)'
  BY <1>1, SlotKept DEF SameCall
<1> QED
  BY <1>1, <1>2, <1>3, <1>4, <1>5, AppPlain

(* The thread is back in the application. *)
LEMMA AppBack ==
  ASSUME IInv, NEW t \in App, pc[t] # "sent", Plain(t), call[t].op # "connect", Return(t),
         UNCHANGED <<cfg, sock, owner, stk, rpc_queue>>, TypeOK'
  PROVE  IInv'
<1>1. pc'[t] = "idle" /\ call'[t] = NoCall
  BY DEF IInv, VarShape, Return
<1>2. StageShape(t)' /\ UseShape(t)'
  BY <1>1 DEF StageShape, UseShape, Closes, NoCall
<1>3. NoCall.op = "none"
  BY DEF NoCall
<1> QED
  BY <1>2, <1>3, NoCallType, AppQuiet DEF Return, Pcs

(* The thread calls stack k for c. *)
LEMMA AppSends ==
  ASSUME IInv, NEW t \in App, pc[t] # "sent", Plain(t), call[t].op # "connect",
         NEW k \in Stack, NEW c \in CallRec, CallStack(t, k, c),
         UNCHANGED <<cfg, sock, owner, stk>>, TypeOK',
         c.op \notin {"close", "failed"}, StageShape(t)', UseShape(t)'
  PROVE  IInv'
<1>1. k # No
  BY Consts
<1>2. /\ pc' = [pc EXCEPT ![t] = "sent"] /\ call' = [call EXCEPT ![t] = c]
      /\ rpc_queue' = [rpc_queue EXCEPT ![k] = Append(@, t)]
  BY <1>1 DEF CallStack
<1> QED
  BY <1>2, AppQuiet DEF Pcs

(* A socket with a connection has a stack, its own. *)
LEMMA StackOf ==
  ASSUME IInv, NEW d \in Fd, Live(d)
  PROVE  get_protocol_stack_by_fd(d) = sock[d].stack /\ sock[d].stack \in Stack
<1>1. sock[d].stack \in Stack
  BY DEF IInv, SlotShape
<1> QED
  BY <1>1, Consts DEF get_protocol_stack_by_fd, get_socket, Live

LEMMA NotKernel ==
  ASSUME NEW d \in Fd, SelectPath(d) # "KERNEL"
  PROVE  Live(d) /\ sock[d].type # "HOST"
  BY DEF SelectPath, Live

LEMMA ChosenStacks ==
  MinBindStack \in Stack /\ MinConnStack \in Stack
<1>1. 0 \in Stack
  BY Consts
<1>2. \A S \in SUBSET Stack : Least(S) # {} => (CHOOSE k \in Least(S) : TRUE) \in Stack
  BY DEF Least
<1>3. {k \in Stack : cfg.sep => IsSendThread(k)} \in SUBSET Stack /\ RecvStack \in SUBSET Stack
  BY DEF RecvStack
<1> QED
  BY <1>1, <1>2, <1>3 DEF MinBindStack, MinConnStack

LEMMA GetBindStackInv ==
  ASSUME IInv, NEW t \in App, NEW kind \in {"tcp", "udp"}, GetBindStack(t, kind)
  PROVE  IInv'
<1>1. /\ pc[t] = "idle" /\ UNCHANGED <<cfg, sock, conn_num, bind_stack, rpc_queue, stk, owner, served>>
  BY DEF GetBindStack, Begins, history
<1>2. call[t] = NoCall /\ Plain(t) /\ call[t].op = "none"
  BY <1>1, Idle
<1>3. TypeOK'
  BY <1>1, SocketsAssumption DEF GetBindStack, Begins, IInv, TypeOK
<1>4. ASSUME NEW k \in Stack, Counting(t, kind, k) PROVE IInv'
  <2> DEFINE c == [NoCall EXCEPT !.op = "socket", !.f = kind, !.k = k, !.tmp = conn_num[k]]
  <2>1. conn_num[k] \in 0..(ConnMod - 1)
    BY DEF IInv, TypeOK
  <2>2. c \in CallRec /\ c.op = "socket" /\ c.f = kind /\ c.k = k
    <3>1. NoCall \in CallRec
      BY NoCallType
    <3> QED
      BY <2>1, <3>1, ZenonT(30) DEF CallRec
  <2>3. pc' = [pc EXCEPT ![t] = "count"] /\ call' = [call EXCEPT ![t] = c]
    BY <1>4 DEF Counting
  <2> HIDE DEF c
  <2>4. pc'[t] = "count" /\ call'[t] = c
    BY <2>3 DEF IInv, VarShape
  <2>5. StageShape(t)' /\ UseShape(t)'
    BY <2>4, <2>2 DEF StageShape, UseShape, Closes
  <2> QED
    BY <1>1, <1>2, <1>3, <2>2, <2>3, <2>5, AppQuiet DEF Pcs
<1>5. CASE UNCHANGED <<pc, call>>
  <2>1. pc' = [pc EXCEPT ![t] = pc[t]] /\ call' = [call EXCEPT ![t] = call[t]]
    BY <1>5 DEF IInv, VarShape
  <2>2. StageShape(t)' /\ UseShape(t)'
    BY <1>1, <1>2, <1>5 DEF StageShape, UseShape, Closes, NoCall
  <2> QED
    BY <2>1, <2>2, <1>1, <1>2, <1>3, NoCallType, AppQuiet DEF Pcs
<1>6. bind_stack[t] # No => bind_stack[t] \in Stack
  BY DEF IInv, TypeOK
<1>7. ~(stack_index >= StackNum) => stack_index \in Stack
  BY SocketsAssumption DEF IInv, TypeOK, Stack
<1> QED
  BY <1>4, <1>5, <1>6, <1>7, ChosenStacks DEF GetBindStack

LEMMA CountSocketInv ==
  ASSUME IInv, NEW t \in App, CountSocket(t)
  PROVE  IInv'
<1> DEFINE c == [call[t] EXCEPT !.tmp = 0]
<1>1. /\ pc[t] = "count" /\ UNCHANGED <<cfg, sock, stack_index, stk, owner, served>>
      /\ CallStack(t, call[t].k, c)
  BY DEF CountSocket, history
<1>2. call[t] \in CallRec /\ call[t].op = "socket" /\ call[t].f \in {"tcp", "udp"}
      /\ call[t].k \in Stack /\ call[t].tmp \in Int
  BY <1>1, SocketsAssumption DEF IInv, StageShape, VarShape, CallRec, Stack
<1>3. TypeOK'
  <2>1. (call[t].tmp + 1) % ConnMod \in 0..(ConnMod - 1)
    BY <1>2, SocketsAssumption
  <2> QED
    BY <2>1, <1>1, <1>2 DEF CountSocket, IInv, TypeOK
<1>4. c \in CallRec /\ c.op = "socket" /\ c.f \in {"tcp", "udp"} /\ c.k \in Stack
  BY <1>2, SocketsAssumption DEF CallRec
<1>5. Plain(t)
  BY <1>1, <1>2 DEF Plain, Closes
<1> HIDE DEF c
<1>6. pc'[t] = "sent" /\ call'[t] = c
  BY <1>1, <1>2, Consts DEF CallStack, IInv, VarShape
<1>7. StageShape(t)' /\ UseShape(t)'
  BY <1>4, <1>6 DEF StageShape, UseShape, Closes
<1> QED
  BY <1>1, <1>2, <1>3, <1>4, <1>5, <1>7, AppSends

(* A thread asks the stack of a socket that it owns. *)
LEMMA AppAsks ==
  ASSUME IInv, NEW t \in App, pc[t] = "idle", NEW d \in Fd, owner[d] = t, Live(d),
         NEW c \in CallRec, c.fd = d, c.cur = d, c.i = 0,
         \/ c.op = "bind" /\ c.f = "bind" /\ c.k \in Stack
         \/ c.op = "listen" /\ c.f \in {"getsockname", "listen"} /\ c.k \in Stack
         \/ c.op = "query" /\ c.f = "query"
         \/ /\ c.op = "connect" /\ c.f = "connect"
            /\ sock[d].type # "HOST" /\ ~sock[d].kernel,
         CallStack(t, get_protocol_stack_by_fd(d), c),
         UNCHANGED <<cfg, sock, owner, stk>>, TypeOK'
  PROVE  IInv'
<1>1. call[t] = NoCall /\ Plain(t) /\ call[t].op = "none"
  BY Idle
<1>2. PICK k \in Stack : k = get_protocol_stack_by_fd(d)
  BY StackOf
<1>3. pc'[t] = "sent" /\ call'[t] = c
  BY <1>2, Consts DEF CallStack, IInv, VarShape
<1>4. c.op \notin {"close", "failed"}
  OBVIOUS
<1>5. Reach(d)' = Reach(d) /\ d \in Reach(d)
  BY ReachSelf DEF Reach, Closed
<1>6. StageShape(t)'
  BY <1>3, Consts DEF StageShape, Closes
<1>7. sock[d].type \in {"UNKNOW", "HOST", "LIBOS"}
  BY DEF IInv, TypeOK, Live
<1>8. UseShape(t)'
  BY <1>3, <1>5, <1>7 DEF UseShape, Live
<1> QED
  BY <1>1, <1>2, <1>4, <1>6, <1>8, AppSends

LEMMA BindInv ==
  ASSUME IInv, NEW t \in App, NEW d \in Fd, Bind(t, d)
  PROVE  IInv'
<1>1. pc[t] = "idle" /\ owner[d] = t /\ Live(d)
  BY NotKernel DEF Bind, Begins
<1> DEFINE c == [NoCall EXCEPT !.op = "bind", !.fd = d, !.f = "bind", !.cur = d,
                               !.k = get_protocol_stack_by_fd(d)]
<1>2. UNCHANGED <<cfg, sock, owner, stk>> /\ TypeOK'
      /\ CallStack(t, get_protocol_stack_by_fd(d), c)
  BY DEF Bind, IInv, TypeOK, counts, history
<1>3. /\ c \in CallRec /\ c.fd = d /\ c.cur = d /\ c.i = 0
      /\ c.op = "bind" /\ c.f = "bind" /\ c.k \in Stack
  BY <1>1, StackOf, NoCallType DEF CallRec
<1> HIDE DEF c
<1> QED
  BY <1>1, <1>2, <1>3, AppAsks

LEMMA ListenInv ==
  ASSUME IInv, NEW t \in App, NEW d \in Fd, Listen(t, d)
  PROVE  IInv'
<1>1. pc[t] = "idle" /\ owner[d] = t /\ Live(d)
  BY NotKernel DEF Listen, Begins
<1> DEFINE c == [NoCall EXCEPT !.op = "listen", !.fd = d, !.cur = d,
                               !.f = IF Spread THEN "getsockname" ELSE "listen",
                               !.k = get_protocol_stack_by_fd(d)]
<1>2. UNCHANGED <<cfg, sock, owner, stk>> /\ TypeOK'
      /\ CallStack(t, get_protocol_stack_by_fd(d), c)
  BY DEF Listen, IInv, TypeOK, counts, history
<1>3. /\ c \in CallRec /\ c.fd = d /\ c.cur = d /\ c.i = 0
      /\ c.op = "listen" /\ c.f \in {"getsockname", "listen"} /\ c.k \in Stack
  BY <1>1, StackOf, NoCallType DEF CallRec
<1> HIDE DEF c
<1> QED
  BY <1>1, <1>2, <1>3, AppAsks

LEMMA QueryInv ==
  ASSUME IInv, NEW t \in App, NEW d \in Fd, NEW set \in BOOLEAN, Query(t, d, set)
  PROVE  IInv'
<1>1. pc[t] = "idle" /\ owner[d] = t /\ Live(d)
  BY NotKernel DEF Query, Begins, QuerySide
<1> DEFINE c == [NoCall EXCEPT !.op = "query", !.fd = d, !.f = "query", !.cur = d]
<1>2. UNCHANGED <<cfg, sock, owner, stk>> /\ TypeOK'
      /\ CallStack(t, get_protocol_stack_by_fd(d), c)
  BY DEF Query, IInv, TypeOK, counts, history
<1>3. /\ c \in CallRec /\ c.fd = d /\ c.cur = d /\ c.i = 0
      /\ c.op = "query" /\ c.f = "query"
  BY <1>1, NoCallType DEF CallRec
<1> HIDE DEF c
<1> QED
  BY <1>1, <1>2, <1>3, AppAsks

LEMMA ConnectInv ==
  ASSUME IInv, NEW t \in App, NEW d \in Fd, NEW local \in BOOLEAN, Connect(t, d, local)
  PROVE  IInv'
<1>1. /\ pc[t] = "idle" /\ owner[d] = t /\ Live(d) /\ sock[d].type # "HOST"
      /\ sock[d].state = "CLOSED" /\ ~sock[d].kernel
  BY NotKernel DEF Connect, Begins
<1>2. call[t] = NoCall /\ Plain(t) /\ call[t].op = "none"
  BY <1>1, Idle
<1>3. UNCHANGED <<cfg, owner, stk, conn_num, bind_stack, stack_index, socket_lock, served>>
  BY DEF Connect, counts, history
<1>4. CASE ~local
  <2> DEFINE c == [[NoCall EXCEPT !.op = "connect", !.fd = d, !.cur = d] EXCEPT !.f = "connect"]
  <2>1. sock' = sock /\ TypeOK' /\ CallStack(t, get_protocol_stack_by_fd(d), c)
    BY <1>3, <1>4 DEF Connect, IInv, TypeOK
  <2>2. /\ c \in CallRec /\ c.fd = d /\ c.cur = d /\ c.i = 0
        /\ c.op = "connect" /\ c.f = "connect"
    BY NoCallType DEF CallRec
  <2> HIDE DEF c
  <2> QED
    BY <1>1, <1>3, <2>1, <2>2, AppAsks
<1>5. CASE local
  <2> DEFINE c == [[NoCall EXCEPT !.op = "connect", !.fd = d, !.cur = d] EXCEPT !.f = "local"]
  <2>1. /\ sock' = [sock EXCEPT ![d].kernel = TRUE] /\ rpc_queue' = rpc_queue
        /\ call' = [call EXCEPT ![t] = c] /\ pc' = [pc EXCEPT ![t] = "ret"]
    BY <1>5 DEF Connect
  <2>2. /\ c \in CallRec /\ c.fd = d /\ c.cur = d /\ c.i = 0
        /\ c.op = "connect" /\ c.f = "local"
    BY NoCallType DEF CallRec
  <2> HIDE DEF c
  <2>3. /\ pc'[t] = "ret" /\ call'[t] = c
        /\ \A u \in App \ {t} : pc'[u] = pc[u] /\ call'[u] = call[u]
    BY <2>1 DEF IInv, VarShape
  <2>4. VarShape'
    BY <2>1, <2>2, <1>3 DEF IInv, VarShape
  <2> DEFINE r == [sock[d] EXCEPT !.kernel = TRUE]
  <2>5. sock' = [sock EXCEPT ![d] = r] /\ r \in SockRec
    BY <2>1, SockTypes DEF SockRec
  <2>6. /\ TypeOK' /\ sock'[d] = r /\ sock[d] \in SockRec
        /\ \A x \in Fd \ {d} : sock'[x] = sock[x]
    BY <2>5, <1>3, OneSocket DEF IInv, counts, history
  <2>7. /\ sock'[d].open = sock[d].open /\ sock'[d].type = sock[d].type
        /\ sock'[d].kind = sock[d].kind /\ sock'[d].state = sock[d].state
        /\ sock'[d].stack = sock[d].stack /\ sock'[d].listen_next = sock[d].listen_next
        /\ sock'[d].head = sock[d].head /\ sock'[d].queue = sock[d].queue
        /\ sock'[d].kernel
    BY <2>6 DEF SockRec
  <2>8. \A x \in Fd : KeepsSlot(x)
    BY <2>6, <2>7 DEF KeepsSlot, Live
  <2>9. \A x \in Fd : owner[x] \notin {t, No} => KeepsConn(x)
    BY <2>6, <1>1 DEF KeepsConn
  <2>10. \A x \in Fd : ~Live(x) => sock'[x] = sock[x]
    BY <2>6, <1>1
  <2>11. \A x \in Fd \ {d} : SlotShape(x)'
    BY <1>2, <2>3, <2>6, SlotKept DEF SameCall
  <2>12. SlotShape(d)'
    <3>1. SlotShape(d)
      BY DEF IInv
    <3> QED
      BY <3>1, <1>1, <2>2, <2>3, <2>7 DEF SlotShape, Live
  <2>13. Reach(d)' = Reach(d) /\ d \in Reach(d)
    BY <2>8, ReachKept, ReachSelf
  <2>14. StageShape(t)'
    BY <2>3, <2>2 DEF StageShape, Closes
  <2>15. UseShape(t)'
    <3>1. sock[d].type \in {"UNKNOW", "LIBOS"}
      BY <1>1 DEF IInv, TypeOK, Live
    <3> QED
      BY <2>3, <2>2, <2>7, <3>1, <1>1, <1>3 DEF UseShape, Live
  <2>16. Plain(t)'
    BY <2>2, <2>3 DEF Plain, Closes
  <2>17. \A x \in Fd : SlotShape(x)'
    BY <2>11, <2>12
  <2> QED
    BY <1>1, <1>2, <1>3, <2>1, <2>3, <2>4, <2>6, <2>8, <2>9, <2>10, <2>14, <2>15, <2>16,
       <2>17, AppPlain
<1> QED
  BY <1>4, <1>5

-----------------------------------------------------------------------------
(* close, and the failure of a broadcast *)

(* A thread begins to close a socket that it owns. *)
LEMMA ClosingInv ==
  ASSUME IInv, NEW t \in App, NEW d \in Fd, owner[d] = t, pc[t] # "sent", Plain(t),
         call[t].op # "connect", NEW o \in {"close", "failed"},
         owner' = [owner EXCEPT ![d] = No], served' = served \ {d},
         pc' = [pc EXCEPT ![t] = "close"],
         call' = [call EXCEPT ![t] = [NoCall EXCEPT !.op = o, !.fd = d, !.cur = d]],
         UNCHANGED <<cfg, sock, counts, rpc_queue, stk>>
  PROVE  IInv'
<1> DEFINE c == [NoCall EXCEPT !.op = o, !.fd = d, !.cur = d]
<1>1. c \in CallRec /\ c.op = o /\ c.fd = d /\ c.cur = d /\ c.next = No /\ c.f = "none"
  <2>1. NoCall.next = No /\ NoCall.f = "none"
    BY DEF NoCall
  <2> QED
    BY <2>1, NoCallType, ZenonT(30) DEF CallRec
<1>2. call' = [call EXCEPT ![t] = c]
  OBVIOUS
<1> HIDE DEF c
<1>3. /\ pc'[t] = "close" /\ call'[t] = c
      /\ \A u \in App \ {t} : pc'[u] = pc[u] /\ call'[u] = call[u]
      /\ owner'[d] = No /\ \A x \in Fd \ {d} : owner'[x] = owner[x]
  BY <1>2 DEF IInv, VarShape, TypeOK
<1>4. VarShape'
  BY <1>1, <1>2 DEF IInv, VarShape
<1>5. TypeOK'
  BY DEF IInv, TypeOK, counts
<1>6. \A x \in Fd : SlotShape(x)'
  BY <1>3, SlotKept DEF SameCall
<1>7. \A x \in Fd : Reach(x)' = Reach(x)
  BY DEF Reach, Closed
<1>8. \A u \in App, x \in Fd :
        /\ Given(u, x)' <=> Given(u, x)
        /\ Closing(u, x)' <=> (Closing(u, x) \/ (u = t /\ x = d))
        /\ NextOf(u, x)' <=> NextOf(u, x)
        /\ Closing(u, x) => pc'[u] = pc[u]
  BY <1>1, <1>3 DEF Given, Closing, NextOf, Closes, Plain
<1>9. \A k \in Stack, x \in Fd : Accepting(k, x)' <=> Accepting(k, x)
  BY DEF Accepting
<1>10. ASSUME NEW u \in App, NEW x \in Fd
       PROVE  Doomed(u, x)' <=> (Doomed(u, x) \/ (u = t /\ x \in Reach(d)))
  <2>1. CASE u = t
    <3>1. call'[t].cur = d /\ pc'[t] = "close" /\ Closes(t)' /\ ~Closes(t)
      BY <1>1, <1>3 DEF Closes, Plain
    <3> QED
      BY <2>1, <3>1, <1>7 DEF Doomed
  <2>2. CASE u # t
    <3>1. Closes(u) => /\ call[u].cur \in Fd /\ call[u].next \in Fd \cup {No}
      BY DEF IInv, StageShape, VarShape, CallRec
    <3>2. call'[u] = call[u] /\ pc'[u] = pc[u] /\ (Closes(u)' <=> Closes(u))
      BY <1>3, <2>2 DEF Closes
    <3> QED
      BY <2>2, <3>1, <3>2, <1>7 DEF Doomed
  <2> QED
    BY <2>1, <2>2
<1>11. sock[d].head = d /\ sock[d].open /\ t # No
       /\ (\A u \in App : ~Given(u, d) /\ ~Closing(u, d))
       /\ \A k \in Stack : ~Accepting(k, d)
  BY Consts DEF IInv, RoleShape
<1>12. ASSUME NEW x \in Fd PROVE ListsShape(x)'
  <2>1. SlotShape(x) /\ RoleShape(x) /\ LinkShape(x) /\ ListShape(x) /\ OpenShape(x)
    BY DEF IInv
  <2>2. RoleShape(x)'
    <3>1. CASE x = d
      BY <3>1, <2>1, <1>3, <1>8, <1>9, <1>11 DEF RoleShape, Live
    <3>2. CASE x # d
      BY <3>2, <2>1, <1>3, <1>8, <1>9 DEF RoleShape, Live
    <3> QED
      BY <3>1, <3>2
  <2>3. LinkShape(x)'
    <3>1. sock[x].listen_next # No => sock[x].listen_next \in Fd
      BY DEF IInv, TypeOK
    <3> QED
      BY <2>1, <3>1, <1>7, <1>8, <1>11 DEF LinkShape, Live
  <2>4. ListShape(x)'
    <3>1. owner'[x] # No => \E y \in Reach(x)' : sock'[y].listen_next = No
      BY <2>1, <1>3, <1>7 DEF ListShape
    <3>2. ASSUME Live(x), sock[x].head # x
          PROVE  \/ owner'[sock[x].head] # No /\ x \in Reach(sock[x].head)'
                 \/ \E u \in App : Doomed(u, x)'
      <4>1. PICK h \in Fd : h = sock[x].head
        BY <3>2, <2>1 DEF SlotShape
      <4>2. (owner[h] # No /\ x \in Reach(h)) \/ \E u \in App : Doomed(u, x)
        BY <3>2, <2>1, <4>1 DEF ListShape
      <4>3. CASE h = d
        BY <4>1, <4>2, <4>3, <1>10
      <4>4. CASE h # d
        BY <4>1, <4>2, <4>4, <1>3, <1>7, <1>10
      <4> QED
        BY <4>3, <4>4
    <3> QED
      BY <3>1, <3>2 DEF ListShape, Live
  <2>5. OpenShape(x)'
    BY <2>1, <1>3, <1>8, <1>9 DEF OpenShape, Live
  <2> QED
    BY <2>2, <2>3, <2>4, <2>5 DEF ListsShape
<1>13. \A u \in App \ {t} : Undisturbed(u)
  BY <1>3, <1>7 DEF Undisturbed, Live, KeepsConn
<1>14. StageShape(t)' /\ UseShape(t)'
  BY <1>1, <1>3 DEF StageShape, UseShape, Closes
<1>15. \A k \in Stack : CleansOn(k)
  BY DEF CleansOn
<1> QED
  BY <1>3, <1>4, <1>5, <1>6, <1>12, <1>13, <1>14, <1>15, AppFrame

LEMMA CloseInv ==
  ASSUME IInv, NEW t \in App, NEW d \in Fd, Close(t, d)
  PROVE  IInv'
<1>1. pc[t] = "idle" /\ owner[d] = t
  BY DEF Close, Begins
<1>2. call[t] = NoCall /\ Plain(t) /\ call[t].op = "none"
  BY <1>1, Idle
<1> QED
  BY <1>1, <1>2, ClosingInv, Zenon DEF Close

LEMMA CloseAllInv ==
  ASSUME IInv, NEW t \in App, pc[t] = "ret", call[t].op \in {"bind", "listen"}, CloseAll(t),
         UNCHANGED <<cfg, sock, counts, rpc_queue, stk>>
  PROVE  IInv'
<1>1. PICK d \in Fd : d = call[t].fd /\ owner[d] = t
  BY DEF IInv, UseShape
<1>2. Plain(t)
  BY DEF Plain, Closes
<1> QED
  BY <1>1, <1>2, ClosingInv, Zenon DEF CloseAll

-----------------------------------------------------------------------------
(* bind and listen *)

(* The call that a returning stack has answered. *)
LEMMA RetOp ==
  ASSUME IInv, NEW t \in App, pc[t] = "ret"
  PROVE  /\ call[t].f = "bind" => call[t].op = "bind"
         /\ call[t].f = "shadow" => call[t].op \in {"bind", "listen"}
         /\ call[t].f \in {"getsockname", "listen"} => call[t].op = "listen"
         /\ call[t].f = "close" <=> Closes(t)
         /\ call[t].op \in {"bind", "listen", "query", "recvfrom"} =>
              Plain(t) /\ call[t] \in CallRec /\ call[t].fd \in Fd
  BY DEF IInv, StageShape, Closes, Plain, VarShape, UseShape

(* The thread stays in its call on a socket that it owns, or calls a stack *)
(* of it.                                                                  *)
LEMMA AppGoesOn ==
  ASSUME IInv, NEW t \in App, pc[t] \in {"ret", "loop"}, call[t].op \in {"bind", "listen"},
         NEW c \in CallRec, c.op = call[t].op, c.fd = call[t].fd, c.k = call[t].k,
         pc' = [pc EXCEPT ![t] = "loop"], call' = [call EXCEPT ![t] = c],
         UNCHANGED <<cfg, sock, owner, stk, rpc_queue>>, TypeOK'
  PROVE  IInv'
<1>1. StageShape(t) /\ UseShape(t) /\ Plain(t)
  BY DEF IInv, Plain, Closes
<1>2. pc'[t] = "loop" /\ call'[t] = c
  BY DEF IInv, VarShape
<1>3. StageShape(t)'
  BY <1>1, <1>2 DEF StageShape, Closes
<1>4. UseShape(t)'
  BY <1>1, <1>2 DEF UseShape, Live
<1> QED
  BY <1>1, <1>3, <1>4, AppQuiet DEF Pcs

LEMMA BindReturnsInv ==
  ASSUME IInv, NEW t \in App, BindReturns(t)
  PROVE  IInv'
<1>1. pc[t] = "ret" /\ call[t].f = "bind" /\ UNCHANGED <<cfg, sock, counts, rpc_queue, stk>>
  BY DEF BindReturns
<1>2. call[t].op = "bind" /\ Plain(t) /\ call[t] \in CallRec
  BY <1>1, RetOp
<1>3. CASE CloseAll(t)
  BY <1>1, <1>2, <1>3, CloseAllInv
<1>4. CASE UNCHANGED history
  <2>1. TypeOK' /\ UNCHANGED <<cfg, sock, owner, stk, rpc_queue>>
    BY <1>1, <1>4 DEF IInv, TypeOK, counts, history
  <2>2. CASE Return(t)
    BY <1>1, <1>2, <2>1, <2>2, AppBack
  <2>3. CASE pc' = [pc EXCEPT ![t] = "loop"] /\ call' = call
    <3>1. call' = [call EXCEPT ![t] = call[t]]
      BY <2>3 DEF IInv, VarShape
    <3> QED
      BY <1>1, <1>2, <2>1, <2>3, <3>1, AppGoesOn
  <2> QED
    BY <1>3, <2>2, <2>3 DEF BindReturns
<1> QED
  BY <1>3, <1>4 DEF BindReturns

LEMMA NameReturnsInv ==
  ASSUME IInv, NEW t \in App, NameReturns(t)
  PROVE  IInv'
<1>1. pc[t] = "ret" /\ call[t].f = "getsockname" /\ UNCHANGED <<cfg, sock, owner, stk, rpc_queue>>
  BY DEF NameReturns, history
<1>2. call[t].op = "listen" /\ Plain(t) /\ call[t] \in CallRec
  BY <1>1, RetOp
<1>3. TypeOK'
  BY DEF NameReturns, IInv, TypeOK, counts, history
<1>4. CASE Return(t)
  BY <1>1, <1>2, <1>3, <1>4, AppBack
<1>5. CASE pc' = [pc EXCEPT ![t] = "loop"] /\ call' = [call EXCEPT ![t].tmp = MinConnStack]
  <2> DEFINE c == [call[t] EXCEPT !.tmp = MinConnStack]
  <2>1. call' = [call EXCEPT ![t] = c]
    BY <1>5
  <2>2. c \in CallRec /\ c.op = call[t].op /\ c.fd = call[t].fd /\ c.k = call[t].k
    BY <1>2, ChosenStacks DEF CallRec
  <2> HIDE DEF c
  <2> QED
    BY <1>1, <1>2, <1>3, <1>5, <2>1, <2>2, AppGoesOn
<1> QED
  BY <1>4, <1>5 DEF NameReturns

LEMMA ListenReturnsInv ==
  ASSUME IInv, NEW t \in App, ListenReturns(t)
  PROVE  IInv'
<1>1. pc[t] = "ret" /\ call[t].f = "listen" /\ UNCHANGED <<cfg, sock, counts, rpc_queue, stk>>
  BY DEF ListenReturns
<1>2. call[t].op = "listen" /\ Plain(t) /\ call[t] \in CallRec /\ call[t].fd \in Fd
  BY <1>1, RetOp
<1>3. CASE CloseAll(t)
  BY <1>1, <1>2, <1>3, CloseAllInv
<1>4. CASE /\ Return(t) /\ UNCHANGED owner
           /\ served' = IF call[t].ret = 0 THEN served \cup {call[t].fd} ELSE served
  <2>1. TypeOK'
    BY <1>1, <1>2, <1>4 DEF IInv, TypeOK, counts
  <2> QED
    BY <1>1, <1>2, <1>4, <2>1, AppBack
<1>5. CASE /\ Spread /\ pc' = [pc EXCEPT ![t] = "loop"] /\ UNCHANGED history
           /\ call' = [call EXCEPT ![t].i = @ + 1]
  <2> DEFINE c == [call[t] EXCEPT !.i = @ + 1]
  <2>1. call' = [call EXCEPT ![t] = c]
    BY <1>5
  <2>2. call[t].i \in Stack
    BY <1>1, <1>2, <1>5 DEF IInv, StageShape
  <2>3. call[t].i + 1 \in 0..StackNum
    BY <2>2, SocketsAssumption DEF Stack
  <2>4. c \in CallRec /\ c.op = call[t].op /\ c.fd = call[t].fd /\ c.k = call[t].k
    BY <1>2, <2>3 DEF CallRec
  <2> HIDE DEF c
  <2>5. TypeOK' /\ UNCHANGED owner
    BY <1>1, <1>5 DEF IInv, TypeOK, counts, history
  <2> QED
    BY <1>1, <1>2, <1>5, <2>1, <2>4, <2>5, AppGoesOn
<1> QED
  BY <1>3, <1>4, <1>5 DEF ListenReturns

LEMMA BroadcastDoneInv ==
  ASSUME IInv, NEW t \in App, BroadcastDone(t)
  PROVE  IInv'
<1>1. pc[t] = "loop" /\ UNCHANGED <<cfg, sock, counts, rpc_queue, stk, owner>>
  BY DEF BroadcastDone
<1>2. call[t].op \in {"bind", "listen"} /\ call[t].fd \in Fd
  BY <1>1 DEF IInv, StageShape, UseShape
<1>3. Plain(t)
  BY <1>1, <1>2 DEF Plain, Closes
<1>4. TypeOK'
  BY <1>1, <1>2 DEF BroadcastDone, IInv, TypeOK, counts
<1> QED
  BY <1>1, <1>2, <1>3, <1>4, AppBack DEF BroadcastDone

(* A step that changes one socket, but neither its place nor whether it is *)
(* there.                                                                  *)
LEMMA Touched ==
  ASSUME IInv, NEW d \in Fd, Live(d), NEW r \in SockRec, sock' = [sock EXCEPT ![d] = r],
         UNCHANGED <<cfg, counts, history>>, r.type # "none", r.open = sock[d].open,
         r.kind = sock[d].kind, r.stack = sock[d].stack, r.head = sock[d].head,
         r.listen_next = sock[d].listen_next
  PROVE  /\ TypeOK' /\ owner' = owner /\ sock'[d] = r
         /\ \A x \in Fd \ {d} : sock'[x] = sock[x]
         /\ \A x \in Fd : KeepsSlot(x) /\ (~Live(x) => sock'[x] = sock[x])
         /\ \A x \in Fd : Reach(x)' = Reach(x)
<1>1. TypeOK' /\ sock'[d] = r /\ \A x \in Fd \ {d} : sock'[x] = sock[x]
  BY OneSocket DEF IInv
<1>2. \A x \in Fd : KeepsSlot(x) /\ (~Live(x) => sock'[x] = sock[x])
  BY <1>1 DEF KeepsSlot, Live
<1> QED
  BY <1>1, <1>2, ReachKept DEF history

(* ... of a thread, and only the queue, the address or the master *)
LEMMA AppTouches ==
  ASSUME IInv, NEW t \in App, pc[t] # "sent", Plain(t), Plain(t)', call[t].op # "connect",
         \A u \in App \ {t} : pc'[u] = pc[u] /\ call'[u] = call[u],
         NEW d \in Fd, Live(d), NEW r \in SockRec, sock' = [sock EXCEPT ![d] = r],
         UNCHANGED <<cfg, counts, history, stk>>, VarShape', r.type = sock[d].type,
         r.open = sock[d].open, r.kind = sock[d].kind, r.stack = sock[d].stack,
         r.head = sock[d].head, r.listen_next = sock[d].listen_next,
         r.state = sock[d].state, r.kernel = sock[d].kernel,
         \/ rpc_queue' = rpc_queue
         \/ /\ pc'[t] = "sent"
            /\ \E k \in Stack : rpc_queue' = [rpc_queue EXCEPT ![k] = Append(@, t)],
         StageShape(t)', UseShape(t)'
  PROVE  IInv'
<1>1. /\ TypeOK' /\ owner' = owner /\ sock'[d] = r
      /\ \A x \in Fd \ {d} : sock'[x] = sock[x]
      /\ \A x \in Fd : KeepsSlot(x) /\ (~Live(x) => sock'[x] = sock[x])
  BY Touched DEF Live
<1>2. \A x \in Fd : KeepsConn(x)
  BY <1>1 DEF KeepsConn
<1>3. SlotShape(d)'
  <2>1. SlotShape(d)
    BY DEF IInv
  <2> QED
    BY <2>1, <1>1 DEF SlotShape, Live
<1>4. \A x \in Fd : SlotShape(x)'
  BY <1>1, <1>3, SlotKept DEF SameCall
<1> QED
  BY <1>1, <1>2, <1>4, AppPlain

LEMMA BroadcastInv ==
  ASSUME IInv, NEW t \in App, Broadcast(t)
  PROVE  IInv'
<1>1. /\ pc[t] = "loop" /\ call[t].i < StackNum
      /\ UNCHANGED <<cfg, counts, stk, owner, served, history>>
  BY DEF Broadcast, history
<1>2. /\ call[t] \in CallRec /\ call[t].op \in {"bind", "listen"} /\ call[t].k \in Stack
      /\ call[t].fd \in Fd /\ owner[call[t].fd] = t /\ Live(call[t].fd)
  BY <1>1 DEF IInv, VarShape, StageShape, UseShape
<1>3. call[t].i \in Stack /\ call[t].i # No /\ call[t].i + 1 \in 0..StackNum
  <2>1. call[t].i \in 0..StackNum
    BY <1>2 DEF CallRec
  <2>2. call[t].i \in Stack /\ call[t].i + 1 \in 0..StackNum
    BY <2>1, <1>1, SocketsAssumption DEF Stack
  <2> QED
    BY <2>2, Consts
<1>4. Plain(t)
  BY <1>1, <1>2 DEF Plain, Closes
<1>5. PICK d \in Fd : d = call[t].fd
  BY <1>2
<1>6. CASE call' = [call EXCEPT ![t].i = @ + 1] /\ UNCHANGED <<pc, rpc_queue, sock>>
  <2> DEFINE c == [call[t] EXCEPT !.i = @ + 1]
  <2>1. call' = [call EXCEPT ![t] = c] /\ pc' = [pc EXCEPT ![t] = "loop"]
    BY <1>1, <1>6 DEF IInv, VarShape
  <2>2. c \in CallRec /\ c.op = call[t].op /\ c.fd = call[t].fd /\ c.k = call[t].k
    BY <1>2, <1>3 DEF CallRec
  <2>3. TypeOK'
    BY <1>1, <1>6 DEF IInv, TypeOK, counts
  <2> HIDE DEF c
  <2> QED
    BY <1>1, <1>2, <1>6, <2>1, <2>2, <2>3, AppGoesOn
<1>7. ASSUME NEW c \in CallRec, NEW g \in {"shadow", "listen"},
             g = "listen" => call[t].op = "listen",
             c = [call[t] EXCEPT !.f = g, !.cur = call[t].fd],
             Reach(d)' = Reach(d), Live(d)', pc'[t] = "sent", call'[t] = c
      PROVE  StageShape(t)' /\ UseShape(t)'
  <2>1. /\ c.op = call[t].op /\ c.f = g /\ c.cur = d /\ c.fd = d /\ c.i = call[t].i
        /\ c.k = call[t].k
    BY <1>2, <1>5, <1>7 DEF CallRec
  <2>2. StageShape(t)'
    BY <2>1, <1>2, <1>3, <1>7 DEF StageShape, Closes
  <2>3. UseShape(t)'
    BY <2>1, <1>1, <1>2, <1>5, <1>7, ReachSelf DEF UseShape
  <2> QED
    BY <2>2, <2>3
<1>8. CASE /\ CallStack(t, call[t].i, [call[t] EXCEPT !.f = "shadow", !.cur = call[t].fd])
           /\ UNCHANGED sock
  <2> DEFINE c == [call[t] EXCEPT !.f = "shadow", !.cur = call[t].fd]
  <2>1. c \in CallRec /\ c.op = call[t].op
    BY <1>2 DEF CallRec
  <2>2. TypeOK'
    BY <1>1, <1>8 DEF IInv, TypeOK, counts
  <2>3. pc'[t] = "sent" /\ call'[t] = c
    BY <1>8, <1>3 DEF CallStack, IInv, VarShape
  <2>4. Reach(d)' = Reach(d) /\ Live(d)'
    BY <1>8, <1>2, <1>5 DEF Reach, Closed, Live
  <2>5. StageShape(t)' /\ UseShape(t)'
    BY <2>1, <2>3, <2>4, <1>7
  <2> HIDE DEF c
  <2>6. CallStack(t, call[t].i, c)
    BY <1>8 DEF c
  <2> QED
    BY <1>1, <1>2, <1>3, <1>4, <1>8, <2>1, <2>2, <2>5, <2>6, AppSends
<1>9. CASE /\ call[t].op = "listen"
           /\ sock' = [sock EXCEPT ![call[t].fd].master = (call[t].tmp = call[t].i)]
           /\ CallStack(t, get_protocol_stack_by_fd(call[t].fd),
                        [call[t] EXCEPT !.f = "listen", !.cur = call[t].fd])
  <2> DEFINE c == [call[t] EXCEPT !.f = "listen", !.cur = call[t].fd]
             r == [sock[d] EXCEPT !.master = (call[t].tmp = call[t].i)]
  <2>1. c \in CallRec /\ c.op = call[t].op
    BY <1>2 DEF CallRec
  <2>2. PICK k \in Stack : k = get_protocol_stack_by_fd(d) /\ k # No
    BY <1>2, <1>5, StackOf, Consts
  <2>3. /\ pc' = [pc EXCEPT ![t] = "sent"] /\ call' = [call EXCEPT ![t] = c]
        /\ rpc_queue' = [rpc_queue EXCEPT ![k] = Append(@, t)]
    BY <1>9, <1>5, <2>2 DEF CallStack
  <2>4. /\ pc'[t] = "sent" /\ call'[t] = c
        /\ \A u \in App \ {t} : pc'[u] = pc[u] /\ call'[u] = call[u]
    BY <2>3 DEF IInv, VarShape
  <2>5. VarShape'
    <3>1. rpc_queue \in [Stack -> Seq(App)]
      BY DEF IInv, VarShape
    <3>2. rpc_queue' \in [Stack -> Seq(App)]
      BY <2>3, <3>1
    <3> HIDE DEF c
    <3> QED
      BY <1>1, <2>1, <2>3, <3>2 DEF IInv, VarShape
  <2>6. sock[d] \in SockRec /\ sock' = [sock EXCEPT ![d] = r]
    BY <1>9, <1>5, SockTypes
  <2>7. r \in SockRec
    <3>1. (call[t].tmp = call[t].i) \in BOOLEAN
      OBVIOUS
    <3> QED
      BY <2>6, <3>1 DEF SockRec
  <2>8. /\ r.type = sock[d].type /\ r.open = sock[d].open /\ r.kind = sock[d].kind
        /\ r.stack = sock[d].stack /\ r.head = sock[d].head
        /\ r.listen_next = sock[d].listen_next
        /\ r.state = sock[d].state /\ r.kernel = sock[d].kernel
    BY <2>6 DEF SockRec
  <2> HIDE DEF r
  <2>9. Reach(d)' = Reach(d) /\ sock'[d] = r
    BY <2>6, <2>7, <2>8, <1>1, <1>2, <1>5, Touched DEF Live
  <2>10. StageShape(t)' /\ UseShape(t)'
    <3>1. Live(d)'
      BY <2>8, <2>9, <1>2, <1>5 DEF Live
    <3> QED
      BY <2>1, <2>4, <2>9, <3>1, <1>7, <1>9
  <2>11. Plain(t)'
    BY <2>1, <2>4, <1>2 DEF Plain, Closes
  <2> HIDE DEF c
  <2> QED
    BY <1>1, <1>2, <1>4, <1>5, <2>3, <2>4, <2>5, <2>6, <2>7, <2>8, <2>10, <2>11, AppTouches
<1> QED
  <2>1. \/ call' = [call EXCEPT ![t].i = @ + 1] /\ UNCHANGED <<pc, rpc_queue, sock>>
        \/ /\ CallStack(t, call[t].i, [call[t] EXCEPT !.f = "shadow", !.cur = call[t].fd])
           /\ UNCHANGED sock
        \/ /\ call[t].op # "listen" => call[t].i # call[t].k
           /\ call[t].i = call[t].k
           /\ sock' = [sock EXCEPT ![call[t].fd].master = (call[t].tmp = call[t].i)]
           /\ CallStack(t, get_protocol_stack_by_fd(call[t].fd),
                        [call[t] EXCEPT !.f = "listen", !.cur = call[t].fd])
    BY DEF Broadcast
  <2> QED
    BY <2>1, <1>6, <1>8, <1>9

LEMMA ShadowReturnsInv ==
  ASSUME IInv, NEW t \in App, ShadowReturns(t)
  PROVE  IInv'
<1>1. pc[t] = "ret" /\ call[t].f = "shadow" /\ UNCHANGED <<cfg, counts, stk>>
  BY DEF ShadowReturns
<1>2. /\ call[t].op \in {"bind", "listen"} /\ Plain(t) /\ call[t] \in CallRec
      /\ call[t].i \in Stack /\ call[t].k \in Stack
  BY <1>1, RetOp DEF IInv, StageShape
<1>3. PICK d \in Fd : d = call[t].fd /\ owner[d] = t /\ Live(d)
  BY <1>2 DEF IInv, UseShape
<1>4. call[t].ret = -1 \/ (call[t].ret \in Reach(d) /\ call[t].ret # d)
  BY <1>1, <1>2, <1>3 DEF IInv, UseShape
<1>5. CASE CloseAll(t) /\ UNCHANGED <<sock, rpc_queue>>
  BY <1>1, <1>2, <1>5, CloseAllInv
<1>6. CASE /\ call' = [call EXCEPT ![t].i = @ + 1, ![t].ret = 0]
           /\ pc' = [pc EXCEPT ![t] = "loop"] /\ UNCHANGED <<sock, rpc_queue, history>>
  <2> DEFINE c == [call[t] EXCEPT !.i = @ + 1, !.ret = 0]
  <2>1. call' = [call EXCEPT ![t] = c]
    BY <1>6 DEF IInv, VarShape
  <2>2. call[t].i + 1 \in 0..StackNum
    BY <1>2, SocketsAssumption DEF Stack
  <2>3. c \in CallRec /\ c.op = call[t].op /\ c.fd = call[t].fd /\ c.k = call[t].k
    <3> DEFINE i == call[t].i + 1
    <3>1. i \in 0..StackNum /\ 0 \in Int
      BY <2>2
    <3>2. c = [call[t] EXCEPT !.i = i, !.ret = 0]
      OBVIOUS
    <3> HIDE DEF i
    <3>3. [call[t] EXCEPT !.i = i, !.ret = 0] \in CallRec
      BY <1>2, <3>1 DEF CallRec
    <3> QED
      BY <1>2, <3>2, <3>3 DEF CallRec
  <2>4. TypeOK' /\ UNCHANGED owner
    BY <1>1, <1>6 DEF IInv, TypeOK, counts, history
  <2> HIDE DEF c
  <2> QED
    BY <1>1, <1>2, <1>6, <2>1, <2>3, <2>4, AppGoesOn
<1>7. CASE /\ call[t].ret > 0 /\ call[t].op = "listen"
           /\ sock' = [sock EXCEPT ![call[t].ret].master = (call[t].tmp = call[t].i)]
           /\ CallStack(t, get_protocol_stack_by_fd(call[t].ret),
                        [call[t] EXCEPT !.f = "listen", !.cur = call[t].ret, !.ret = 0])
           /\ UNCHANGED history
  <2>1. PICK x \in Fd : x = call[t].ret /\ x \in Reach(d) /\ x # d
    BY <1>4, <1>7, ReachSelf
  <2>2. Live(x)
    BY <2>1, <1>3, Consts, HeldList
  <2> DEFINE c == [call[t] EXCEPT !.f = "listen", !.cur = x, !.ret = 0]
             r == [sock[x] EXCEPT !.master = (call[t].tmp = call[t].i)]
  <2>3. PICK k \in Stack : k = get_protocol_stack_by_fd(x) /\ k # No
    BY <2>2, StackOf, Consts
  <2>4. /\ pc' = [pc EXCEPT ![t] = "sent"] /\ call' = [call EXCEPT ![t] = c]
        /\ rpc_queue' = [rpc_queue EXCEPT ![k] = Append(@, t)]
    BY <1>7, <2>1, <2>3 DEF CallStack
  <2>5. /\ c \in CallRec /\ c.op = "listen" /\ c.f = "listen" /\ c.cur = x /\ c.fd = d
        /\ c.i = call[t].i /\ c.k = call[t].k
    <3>1. 0 \in Int
      OBVIOUS
    <3> QED
      BY <1>2, <1>3, <1>7, <3>1 DEF CallRec
  <2> HIDE DEF c
  <2>6. /\ pc'[t] = "sent" /\ call'[t] = c
        /\ \A u \in App \ {t} : pc'[u] = pc[u] /\ call'[u] = call[u]
    BY <2>4 DEF IInv, VarShape
  <2>7. VarShape'
    <3>1. rpc_queue \in [Stack -> Seq(App)]
      BY DEF IInv, VarShape
    <3>2. rpc_queue' \in [Stack -> Seq(App)]
      BY <2>4, <3>1
    <3> QED
      BY <1>1, <2>4, <2>5, <3>2 DEF IInv, VarShape
  <2>8. sock[x] \in SockRec /\ sock' = [sock EXCEPT ![x] = r]
    BY <1>7, <2>1, SockTypes
  <2>9. r \in SockRec
    <3>1. (call[t].tmp = call[t].i) \in BOOLEAN
      OBVIOUS
    <3> QED
      BY <2>8, <3>1 DEF SockRec
  <2>10. /\ r.type = sock[x].type /\ r.open = sock[x].open /\ r.kind = sock[x].kind
         /\ r.stack = sock[x].stack /\ r.head = sock[x].head
         /\ r.listen_next = sock[x].listen_next
         /\ r.state = sock[x].state /\ r.kernel = sock[x].kernel
    BY <2>8 DEF SockRec
  <2> HIDE DEF r
  <2>11. /\ Reach(d)' = Reach(d) /\ owner' = owner
         /\ \A y \in Fd : KeepsSlot(y)
    BY <2>2, <2>8, <2>9, <2>10, <1>1, <1>7, Touched DEF Live
  <2>12. StageShape(t)'
    BY <2>5, <2>6, <1>2 DEF StageShape, Closes
  <2>13. UseShape(t)'
    BY <2>1, <2>5, <2>6, <2>11, <1>3 DEF UseShape, KeepsSlot
  <2>14. Plain(t)'
    BY <2>5, <2>6 DEF Plain, Closes
  <2> QED
    BY <1>1, <1>2, <1>7, <2>2, <2>4, <2>6, <2>7, <2>8, <2>9, <2>10, <2>12, <2>13, <2>14,
       AppTouches
<1> QED
  BY <1>5, <1>6, <1>7 DEF ShadowReturns

-----------------------------------------------------------------------------
(* accept, connect, recvfrom, ... *)

LEMMA AcceptInv ==
  ASSUME IInv, NEW t \in App, NEW d \in Fd, Accept(t, d)
  PROVE  IInv'
<1>1. pc[t] = "idle" /\ UNCHANGED <<cfg, sock, counts, stk, owner, served>>
  BY DEF Accept, Begins, history
<1>2. call[t] = NoCall /\ Plain(t) /\ call[t].op = "none"
  BY <1>1, Idle
<1>3. TypeOK'
  BY <1>1 DEF IInv, TypeOK, counts
<1> DEFINE c == [NoCall EXCEPT !.op = "accept", !.fd = d, !.found = Waiting(d)]
<1>4. /\ c \in CallRec /\ c.op = "accept" /\ c.fd = d /\ c.i = 0 /\ c.f = "none"
  <2>1. NoCall.f = "none"
    BY DEF NoCall
  <2>2. Waiting(d) \in BOOLEAN
    BY DEF Waiting
  <2> QED
    BY <2>1, <2>2, NoCallType, ZenonT(30) DEF CallRec
<1>5. CASE /\ call' = [call EXCEPT ![t] = [c EXCEPT !.ret = -1]]
           /\ pc' = [pc EXCEPT ![t] = "ret"] /\ UNCHANGED rpc_queue
  <2> HIDE DEF c
  <2> DEFINE e == [c EXCEPT !.ret = -1]
  <2>1. /\ e \in CallRec /\ e.op = "accept" /\ e.f = "none" /\ e.ret = -1 /\ e.i = 0
        /\ e.fd = d
    BY <1>4 DEF CallRec
  <2>2. call' = [call EXCEPT ![t] = e]
    BY <1>5
  <2> HIDE DEF e
  <2>3. pc'[t] = "ret" /\ call'[t] = e
    BY <1>5, <2>2 DEF IInv, VarShape
  <2>4. StageShape(t)' /\ UseShape(t)'
    BY <2>1, <2>3 DEF StageShape, UseShape, Closes
  <2>5. -1 \notin Fd
    BY Consts
  <2> QED
    BY <1>1, <1>2, <1>3, <1>5, <2>1, <2>2, <2>4, <2>5, AppQuiet DEF Pcs
<1>6. CASE /\ MinAcceptSock(d) # {}
           /\ CallStack(t, get_protocol_stack_by_fd(CHOOSE y \in MinAcceptSock(d) : TRUE),
                        [c EXCEPT !.f = "accept", !.cur = CHOOSE y \in MinAcceptSock(d) : TRUE])
  <2>1. PICK x : x = CHOOSE y \in MinAcceptSock(d) : TRUE
    OBVIOUS
  <2>2. x \in MinAcceptSock(d)
    BY <1>6, <2>1
  <2>3. x \in Reach(d) /\ sock[x].state = "LISTEN"
    BY <2>2 DEF MinAcceptSock
  <2>4. x \in Fd /\ Live(x)
    BY <2>3, ReachSelf DEF IInv, SlotShape
  <2>5. PICK k \in Stack : k = get_protocol_stack_by_fd(x) /\ k # No
    BY <2>4, StackOf, Consts
  <2> HIDE DEF c
  <2> DEFINE e == [c EXCEPT !.f = "accept", !.cur = x]
  <2>6. /\ e \in CallRec /\ e.op = "accept" /\ e.f = "accept" /\ e.cur = x /\ e.i = 0
        /\ e.fd = d
    BY <1>4, <2>4 DEF CallRec
  <2>7. CallStack(t, k, e)
    BY <1>6, <2>1, <2>5
  <2> HIDE DEF e
  <2>8. pc'[t] = "sent" /\ call'[t] = e
    BY <2>5, <2>7 DEF CallStack, IInv, VarShape
  <2>9. StageShape(t)' /\ UseShape(t)'
    BY <2>4, <2>6, <2>8 DEF StageShape, UseShape, Closes
  <2> QED
    BY <1>1, <1>2, <1>3, <2>6, <2>7, <2>9, AppSends
<1> QED
  BY <1>5, <1>6 DEF Accept

LEMMA AskReturnsInv ==
  ASSUME IInv, NEW t \in App, AskReturns(t)
  PROVE  IInv'
<1>1. /\ pc[t] = "ret" /\ call[t].op \in {"query", "recvfrom"}
      /\ UNCHANGED <<cfg, sock, owner, stk, rpc_queue>> /\ Return(t)
  BY DEF AskReturns, history
<1>2. TypeOK'
  BY DEF AskReturns, IInv, TypeOK, counts, history
<1>3. Plain(t)
  BY <1>1 DEF Plain, Closes
<1> QED
  BY <1>1, <1>2, <1>3, AppBack

LEMMA RecvFromInv ==
  ASSUME IInv, NEW t \in App, NEW d \in Fd, RecvFrom(t, d)
  PROVE  IInv'
<1>1. /\ pc[t] = "idle" /\ owner[d] = t /\ UNCHANGED <<cfg, sock, owner, stk, rpc_queue>>
      /\ pc' = [pc EXCEPT ![t] = "walk"]
  BY DEF RecvFrom, Begins, history
<1>2. call[t] = NoCall /\ Plain(t) /\ call[t].op = "none"
  BY <1>1, Idle
<1>3. TypeOK'
  BY DEF RecvFrom, IInv, TypeOK, counts, history
<1>4. Live(d)
  BY NotKernel DEF RecvFrom, RecvSide
<1> DEFINE f == \E x \in Reach(d) : sock[x].queue > 0
           c == [NoCall EXCEPT !.op = "recvfrom", !.fd = d, !.cur = d, !.found = f]
<1>5. call' = [call EXCEPT ![t] = c]
  BY DEF RecvFrom
<1>6. f \in BOOLEAN
  OBVIOUS
<1> HIDE DEF f
<1>7. /\ c \in CallRec /\ c.op = "recvfrom" /\ c.fd = d /\ c.cur = d /\ c.i = 0
      /\ c.f = "none"
  <2>1. NoCall.f = "none"
    BY DEF NoCall
  <2> QED
    BY <2>1, <1>6, NoCallType, ZenonT(30) DEF CallRec
<1> HIDE DEF c
<1>8. pc'[t] = "walk" /\ call'[t] = c
  BY <1>1, <1>5 DEF IInv, VarShape
<1>9. Reach(d)' = Reach(d) /\ d \in Reach(d)
  BY <1>1, ReachSelf DEF Reach, Closed
<1>10. StageShape(t)'
  BY <1>7, <1>8 DEF StageShape, Closes
<1>11. UseShape(t)'
  BY <1>1, <1>4, <1>7, <1>8, <1>9 DEF UseShape, Live
<1> QED
  BY <1>1, <1>2, <1>3, <1>5, <1>7, <1>10, <1>11, AppQuiet DEF Pcs

LEMMA RecvWalkInv ==
  ASSUME IInv, NEW t \in App, RecvWalk(t)
  PROVE  IInv'
<1>1. pc[t] = "walk" /\ UNCHANGED <<cfg, counts, rpc_queue, stk, history>>
  BY DEF RecvWalk
<1>2. call[t] \in CallRec /\ call[t].op = "recvfrom" /\ call[t].f = "none"
  BY <1>1 DEF IInv, VarShape, StageShape
<1>3. PICK d \in Fd : d = call[t].fd /\ owner[d] = t /\ Live(d) /\ call[t].cur \in Reach(d)
  BY <1>1, <1>2 DEF IInv, UseShape
<1>4. PICK x \in Fd : x = call[t].cur
  BY <1>3, ReachSelf
<1>5. Plain(t)
  BY <1>1, <1>2 DEF Plain, Closes
<1>6. CASE /\ sock[x].queue > 0 /\ Return(t)
           /\ sock' = [sock EXCEPT ![x].queue = @ - 1]
  <2> DEFINE r == [sock[x] EXCEPT !.queue = @ - 1]
  <2>1. sock[x] \in SockRec /\ sock' = [sock EXCEPT ![x] = r]
    BY <1>6, SockTypes
  <2>2. sock[x].queue \in 0..MaxQueue
    BY <2>1 DEF SockRec
  <2>3. sock[x].queue - 1 \in 0..MaxQueue
    BY <2>2, <1>6, SocketsAssumption
  <2>4. /\ r \in SockRec /\ r.type = sock[x].type /\ r.open = sock[x].open
        /\ r.kind = sock[x].kind /\ r.stack = sock[x].stack /\ r.head = sock[x].head
        /\ r.listen_next = sock[x].listen_next
        /\ r.state = sock[x].state /\ r.kernel = sock[x].kernel
    BY <2>1, <2>3 DEF SockRec
  <2> HIDE DEF r
  <2>5. Live(x)
    BY <1>6, <2>2 DEF IInv, SlotShape
  <2>6. /\ pc'[t] = "idle" /\ call'[t] = NoCall
        /\ \A u \in App \ {t} : pc'[u] = pc[u] /\ call'[u] = call[u]
    BY <1>6 DEF Return, IInv, VarShape
  <2>7. VarShape'
    BY <1>1, <1>6, NoCallType DEF Return, IInv, VarShape
  <2>8. StageShape(t)' /\ UseShape(t)' /\ Plain(t)'
    BY <2>6 DEF StageShape, UseShape, Closes, NoCall, Plain
  <2> QED
    BY <1>1, <1>2, <1>5, <2>1, <2>4, <2>5, <2>6, <2>7, <2>8, AppTouches
<1>7. ASSUME NEW p \in {"walk", "ret"}, NEW c \in CallRec, c.op = "recvfrom", c.f = "none",
             c.fd = d, c.cur \in Reach(d), c.i = call[t].i, c.ret \in Int,
             pc' = [pc EXCEPT ![t] = p], call' = [call EXCEPT ![t] = c], UNCHANGED sock
      PROVE  IInv'
  <2>1. pc'[t] = p /\ call'[t] = c
    BY <1>7 DEF IInv, VarShape
  <2>2. Reach(d)' = Reach(d) /\ Reach(d) \subseteq Fd
    BY <1>7, ReachSelf DEF Reach, Closed
  <2>3. StageShape(t)'
    BY <1>7, <2>1, <2>2 DEF StageShape, Closes
  <2>4. UseShape(t)'
    BY <1>1, <1>3, <1>7, <2>1, <2>2 DEF UseShape, Live, history
  <2>5. TypeOK' /\ UNCHANGED owner
    BY <1>1, <1>7 DEF IInv, TypeOK, counts, history
  <2> QED
    BY <1>1, <1>2, <1>5, <1>7, <2>3, <2>4, <2>5, AppQuiet DEF Pcs
<1>8. CASE /\ sock[x].listen_next # No /\ call' = [call EXCEPT ![t].cur = sock[x].listen_next]
           /\ UNCHANGED <<pc, sock>>
  <2> DEFINE c == [call[t] EXCEPT !.cur = sock[x].listen_next]
  <2>1. sock[x].listen_next \in Reach(d) /\ sock[x].listen_next \in Fd
    BY <1>3, <1>4, <1>8, ReachClosed, ReachSelf DEF Closed, IInv
  <2>2. /\ c \in CallRec /\ c.op = "recvfrom" /\ c.f = "none" /\ c.fd = d
        /\ c.cur \in Reach(d) /\ c.i = call[t].i /\ c.ret \in Int
    BY <1>2, <1>3, <2>1 DEF CallRec
  <2>3. pc' = [pc EXCEPT ![t] = "walk"] /\ call' = [call EXCEPT ![t] = c]
    BY <1>1, <1>8 DEF IInv, VarShape
  <2> HIDE DEF c
  <2> QED
    BY <2>2, <2>3, <1>7, <1>8
<1>9. CASE /\ call' = [call EXCEPT ![t].ret = -1] /\ pc' = [pc EXCEPT ![t] = "ret"]
           /\ UNCHANGED sock
  <2> DEFINE c == [call[t] EXCEPT !.ret = -1]
  <2>1. /\ c \in CallRec /\ c.op = "recvfrom" /\ c.f = "none" /\ c.fd = d
        /\ c.cur \in Reach(d) /\ c.i = call[t].i /\ c.ret \in Int
    BY <1>2, <1>3 DEF CallRec
  <2>2. call' = [call EXCEPT ![t] = c]
    BY <1>9
  <2> HIDE DEF c
  <2> QED
    BY <2>1, <2>2, <1>7, <1>9
<1> QED
  BY <1>4, <1>6, <1>8, <1>9 DEF RecvWalk

LEMMA ConnectReturnsInv ==
  ASSUME IInv, NEW t \in App, ConnectReturns(t)
  PROVE  IInv'
<1>1. /\ pc[t] = "ret" /\ call[t].op = "connect" /\ Return(t)
      /\ UNCHANGED <<cfg, counts, rpc_queue, stk, history>>
  BY DEF ConnectReturns
<1>2. PICK d \in Fd : /\ d = call[t].fd /\ owner[d] = t /\ Live(d)
                      /\ call[t].f = "connect" => ~sock[d].kernel
                      /\ call[t].f = "local" => sock[d].kernel /\ sock[d].state = "CLOSED"
                      /\ call[t].f \in {"connect", "local"}
  BY <1>1 DEF IInv, UseShape, StageShape, Closes
<1> DEFINE v == IF call[t].f = "local" THEN "HOST" ELSE "LIBOS"
           r == [sock[d] EXCEPT !.type = v]
<1>3. sock[d] \in SockRec /\ sock' = [sock EXCEPT ![d] = r]
  BY <1>2, SockTypes DEF ConnectReturns
<1>4. /\ r \in SockRec /\ r.type = v /\ r.open = sock[d].open
      /\ r.kind = sock[d].kind /\ r.stack = sock[d].stack /\ r.head = sock[d].head
      /\ r.listen_next = sock[d].listen_next
      /\ r.state = sock[d].state /\ r.kernel = sock[d].kernel
  BY <1>3 DEF SockRec
<1> HIDE DEF r
<1>5. /\ TypeOK' /\ owner' = owner /\ sock'[d] = r
      /\ \A x \in Fd \ {d} : sock'[x] = sock[x]
      /\ \A x \in Fd : KeepsSlot(x) /\ (~Live(x) => sock'[x] = sock[x])
  BY <1>1, <1>2, <1>3, <1>4, Touched
<1>6. SlotShape(d)'
  <2>1. SlotShape(d)
    BY DEF IInv
  <2>2. v \in {"HOST", "LIBOS"}
    OBVIOUS
  <2> QED
    BY <2>1, <2>2, <1>2, <1>4, <1>5 DEF SlotShape, Live
<1>7. /\ pc'[t] = "idle" /\ call'[t] = NoCall
      /\ \A u \in App \ {t} : pc'[u] = pc[u] /\ call'[u] = call[u]
  BY <1>1 DEF Return, IInv, VarShape
<1>8. VarShape'
  BY <1>1, NoCallType DEF Return, IInv, VarShape
<1>9. StageShape(t)' /\ UseShape(t)' /\ Plain(t)'
  BY <1>7 DEF StageShape, UseShape, Closes, NoCall, Plain
<1>10. \A x \in Fd : SlotShape(x)'
  BY <1>2, <1>5, <1>6, <1>7, SlotKept DEF SameCall
<1>11. \A x \in Fd : owner[x] \notin {t, No} => KeepsConn(x)
  BY <1>2, <1>5 DEF KeepsConn
<1>12. Plain(t)
  BY <1>1 DEF Plain, Closes
<1> QED
  BY <1>1, <1>5, <1>7, <1>8, <1>9, <1>10, <1>11, <1>12, AppPlain

-----------------------------------------------------------------------------
(* The network *)
LEMMA NetTouches ==
  ASSUME IInv, NEW d \in Fd, Live(d), NEW r \in SockRec, sock' = [sock EXCEPT ![d] = r],
         UNCHANGED <<cfg, counts, rpc_queue, stk, pc, call, history>>,
         r.type # "none", r.open = sock[d].open,
         r.kind = sock[d].kind, r.stack = sock[d].stack, r.head = sock[d].head,
         r.listen_next = sock[d].listen_next, KeepsConn(d), SlotShape(d)'
  PROVE  IInv'
<1>1. /\ TypeOK' /\ owner' = owner /\ sock'[d] = r
      /\ \A x \in Fd \ {d} : sock'[x] = sock[x]
      /\ \A x \in Fd : KeepsSlot(x) /\ (~Live(x) => sock'[x] = sock[x])
      /\ \A x \in Fd : Reach(x)' = Reach(x)
  BY Touched
<1>2. \A u \in App : SameCall(u) /\ KeepsRole(u)
  BY DEF SameCall, KeepsRole, Role
<1>3. \A x \in Fd : SlotShape(x)'
  BY <1>1, <1>2, SlotKept
<1>4. \A k \in Stack, x \in Fd : Accepting(k, x)' <=> Accepting(k, x)
  BY DEF Accepting
<1>5. \A x \in Fd : ListsShape(x)'
  BY <1>1, <1>2, <1>4, RolesKept
<1>6. \A x \in Fd : KeepsConn(x)
  BY <1>1 DEF KeepsConn
<1>7. \A u \in App : Undisturbed(u)
  BY <1>1, <1>6 DEF Undisturbed, KeepsSlot
<1>8. ASSUME NEW k \in Stack PROVE WorkShape(k)'
  <2>1. CleansOn(k)
    BY <1>1, CleansKept
  <2>2. stk[k].pc # "poll" => rpc_queue[k] # << >>
    BY DEF IInv, WorkShape
  <2>3. rpc_queue[k] # << >> => Head(rpc_queue[k]) \in App
    BY DEF IInv, VarShape
  <2> QED
    BY <2>1, <2>2, <2>3, <1>2, WorkKept DEF CleansOn
<1>9. VarShape'
  BY DEF IInv, VarShape
<1> QED
  BY <1>1, <1>2, <1>3, <1>5, <1>7, <1>8, <1>9, SilentFrame

LEMMA ArrivesInv ==
  ASSUME IInv, NEW d \in Fd, Arrives(d)
  PROVE  IInv'
<1>1. SlotShape(d) /\ sock[d] \in SockRec
  BY SockTypes DEF IInv
<1>2. Live(d)
  BY <1>1 DEF Arrives, SlotShape, Live
<1> DEFINE r == [sock[d] EXCEPT !.queue = @ + 1]
<1>3. sock' = [sock EXCEPT ![d] = r]
  BY DEF Arrives
<1>4. sock[d].queue + 1 \in 0..MaxQueue
  BY <1>1, SocketsAssumption DEF Arrives, SockRec
<1>5. /\ r \in SockRec /\ r.type = sock[d].type /\ r.open = sock[d].open
      /\ r.kind = sock[d].kind /\ r.stack = sock[d].stack /\ r.head = sock[d].head
      /\ r.listen_next = sock[d].listen_next
      /\ r.state = sock[d].state /\ r.kernel = sock[d].kernel
  BY <1>1, <1>4 DEF SockRec
<1> HIDE DEF r
<1>6. sock'[d] = r /\ call' = call
  BY <1>3 DEF Arrives, IInv, TypeOK
<1>7. KeepsConn(d) /\ SlotShape(d)'
  BY <1>1, <1>2, <1>5, <1>6 DEF KeepsConn, SlotShape, Live
<1> QED
  BY <1>2, <1>3, <1>5, <1>7, NetTouches DEF Arrives, Live

LEMMA ConnectedInv ==
  ASSUME IInv, NEW d \in Fd, Connected(d)
  PROVE  IInv'
<1>1. SlotShape(d) /\ sock[d] \in SockRec /\ sock[d].state = "SYN_SENT"
  BY SockTypes DEF IInv, Connected
<1>2. Live(d)
  BY <1>1 DEF SlotShape, Live
<1> DEFINE r == [sock[d] EXCEPT !.state = "ESTABLISHED", !.type = "LIBOS", !.kernel = FALSE]
<1>3. sock' = [sock EXCEPT ![d] = r]
  BY DEF Connected, IInv, TypeOK
<1>4. /\ r \in SockRec /\ r.type = "LIBOS" /\ r.open = sock[d].open
      /\ r.kind = sock[d].kind /\ r.stack = sock[d].stack /\ r.head = sock[d].head
      /\ r.listen_next = sock[d].listen_next
      /\ r.state = "ESTABLISHED" /\ ~r.kernel
  BY <1>1 DEF SockRec
<1> HIDE DEF r
<1>5. sock'[d] = r /\ call' = call
  BY <1>3 DEF Connected, IInv, TypeOK
<1>6. KeepsConn(d) /\ SlotShape(d)'
  BY <1>1, <1>2, <1>4, <1>5 DEF KeepsConn, SlotShape, Live
<1> QED
  BY <1>2, <1>3, <1>4, <1>6, NetTouches DEF Connected

LEMMA PeerLeavesInv ==
  ASSUME IInv, NEW d \in Fd, PeerLeaves(d)
  PROVE  IInv'
<1>1. SlotShape(d) /\ sock[d] \in SockRec
  BY SockTypes DEF IInv
<1>2. PICK s \in {"CLOSED", "CLOSE_WAIT"} :
        /\ sock' = [sock EXCEPT ![d].state = s]
        /\ s = "CLOSED" => sock[d].state = "SYN_SENT"
        /\ s = "CLOSE_WAIT" => sock[d].state = "ESTABLISHED"
  BY DEF PeerLeaves
<1>3. Live(d) /\ sock[d].state \in {"SYN_SENT", "ESTABLISHED"}
  BY <1>1, <1>2 DEF SlotShape, Live
<1> DEFINE r == [sock[d] EXCEPT !.state = s]
<1>4. sock' = [sock EXCEPT ![d] = r]
  BY <1>2
<1>5. /\ r \in SockRec /\ r.type = sock[d].type /\ r.open = sock[d].open
      /\ r.kind = sock[d].kind /\ r.stack = sock[d].stack /\ r.head = sock[d].head
      /\ r.listen_next = sock[d].listen_next
      /\ r.state = s /\ r.kernel = sock[d].kernel
  BY <1>1 DEF SockRec
<1> HIDE DEF r
<1>6. sock'[d] = r /\ call' = call
  BY <1>4 DEF PeerLeaves, IInv, TypeOK
<1>7. KeepsConn(d)
  BY <1>3, <1>5, <1>6 DEF KeepsConn
<1>8. SlotShape(d)'
  BY <1>1, <1>2, <1>3, <1>5, <1>6 DEF SlotShape, Live
<1> QED
  BY <1>3, <1>4, <1>5, <1>7, <1>8, NetTouches DEF PeerLeaves, Live

-----------------------------------------------------------------------------
(* The handlers that touch no descriptor's holder *)

(* The call of t is answered with v. *)
Answered(t, v) ==
  /\ call'[t].op = call[t].op /\ call'[t].fd = call[t].fd
  /\ call'[t].f = call[t].f /\ call'[t].cur = call[t].cur
  /\ call'[t].i = call[t].i /\ call'[t].k = call[t].k
  /\ call'[t].next = call[t].next /\ call'[t].ret = v

LEMMA Replied ==
  ASSUME IInv, NEW k \in Stack, NEW t \in App, rpc_queue[k] # << >>, NEW v \in Int,
         Reply(k, t, v)
  PROVE  /\ pc' = [pc EXCEPT ![t] = "ret"] /\ call' \in [App -> CallRec] /\ Answered(t, v)
         /\ \A u \in App \ {t} : SameCall(u)
         /\ rpc_queue' = [rpc_queue EXCEPT ![k] = Tail(@)]
         /\ rpc_queue' \in [Stack -> Seq(App)]
<1>1. call \in [App -> CallRec] /\ rpc_queue \in [Stack -> Seq(App)] /\ call[t] \in CallRec
      /\ pc \in [App -> Pcs]
  BY DEF IInv, VarShape, Pcs
<1> DEFINE c == [call[t] EXCEPT !.ret = v]
<1>2. call' = [call EXCEPT ![t] = c]
  BY DEF Reply
<1>3. c \in CallRec
  BY <1>1 DEF CallRec
<1>4. /\ c.op = call[t].op /\ c.fd = call[t].fd /\ c.f = call[t].f /\ c.cur = call[t].cur
      /\ c.i = call[t].i /\ c.k = call[t].k /\ c.next = call[t].next /\ c.ret = v
  BY <1>1 DEF CallRec
<1> HIDE DEF c
<1>5. call' \in [App -> CallRec] /\ Answered(t, v)
  BY <1>1, <1>2, <1>3, <1>4 DEF Answered
<1>6. \A u \in App \ {t} : SameCall(u)
  BY <1>1, <1>2 DEF SameCall, Reply
<1>7. rpc_queue' \in [Stack -> Seq(App)]
  <2>1. Tail(rpc_queue[k]) \in Seq(App)
    BY <1>1
  <2> QED
    BY <1>1, <2>1 DEF Reply
<1> QED
  BY <1>5, <1>6, <1>7 DEF Reply

(* The thread whose call a stack serves. *)
LEMMA Served ==
  ASSUME IInv, NEW k \in Stack, NEW t \in App, rpc_queue[k] # << >>, t = Head(rpc_queue[k])
  PROVE  pc[t] = "sent" /\ StageShape(t) /\ UseShape(t) /\ call[t] \in CallRec
<1>1. 1 \in DOMAIN rpc_queue[k] /\ Head(rpc_queue[k]) = rpc_queue[k][1]
  BY DEF IInv, VarShape
<1> QED
  BY <1>1 DEF IInv, QueueShape, VarShape

LEMMA StackReplies ==
  ASSUME IInv, NEW k \in Stack, NEW t \in App, stk[k] = NoWork, rpc_queue[k] # << >>,
         t = Head(rpc_queue[k]), ~Closes(t), NEW v \in Int,
         v = -1 \/ (call[t].op \notin {"socket", "accept"} /\ call[t].f # "shadow"),
         pc' = [pc EXCEPT ![t] = "ret"], call' \in [App -> CallRec], Answered(t, v),
         \A u \in App \ {t} : SameCall(u),
         rpc_queue' = [rpc_queue EXCEPT ![k] = Tail(@)], rpc_queue' \in [Stack -> Seq(App)],
         UNCHANGED <<cfg, stk, owner>>, TypeOK',
         \A d \in Fd : KeepsSlot(d) /\ SlotShape(d)' /\ (~Live(d) => sock'[d] = sock[d]),
         \A d \in Fd : owner[d] \notin {t, No} \/ call[t].op = "connect" => KeepsConn(d)
  PROVE  IInv'
<1>1. pc[t] = "sent" /\ StageShape(t) /\ UseShape(t)
  BY Served
<1>2. pc'[t] = "ret" /\ VarShape'
  BY DEF IInv, VarShape
<1>3. -1 \notin Fd
  BY Consts
<1>4. Plain(t) /\ Plain(t)'
  BY <1>1, <1>2, <1>3 DEF Plain, Closes, Answered
<1>5. StageShape(t)'
  BY <1>1, <1>2 DEF StageShape, Closes, Answered, Spread
<1>6. UseShape(t)'
  <2>1. CASE call[t].op \in {"bind", "listen", "connect", "recvfrom", "query"}
    <3>1. PICK d \in Fd : d = call[t].fd /\ owner[d] = t /\ Live(d)
      BY <2>1, <1>1 DEF UseShape
    <3>2. Live(d)' /\ Reach(d)' = Reach(d)
      BY <3>1, ReachKept DEF KeepsSlot
    <3>3. /\ call'[t].op = call[t].op /\ call'[t].fd = d /\ call'[t].f = call[t].f
          /\ call'[t].cur = call[t].cur /\ call'[t].ret = v /\ owner'[d] = t
      BY <3>1, SMTT(30) DEF Answered
    <3>4. CASE call[t].op = "connect"
      <4>1. KeepsConn(d)
        BY <3>4, SMTT(30)
      <4> QED
        BY <3>1, <3>2, <3>3, <3>4, <4>1, <1>1, <1>2 DEF UseShape, KeepsConn
    <3>5. CASE call[t].op # "connect"
      BY <3>1, <3>2, <3>3, <3>5, <1>1, <1>2 DEF UseShape
    <3> QED
      BY <3>4, <3>5
  <2>2. CASE call[t].op \notin {"bind", "listen", "connect", "recvfrom", "query"}
    BY <2>2, <1>2 DEF UseShape, Answered
  <2> QED
    BY <2>1, <2>2
<1> QED
  BY <1>2, <1>4, <1>5, <1>6, StackPlain

(* A stack answers and changes no socket. *)
LEMMA StackSays ==
  ASSUME IInv, NEW k \in Stack, NEW t \in App, stk[k] = NoWork, rpc_queue[k] # << >>,
         t = Head(rpc_queue[k]), ~Closes(t), NEW v \in Int,
         v = -1 \/ (call[t].op \notin {"socket", "accept"} /\ call[t].f # "shadow"),
         Reply(k, t, v), UNCHANGED <<cfg, sock, counts, stk, history>>
  PROVE  IInv'
<1>1. /\ pc' = [pc EXCEPT ![t] = "ret"] /\ call' \in [App -> CallRec] /\ Answered(t, v)
      /\ \A u \in App \ {t} : SameCall(u)
      /\ rpc_queue' = [rpc_queue EXCEPT ![k] = Tail(@)]
      /\ rpc_queue' \in [Stack -> Seq(App)]
  BY Replied
<1>2. TypeOK' /\ owner' = owner
  BY DEF IInv, TypeOK, counts, history
<1>3. \A d \in Fd : KeepsSlot(d) /\ sock'[d] = sock[d] /\ KeepsConn(d)
  BY DEF KeepsSlot, KeepsConn, Live
<1>4. ASSUME NEW d \in Fd PROVE SlotShape(d)'
  <2>1. SlotShape(d)
    BY DEF IInv
  <2>2. \A u \in App : /\ call'[u].op = call[u].op /\ call'[u].fd = call[u].fd
                       /\ call'[u].f = call[u].f
    BY <1>1, SameFields DEF Answered
  <2> QED
    BY <2>1, <2>2 DEF SlotShape, Live
<1> QED
  BY <1>1, <1>2, <1>3, <1>4, StackReplies

(* A stack answers and changes what the socket is or waits for. *)
LEMMA StackTouches ==
  ASSUME IInv, NEW k \in Stack, NEW t \in App, stk[k] = NoWork, rpc_queue[k] # << >>,
         t = Head(rpc_queue[k]), ~Closes(t), NEW v \in Int,
         v = -1 \/ (call[t].op \notin {"socket", "accept"} /\ call[t].f # "shadow"),
         pc' = [pc EXCEPT ![t] = "ret"], call' \in [App -> CallRec], Answered(t, v),
         \A u \in App \ {t} : SameCall(u),
         rpc_queue' = [rpc_queue EXCEPT ![k] = Tail(@)], rpc_queue' \in [Stack -> Seq(App)],
         UNCHANGED <<cfg, counts, stk, history>>,
         NEW d \in Fd, Live(d), NEW r \in SockRec, sock' = [sock EXCEPT ![d] = r],
         r.type = sock[d].type, r.open = sock[d].open,
         r.kind = sock[d].kind, r.stack = sock[d].stack, r.head = sock[d].head,
         r.listen_next = sock[d].listen_next, r.kernel = sock[d].kernel,
         \/ r.state = sock[d].state
         \/ r.state = "LISTEN" /\ owner[d] \in {t, No} /\ call[t].op = "listen"
         \/ r.state = "SYN_SENT" /\ r.type # "HOST" /\ ~r.kernel
  PROVE  IInv'
<1>1. /\ TypeOK' /\ owner' = owner /\ sock'[d] = r
      /\ \A x \in Fd \ {d} : sock'[x] = sock[x]
      /\ \A x \in Fd : KeepsSlot(x) /\ (~Live(x) => sock'[x] = sock[x])
  BY Touched DEF Live
<1>2. \A u \in App : /\ call'[u].op = call[u].op /\ call'[u].fd = call[u].fd
                     /\ call'[u].f = call[u].f
  BY SameFields DEF Answered
<1>3. ASSUME NEW x \in Fd PROVE SlotShape(x)'
  <2>1. SlotShape(x)
    BY DEF IInv
  <2>2. CASE x = d
    BY <2>1, <2>2, <1>1, <1>2 DEF SlotShape, Live
  <2>3. CASE x # d
    BY <2>1, <2>3, <1>1, <1>2 DEF SlotShape, Live
  <2> QED
    BY <2>2, <2>3
<1>4. \A x \in Fd : owner[x] \notin {t, No} \/ call[t].op = "connect" => KeepsConn(x)
  BY <1>1 DEF KeepsConn
<1> QED
  BY <1>1, <1>3, <1>4, StackReplies

(* The call that a stack serves is the one its handler is for. *)
LEMMA RunsFor ==
  ASSUME IInv, NEW k \in Stack, NEW t \in App, NEW F, Runs(k, F, t)
  PROVE  /\ stk[k] = NoWork /\ rpc_queue[k] # << >> /\ t = Head(rpc_queue[k])
         /\ pc[t] = "sent" /\ call[t] \in CallRec /\ call[t].f \in F
         /\ call[t].f \in {"tcp", "udp"} => call[t].op = "socket"
         /\ call[t].f = "bind" => call[t].op = "bind"
         /\ call[t].f = "shadow" => call[t].op \in {"bind", "listen"}
         /\ call[t].f \in {"getsockname", "listen"} => call[t].op = "listen"
         /\ call[t].f = "connect" => call[t].op = "connect"
         /\ call[t].f = "query" => call[t].op = "query"
         /\ call[t].f = "accept" => call[t].op = "accept"
         /\ call[t].f = "close" <=> Closes(t)
<1>1. stk[k] = NoWork /\ rpc_queue[k] # << >> /\ t = Head(rpc_queue[k]) /\ call[t].f \in F
  BY DEF Runs
<1>2. pc[t] = "sent" /\ StageShape(t) /\ call[t] \in CallRec
  BY <1>1, Served
<1> QED
  BY <1>1, <1>2 DEF StageShape, Closes

LEMMA StackBindInv ==
  ASSUME IInv, NEW k \in Stack, NEW t \in App, StackBind(k, t)
  PROVE  IInv'
<1>1. /\ stk[k] = NoWork /\ rpc_queue[k] # << >> /\ t = Head(rpc_queue[k])
      /\ pc[t] = "sent" /\ call[t].f = "bind" /\ call[t].op = "bind" /\ ~Closes(t)
  BY RunsFor DEF StackBind, Closes
<1>2. UNCHANGED <<cfg, counts, stk, history>>
  BY DEF StackBind
<1>3. PICK d \in Fd : d = call[t].cur /\ Live(d)
  BY <1>1, SMTT(30) DEF IInv, UseShape
<1>4. CASE sock' = [sock EXCEPT ![d].bound = TRUE] /\ Reply(k, t, 0)
  <2> DEFINE r == [sock[d] EXCEPT !.bound = TRUE]
  <2>1. sock[d] \in SockRec /\ sock' = [sock EXCEPT ![d] = r]
    BY <1>4, SockTypes
  <2>2. /\ r \in SockRec /\ r.type = sock[d].type /\ r.open = sock[d].open
        /\ r.kind = sock[d].kind /\ r.stack = sock[d].stack /\ r.head = sock[d].head
        /\ r.listen_next = sock[d].listen_next /\ r.kernel = sock[d].kernel
        /\ r.state = sock[d].state
    BY <2>1 DEF SockRec
  <2> HIDE DEF r
  <2>3. 0 \in Int
    OBVIOUS
  <2>4. /\ pc' = [pc EXCEPT ![t] = "ret"] /\ call' \in [App -> CallRec] /\ Answered(t, 0)
        /\ \A u \in App \ {t} : SameCall(u)
        /\ rpc_queue' = [rpc_queue EXCEPT ![k] = Tail(@)]
        /\ rpc_queue' \in [Stack -> Seq(App)]
    BY <1>1, <1>4, <2>3, Replied
  <2> QED
    BY <1>1, <1>2, <1>3, <2>1, <2>2, <2>3, <2>4, StackTouches
<1>5. CASE Reply(k, t, -1) /\ UNCHANGED sock
  <2>1. -1 \in Int
    OBVIOUS
  <2> QED
    BY <1>1, <1>2, <1>5, <2>1, StackSays
<1> QED
  BY <1>3, <1>4, <1>5 DEF StackBind

LEMMA StackListenInv ==
  ASSUME IInv, NEW k \in Stack, NEW t \in App, StackListen(k, t)
  PROVE  IInv'
<1>1. /\ stk[k] = NoWork /\ rpc_queue[k] # << >> /\ t = Head(rpc_queue[k])
      /\ pc[t] = "sent" /\ call[t].f = "listen" /\ call[t].op = "listen" /\ ~Closes(t)
  BY RunsFor DEF StackListen, Closes
<1>2. UNCHANGED <<cfg, counts, stk, history>>
  BY DEF StackListen
<1>3. PICK h \in Fd : h = call[t].fd /\ owner[h] = t /\ Live(h) /\ call[t].cur \in Reach(h)
  BY <1>1 DEF IInv, UseShape
<1>4. PICK d \in Fd : d = call[t].cur /\ Live(d) /\ owner[d] \in {t, No}
  <2>1. call[t].cur \in Fd
    BY <1>3, ReachSelf
  <2>2. CASE call[t].cur = h
    BY <2>2, <1>3
  <2>3. CASE call[t].cur # h
    <3>1. Live(call[t].cur) /\ sock[call[t].cur].head = h
      BY <2>3, <1>3, Consts, HeldList
    <3>2. owner[call[t].cur] = No
      BY <2>1, <2>3, <3>1, SMTT(30) DEF IInv, RoleShape
    <3> QED
      BY <2>1, <3>1, <3>2
  <2> QED
    BY <2>2, <2>3
<1>5. CASE sock' = [sock EXCEPT ![d].state = "LISTEN", ![d].bound = TRUE] /\ Reply(k, t, 0)
  <2> DEFINE r == [sock[d] EXCEPT !.state = "LISTEN", !.bound = TRUE]
  <2>1. sock[d] \in SockRec /\ sock' = [sock EXCEPT ![d] = r]
    BY <1>5, SockTypes DEF IInv, TypeOK
  <2>2. /\ r \in SockRec /\ r.type = sock[d].type /\ r.open = sock[d].open
        /\ r.kind = sock[d].kind /\ r.stack = sock[d].stack /\ r.head = sock[d].head
        /\ r.listen_next = sock[d].listen_next /\ r.kernel = sock[d].kernel
        /\ r.state = "LISTEN"
    BY <2>1 DEF SockRec
  <2> HIDE DEF r
  <2>3. 0 \in Int
    OBVIOUS
  <2>4. /\ pc' = [pc EXCEPT ![t] = "ret"] /\ call' \in [App -> CallRec] /\ Answered(t, 0)
        /\ \A u \in App \ {t} : SameCall(u)
        /\ rpc_queue' = [rpc_queue EXCEPT ![k] = Tail(@)]
        /\ rpc_queue' \in [Stack -> Seq(App)]
    BY <1>1, <1>5, <2>3, Replied
  <2> QED
    BY <1>1, <1>2, <1>4, <2>1, <2>2, <2>3, <2>4, StackTouches
<1>6. CASE Reply(k, t, -1) /\ UNCHANGED sock
  <2>1. -1 \in Int
    OBVIOUS
  <2> QED
    BY <1>1, <1>2, <1>6, <2>1, StackSays
<1> QED
  BY <1>4, <1>5, <1>6 DEF StackListen

LEMMA StackConnectInv ==
  ASSUME IInv, NEW k \in Stack, NEW t \in App, StackConnect(k, t)
  PROVE  IInv'
<1>1. /\ stk[k] = NoWork /\ rpc_queue[k] # << >> /\ t = Head(rpc_queue[k])
      /\ pc[t] = "sent" /\ call[t].f = "connect" /\ call[t].op = "connect" /\ ~Closes(t)
  BY RunsFor DEF StackConnect, Closes
<1>2. UNCHANGED <<cfg, counts, stk, history>> /\ Reply(k, t, -1) /\ -1 \in Int
  BY DEF StackConnect
<1>3. PICK d \in Fd : d = call[t].cur /\ Live(d) /\ sock[d].type # "HOST" /\ ~sock[d].kernel
  BY <1>1, SMTT(30) DEF IInv, UseShape, StageShape
<1>4. CASE sock' = [sock EXCEPT ![d].state = "SYN_SENT"]
  <2> DEFINE r == [sock[d] EXCEPT !.state = "SYN_SENT"]
  <2>1. sock[d] \in SockRec /\ sock' = [sock EXCEPT ![d] = r]
    BY <1>4, SockTypes
  <2>2. /\ r \in SockRec /\ r.type = sock[d].type /\ r.open = sock[d].open
        /\ r.kind = sock[d].kind /\ r.stack = sock[d].stack /\ r.head = sock[d].head
        /\ r.listen_next = sock[d].listen_next /\ r.kernel = sock[d].kernel
        /\ r.state = "SYN_SENT"
    BY <2>1 DEF SockRec
  <2> HIDE DEF r
  <2>3. /\ pc' = [pc EXCEPT ![t] = "ret"] /\ call' \in [App -> CallRec] /\ Answered(t, -1)
        /\ \A u \in App \ {t} : SameCall(u)
        /\ rpc_queue' = [rpc_queue EXCEPT ![k] = Tail(@)]
        /\ rpc_queue' \in [Stack -> Seq(App)]
    BY <1>1, <1>2, Replied
  <2> QED
    BY <1>1, <1>2, <1>3, <2>1, <2>2, <2>3, StackTouches
<1>5. CASE UNCHANGED sock
  BY <1>1, <1>2, <1>5, StackSays
<1> QED
  BY <1>3, <1>4, <1>5 DEF StackConnect

LEMMA StackQueryInv ==
  ASSUME IInv, NEW k \in Stack, NEW t \in App, StackQuery(k, t)
  PROVE  IInv'
<1>1. /\ stk[k] = NoWork /\ rpc_queue[k] # << >> /\ t = Head(rpc_queue[k])
      /\ call[t].f \in {"query", "getsockname"} /\ call[t].op \in {"query", "listen"} /\ ~Closes(t)
  BY RunsFor DEF StackQuery, Closes
<1>2. UNCHANGED <<cfg, sock, counts, stk, history>>
  BY DEF StackQuery
<1>3. PICK v \in {0, -1} : Reply(k, t, v)
  BY DEF StackQuery
<1>4. v \in Int
  OBVIOUS
<1> QED
  BY <1>1, <1>2, <1>3, <1>4, StackSays

-----------------------------------------------------------------------------
(* A descriptor that changes hands *)

LEMMA NatMin ==
  ASSUME NEW T, T \subseteq Nat, T # {}
  PROVE  \E n \in T : \A m \in T : n <= m
<1> DEFINE R == OpToRel(<, Nat)
<1>1. \A x, y \in Nat : x < y => <<x, y>> \in R
  BY DEF OpToRel
<1>2. IsWellFoundedOn(R, Nat)
  BY NatLessThanWellFounded, Zenon
<1> HIDE DEF R
<1>3. PICK n \in T : \A m \in T : ~(<<m, n>> \in R)
  BY <1>2, WFMin
<1>4. ASSUME NEW m \in T PROVE m \in Nat /\ n \in Nat /\ ~(m < n)
  BY <1>1, <1>3
<1> QED
  BY <1>4

(* The kernel hands out a free number. *)
LEMMA NewFdFree ==
  ASSUME FreeFds # {}
  PROVE  NewFd \in Fd /\ ~sock[NewFd].open
<1>1. FreeFds \subseteq Nat
  BY SocketsAssumption DEF FreeFds, Fd
<1>2. \E n \in FreeFds : \A m \in FreeFds : n <= m
  BY <1>1, NatMin
<1>3. NewFd \in FreeFds
  BY <1>2 DEF NewFd, Min
<1> QED
  BY <1>3 DEF FreeFds

(* Nobody has anything to do with a free number. *)
LEMMA FreeFd ==
  ASSUME IInv, NEW n \in Fd, ~sock[n].open
  PROVE  /\ sock[n].type = "none" /\ sock[n].listen_next = No /\ sock[n].head = No
         /\ owner[n] = No /\ ~Live(n)
         /\ \A u \in App : ~Given(u, n) /\ ~Closing(u, n) /\ ~NextOf(u, n)
         /\ \A k \in Stack : ~Accepting(k, n)
         /\ \A z \in Fd : sock[z].listen_next # n
<1>1. SlotShape(n) /\ RoleShape(n)
  BY DEF IInv
<1>2. sock[n] = FreeSock
  BY <1>1 DEF SlotShape
<1>3. sock[n].type = "none" /\ sock[n].listen_next = No /\ sock[n].head = No
  BY <1>2 DEF FreeSock
<1>4. ASSUME NEW z \in Fd, sock[z].listen_next = n PROVE FALSE
  BY <1>3, <1>4, Consts DEF IInv, LinkShape, Live
<1> QED
  BY <1>1, <1>3, <1>4 DEF RoleShape, Live

(* A number n that was free, or that a call or a stack was about to give   *)
(* away, gets a new holder: an owner, a call or a stack.                   *)
LEMMA Handed ==
  ASSUME IInv, NEW n \in Fd,
         \/ ~sock[n].open
         \/ \E u \in App : Given(u, n)
         \/ \E k \in Stack : Accepting(k, n),
         sock'[n].open, sock'[n].head = n, sock'[n].listen_next = No,
         Live(n)' \/ (sock'[n].kind = "kernel" /\ owner'[n] # No),
         \A x \in Fd \ {n} :
           /\ KeepsSlot(x) /\ owner'[x] = owner[x]
           /\ \A u \in App : Given(u, x)' <=> Given(u, x)
           /\ \A k \in Stack : Accepting(k, x)' <=> Accepting(k, x),
         \A u \in App : /\ Closes(u)' <=> Closes(u)
                        /\ Closes(u) => /\ pc'[u] = pc[u] /\ call'[u].cur = call[u].cur
                                        /\ call'[u].next = call[u].next,
         \A u, v \in App : Given(u, n)' /\ Given(v, n)' => u = v,
         \A j, k \in Stack : Accepting(j, n)' /\ Accepting(k, n)' => j = k,
         owner'[n] # No \/ (\E u \in App : Given(u, n)') \/ \E k \in Stack : Accepting(k, n)',
         owner'[n] # No => (\A u \in App : ~Given(u, n)') /\ \A k \in Stack : ~Accepting(k, n)',
         (\A u \in App : ~Given(u, n)') \/ \A k \in Stack : ~Accepting(k, n)'
  PROVE  /\ owner[n] = No /\ \A x \in Fd : Reach(x)' = Reach(x)
         /\ \A x \in Fd : ListsShape(x)'
<1>1. /\ owner[n] = No /\ sock[n].listen_next = No
      /\ \A u \in App : ~Closing(u, n) /\ ~NextOf(u, n)
      /\ \A z \in Fd : sock[z].listen_next # n
  <2>1. CASE ~sock[n].open
    BY <2>1, FreeFd
  <2>2. CASE sock[n].open
    <3>1. /\ owner[n] = No /\ sock[n].listen_next = No /\ sock[n].head = n
          /\ \A u \in App : ~Closing(u, n)
      BY <2>2 DEF IInv, RoleShape
    <3>2. \A u \in App : ~NextOf(u, n)
      BY <3>1 DEF IInv, RoleShape
    <3>3. \A z \in Fd : sock[z].listen_next # n
      BY <3>1, Consts DEF IInv, LinkShape
    <3> QED
      BY <3>1, <3>2, <3>3
  <2> QED
    BY <2>1, <2>2
<1>2. \A x \in Fd : sock'[x].listen_next = sock[x].listen_next
  BY <1>1 DEF KeepsSlot
<1>3. ASSUME NEW x \in Fd PROVE Reach(x)' = Reach(x)
  BY <1>2, ReachSelf, ReachSame DEF IInv
<1>4. \A u \in App, x \in Fd : /\ Closing(u, x)' <=> Closing(u, x)
                               /\ NextOf(u, x)' <=> NextOf(u, x)
                               /\ Closing(u, x) => pc'[u] = pc[u]
  BY DEF Closing, NextOf
<1>5. ASSUME NEW u \in App, NEW x \in Fd PROVE Doomed(u, x)' <=> Doomed(u, x)
  <2>1. Closes(u) => /\ call[u].cur \in Fd /\ call[u].next \in Fd \cup {No}
    BY DEF IInv, StageShape, VarShape, CallRec
  <2> QED
    BY <2>1, <1>3 DEF Doomed
<1>6. ASSUME NEW x \in Fd \ {n} PROVE ListsShape(x)'
  <2>1. SlotShape(x) /\ RoleShape(x) /\ LinkShape(x) /\ ListShape(x) /\ OpenShape(x)
        /\ KeepsSlot(x)
    BY DEF IInv
  <2>2. RoleShape(x)'
    BY <2>1, <1>4 DEF RoleShape, KeepsSlot
  <2>3. LinkShape(x)'
    <3>1. CASE sock[x].listen_next = No
      BY <3>1, <1>2 DEF LinkShape
    <3>2. CASE sock[x].listen_next # No
      <4>1. PICK y \in Fd : y = sock[x].listen_next
        BY <3>2 DEF IInv, TypeOK
      <4>2. y # n /\ KeepsSlot(y) /\ Reach(y)' = Reach(y)
        BY <4>1, <1>1, <1>3
      <4>3. /\ Live(y) /\ sock[y].head = sock[x].head /\ sock[y].head # y
            /\ \A z \in Fd : sock[z].listen_next = y => z = x
            /\ \A t \in App : ~Closing(t, y) /\ (NextOf(t, y) => Closing(t, x))
            /\ x \notin Reach(y)
        BY <3>2, <4>1, <2>1 DEF LinkShape
      <4> QED
        BY <4>1, <4>2, <4>3, <2>1, <1>2, <1>4 DEF LinkShape, KeepsSlot
    <3> QED
      BY <3>1, <3>2
  <2>4. ListShape(x)'
    <3>1. owner'[x] # No => \E y \in Reach(x)' : sock'[y].listen_next = No
      BY <2>1, <1>2, <1>3, ReachSelf DEF ListShape
    <3>2. CASE Live(x) /\ sock[x].head # x
      <4>1. PICK h \in Fd : h = sock[x].head
        BY <3>2, <2>1 DEF SlotShape
      <4>2. (owner[h] # No /\ x \in Reach(h)) \/ \E u \in App : Doomed(u, x)
        BY <3>2, <4>1, <2>1 DEF ListShape
      <4>3. (owner'[h] # No /\ x \in Reach(h)') \/ \E u \in App : Doomed(u, x)'
        BY <4>2, <1>1, <1>3, <1>5
      <4>4. sock'[x].head = h
        BY <4>1, <2>1 DEF KeepsSlot
      <4> QED
        BY <3>1, <4>3, <4>4 DEF ListShape
    <3>3. CASE ~(Live(x) /\ sock[x].head # x)
      BY <3>1, <3>3, <2>1 DEF ListShape, KeepsSlot
    <3> QED
      BY <3>2, <3>3
  <2>5. OpenShape(x)'
    BY <2>1, <1>4 DEF OpenShape, KeepsSlot
  <2> QED
    BY <2>2, <2>3, <2>4, <2>5 DEF ListsShape
<1>7. ListsShape(n)'
  <2>1. RoleShape(n)'
    BY <1>1, <1>4 DEF RoleShape, Live
  <2>2. LinkShape(n)' /\ OpenShape(n)'
    BY DEF LinkShape, OpenShape
  <2>3. ListShape(n)'
    BY <1>3, ReachSelf DEF ListShape
  <2> QED
    BY <2>1, <2>2, <2>3 DEF ListsShape
<1> QED
  BY <1>1, <1>3, <1>6, <1>7

LEMMA OneSlot ==
  ASSUME IInv, NEW d \in Fd, NEW r \in SockRec, sock' = [sock EXCEPT ![d] = r]
  PROVE  /\ sock' \in [Fd -> SockRec] /\ sock'[d] = r
         /\ \A x \in Fd \ {d} : sock'[x] = sock[x] /\ KeepsSlot(x) /\ KeepsConn(x)
<1>1. sock \in [Fd -> SockRec]
  BY DEF IInv, TypeOK, SockRec
<1>2. sock' \in [Fd -> SockRec] /\ sock'[d] = r /\ \A x \in Fd \ {d} : sock'[x] = sock[x]
  BY <1>1
<1> QED
  BY <1>2 DEF KeepsSlot, KeepsConn, Live

LEMMA FreeSockIs ==
  /\ FreeSock \in SockRec /\ FreeSock.type = "none" /\ ~FreeSock.kernel /\ ~FreeSock.master
  /\ FreeSock.state = "CLOSED" /\ FreeSock.listen_next = No /\ FreeSock.queue = 0
  /\ FreeSock = [x \in DOMAIN FreeSock |-> FreeSock[x]]
  BY SocketsAssumption DEF FreeSock, SockRec

(* A field that is given the value it has. *)
LEMMA SameRecord ==
  ASSUME NEW f, f = [x \in DOMAIN f |-> f[x]]
  PROVE  /\ f.type = "none" =>
              [f EXCEPT !.open = TRUE, !.type = "none"] = [f EXCEPT !.open = TRUE]
         /\ f.open = FALSE => [[f EXCEPT !.open = TRUE] EXCEPT !.open = FALSE] = f
  OBVIOUS

LEMMA KernelSockIs ==
  ASSUME NEW n \in Fd
  PROVE  LET r == KernelSock(n) IN
         /\ r \in SockRec /\ r.open /\ r.type = "none" /\ r.kind = "kernel"
         /\ r.state = "CLOSED" /\ r.listen_next = No /\ r.head = n /\ r.queue = 0
  BY FreeSockIs DEF KernelSock, SockRec

LEMMA NewSockIs ==
  ASSUME NEW kind \in {"tcp", "udp"}, NEW k \in Stack, NEW h \in Fd
  PROVE  LET r == NewSock(kind, k, h) IN
         /\ r \in SockRec /\ r.open /\ r.type = "UNKNOW" /\ r.kind = kind
         /\ r.state = "CLOSED" /\ r.stack = k /\ r.listen_next = No /\ r.head = h
         /\ r.queue = 0 /\ ~r.kernel /\ ~r.master
  BY FreeSockIs DEF NewSock, SockRec

(* A thread gets a new descriptor of the kernel. *)
LEMMA FromKernel ==
  ASSUME IInv, NEW t \in App, pc[t] # "sent", Plain(t), call[t].op # "connect",
         FreeFds # {}, NEW r \in SockRec, r.open, r.type = "none", r.kind = "kernel",
         r.state = "CLOSED", r.listen_next = No, r.head = NewFd, r.queue = 0,
         sock' = [sock EXCEPT ![NewFd] = r],
         owner' = [owner EXCEPT ![NewFd] = t], pc'[t] = "idle", call'[t] = NoCall,
         \A u \in App \ {t} : pc'[u] = pc[u] /\ call'[u] = call[u], VarShape',
         UNCHANGED <<cfg, counts, rpc_queue, stk, served>>
  PROVE  IInv'
<1>1. PICK n \in Fd : n = NewFd /\ ~sock[n].open
  BY NewFdFree
<1>3. /\ r \in SockRec /\ r.open /\ r.type = "none" /\ r.kind = "kernel"
      /\ r.state = "CLOSED" /\ r.listen_next = No /\ r.head = n /\ r.queue = 0
  BY <1>1
<1>4. sock' = [sock EXCEPT ![n] = r] /\ owner' = [owner EXCEPT ![n] = t]
  BY <1>1
<1>5. /\ sock' \in [Fd -> SockRec] /\ sock'[n] = r
      /\ \A x \in Fd \ {n} : sock'[x] = sock[x] /\ KeepsSlot(x) /\ KeepsConn(x)
  BY <1>3, <1>4, OneSlot
<1>6. TypeOK' /\ owner'[n] = t /\ t # No /\ \A x \in Fd \ {n} : owner'[x] = owner[x]
  BY <1>4, <1>5, Consts DEF IInv, TypeOK, SockRec, counts
<1>7. /\ \A u \in App : ~Given(u, n)
      /\ \A k \in Stack : ~Accepting(k, n)
  BY <1>1, FreeFd
<1>8. NoCall.op = "none"
  BY DEF NoCall
<1>9. \A u \in App, x \in Fd : Given(u, x)' <=> Given(u, x)
  BY <1>8 DEF Given, Plain
<1>10. \A k \in Stack, x \in Fd : Accepting(k, x)' <=> Accepting(k, x)
  BY DEF Accepting
<1>11. \A u \in App : /\ Closes(u)' <=> Closes(u)
                      /\ Closes(u) => /\ pc'[u] = pc[u] /\ call'[u].cur = call[u].cur
                                      /\ call'[u].next = call[u].next
  BY <1>8 DEF Closes, Plain
<1>12. /\ owner[n] = No /\ \A x \in Fd : Reach(x)' = Reach(x)
       /\ \A x \in Fd : ListsShape(x)'
  BY <1>1, <1>3, <1>5, <1>6, <1>7, <1>9, <1>10, <1>11, Handed
<1>13. SlotShape(n)'
  BY <1>3, <1>5 DEF SlotShape, Live
<1>14. \A x \in Fd : SlotShape(x)'
  BY <1>5, <1>13, SlotKept DEF SameCall
<1>15. \A u \in App \ {t} : Undisturbed(u)
  BY <1>5, <1>6, <1>12, Consts DEF Undisturbed, KeepsSlot
<1>16. \A k \in Stack : CleansOn(k)
  BY <1>1, <1>5, CleansKept
<1>17. StageShape(t)' /\ UseShape(t)'
  BY DEF StageShape, UseShape, Closes, NoCall
<1> QED
  BY <1>6, <1>12, <1>14, <1>15, <1>16, <1>17, AppFrame

LEMMA KernelSocketInv ==
  ASSUME IInv, NEW t \in App, KernelSocket(t)
  PROVE  IInv'
<1>1. pc[t] = "idle" /\ FreeFds # {} /\ UNCHANGED <<cfg, counts, rpc_queue, stk, served, pc, call>>
      /\ owner' = [owner EXCEPT ![NewFd] = t]
  BY DEF KernelSocket, Begins
<1>2. call[t] = NoCall /\ Plain(t) /\ call[t].op = "none"
  BY <1>1, Idle
<1>3. NewFd \in Fd
  BY <1>1, NewFdFree
<1> DEFINE r == KernelSock(NewFd)
<1>5. /\ r \in SockRec /\ r.open /\ r.type = "none" /\ r.kind = "kernel"
      /\ r.state = "CLOSED" /\ r.listen_next = No /\ r.head = NewFd /\ r.queue = 0
  BY <1>3, KernelSockIs
<1>6. sock' = [sock EXCEPT ![NewFd] = r]
  BY DEF KernelSocket
<1> HIDE DEF r
<1>4. VarShape'
  BY <1>1 DEF IInv, VarShape
<1> QED
  BY <1>1, <1>2, <1>4, <1>5, <1>6, FromKernel

(* A call gives a thread its new descriptor. *)
LEMMA TakesIt ==
  ASSUME IInv, NEW t \in App, NEW n \in Fd, Given(t, n),
         owner' = [owner EXCEPT ![n] = t], Return(t),
         UNCHANGED <<cfg, sock, counts, rpc_queue, stk, served>>
  PROVE  IInv'
<1>1. /\ pc[t] = "ret" /\ call[t].op \in {"socket", "accept"} /\ call[t].ret = n
      /\ Live(n) /\ sock[n].head = n /\ sock[n].listen_next = No
      /\ \A u \in App : Given(u, n) => u = t
      /\ \A k \in Stack : ~Accepting(k, n)
  BY DEF Given, IInv, RoleShape
<1>2. /\ pc'[t] = "idle" /\ call'[t] = NoCall
      /\ \A u \in App \ {t} : pc'[u] = pc[u] /\ call'[u] = call[u]
      /\ owner'[n] = t /\ t # No /\ \A x \in Fd \ {n} : owner'[x] = owner[x]
  BY Consts DEF Return, IInv, VarShape, TypeOK
<1>3. VarShape' /\ TypeOK' /\ NoCall.op = "none"
  BY NoCallType DEF Return, IInv, VarShape, TypeOK, counts, NoCall
<1>4. /\ \A u \in App, x \in Fd \ {n} : Given(u, x)' <=> Given(u, x)
      /\ \A u \in App : ~Given(u, n)'
  BY <1>1, <1>2, <1>3 DEF Given
<1>5. \A k \in Stack, x \in Fd : Accepting(k, x)' <=> Accepting(k, x)
  BY DEF Accepting
<1>6. \A u \in App : /\ Closes(u)' <=> Closes(u)
                     /\ Closes(u) => /\ pc'[u] = pc[u] /\ call'[u].cur = call[u].cur
                                     /\ call'[u].next = call[u].next
  BY <1>1, <1>2, <1>3 DEF Closes
<1>7. \A x \in Fd : KeepsSlot(x) /\ KeepsConn(x) /\ sock'[x] = sock[x] /\ (Live(x)' <=> Live(x))
  BY DEF KeepsSlot, KeepsConn, Live
<1>8. sock'[n].open
  BY <1>1 DEF IInv, SlotShape
<1>9. /\ owner[n] = No /\ \A x \in Fd : Reach(x)' = Reach(x)
      /\ \A x \in Fd : ListsShape(x)'
  BY <1>1, <1>2, <1>4, <1>5, <1>6, <1>7, <1>8, Handed
<1>10. \A x \in Fd : SlotShape(x)'
  BY <1>1, <1>2, <1>7, SlotKept DEF SameCall
<1>11. \A u \in App \ {t} : Undisturbed(u)
  BY <1>2, <1>7, <1>9, Consts DEF Undisturbed
<1>12. StageShape(t)' /\ UseShape(t)'
  BY <1>2 DEF StageShape, UseShape, Closes, NoCall
<1>13. \A k \in Stack : CleansOn(k)
  BY DEF CleansOn
<1> QED
  BY <1>1, <1>2, <1>3, <1>9, <1>10, <1>11, <1>12, <1>13, AppFrame

LEMMA SocketReturnsInv ==
  ASSUME IInv, NEW t \in App, SocketReturns(t)
  PROVE  IInv'
<1>1. /\ pc[t] = "ret" /\ call[t].op = "socket" /\ Return(t)
      /\ UNCHANGED <<cfg, sock, counts, rpc_queue, stk, served>>
  BY DEF SocketReturns
<1>2. call[t].ret \in Fd \cup {-1}
  BY <1>1 DEF IInv, StageShape
<1>3. CASE call[t].ret > 0
  <2>1. PICK n \in Fd : n = call[t].ret
    BY <1>2, <1>3
  <2>2. Given(t, n) /\ owner' = [owner EXCEPT ![n] = t]
    BY <2>1, <1>1, <1>3 DEF Given, SocketReturns
  <2> QED
    BY <1>1, <2>2, TakesIt
<1>4. CASE ~(call[t].ret > 0)
  <2>1. call[t].ret \notin Fd /\ owner' = owner
    BY <1>4, Consts DEF SocketReturns
  <2>2. Plain(t)
    BY <1>1, <2>1 DEF Plain, Closes
  <2>3. TypeOK'
    BY <1>1, <2>1 DEF IInv, TypeOK, counts
  <2> QED
    BY <1>1, <2>1, <2>2, <2>3, AppBack
<1> QED
  BY <1>3, <1>4

LEMMA AcceptReturnsInv ==
  ASSUME IInv, NEW t \in App, AcceptReturns(t)
  PROVE  IInv'
<1>1. /\ pc[t] = "ret" /\ call[t].op = "accept" /\ Return(t)
      /\ UNCHANGED <<cfg, counts, rpc_queue, stk, served>>
  BY DEF AcceptReturns
<1>2. call[t].ret \in Fd \cup {-1}
  BY <1>1 DEF IInv, StageShape
<1>3. CASE call[t].ret > 0 /\ owner' = [owner EXCEPT ![call[t].ret] = t] /\ UNCHANGED sock
  <2>1. PICK n \in Fd : n = call[t].ret
    BY <1>2, <1>3
  <2>2. Given(t, n) /\ owner' = [owner EXCEPT ![n] = t]
    BY <2>1, <1>1, <1>3 DEF Given
  <2> QED
    BY <1>1, <1>3, <2>2, TakesIt
<1>4. ASSUME call[t].ret < 0 PROVE Plain(t)
  <2>1. call[t].ret \notin Fd
    BY <1>4, Consts
  <2> QED
    BY <1>1, <2>1 DEF Plain, Closes
<1>5. CASE call[t].ret < 0 /\ UNCHANGED <<owner, sock>>
  <2>1. TypeOK'
    BY <1>1, <1>5 DEF IInv, TypeOK, counts
  <2> QED
    BY <1>1, <1>4, <1>5, <2>1, AppBack
<1>6. CASE /\ call[t].ret < 0 /\ FreeFds # {}
           /\ sock' = [sock EXCEPT ![NewFd] = [KernelSock(NewFd) EXCEPT !.kernel = TRUE]]
           /\ owner' = [owner EXCEPT ![NewFd] = t]
  <2>1. /\ pc'[t] = "idle" /\ call'[t] = NoCall
        /\ \A u \in App \ {t} : pc'[u] = pc[u] /\ call'[u] = call[u]
    BY <1>1 DEF Return, IInv, VarShape
  <2>2. VarShape'
    BY <1>1, NoCallType DEF Return, IInv, VarShape
  <2>3. NewFd \in Fd
    BY <1>6, NewFdFree
  <2> DEFINE q == KernelSock(NewFd)
             r == [q EXCEPT !.kernel = TRUE]
  <2>4. /\ q \in SockRec /\ q.open /\ q.type = "none" /\ q.kind = "kernel"
        /\ q.state = "CLOSED" /\ q.listen_next = No /\ q.head = NewFd /\ q.queue = 0
    BY <2>3, KernelSockIs
  <2>5. sock' = [sock EXCEPT ![NewFd] = r]
    BY <1>6
  <2> HIDE DEF q
  <2>6. /\ r \in SockRec /\ r.open /\ r.type = "none" /\ r.kind = "kernel"
        /\ r.state = "CLOSED" /\ r.listen_next = No /\ r.head = NewFd /\ r.queue = 0
    BY <2>4 DEF SockRec
  <2> HIDE DEF r
  <2> QED
    BY <1>1, <1>4, <1>6, <2>1, <2>2, <2>5, <2>6, FromKernel
<1> QED
  BY <1>3, <1>5, <1>6 DEF AcceptReturns

LEMMA StackSocketInv ==
  ASSUME IInv, NEW k \in Stack, NEW t \in App, StackSocket(k, t)
  PROVE  IInv'
<1>1. /\ stk[k] = NoWork /\ rpc_queue[k] # << >> /\ t = Head(rpc_queue[k]) /\ pc[t] = "sent"
      /\ call[t].f \in {"tcp", "udp"} /\ call[t].op = "socket" /\ ~Closes(t)
  BY RunsFor DEF StackSocket, Closes
<1>2. UNCHANGED <<cfg, counts, stk, history>>
  BY DEF StackSocket
<1>3. CASE Reply(k, t, -1) /\ UNCHANGED sock
  <2>1. -1 \in Int
    OBVIOUS
  <2> QED
    BY <1>1, <1>2, <1>3, <2>1, StackSays
<1>4. CASE /\ FreeFds # {} /\ sock' = [sock EXCEPT ![NewFd] = NewSock(call[t].f, k, NewFd)]
           /\ Reply(k, t, NewFd)
  <2>1. PICK n \in Fd : n = NewFd /\ ~sock[n].open /\ n \in Int
    BY <1>4, NewFdFree, Consts
  <2> DEFINE r == NewSock(call[t].f, k, n)
  <2>2. /\ r \in SockRec /\ r.open /\ r.type = "UNKNOW" /\ r.kind \in {"tcp", "udp"}
        /\ r.state = "CLOSED" /\ r.stack = k /\ r.listen_next = No /\ r.head = n
        /\ r.queue = 0 /\ ~r.kernel
    BY <1>1, NewSockIs
  <2>3. sock' = [sock EXCEPT ![n] = r]
    BY <1>4, <2>1
  <2> HIDE DEF r
  <2>4. /\ sock' \in [Fd -> SockRec] /\ sock'[n] = r
        /\ \A x \in Fd \ {n} : sock'[x] = sock[x] /\ KeepsSlot(x) /\ KeepsConn(x)
    BY <2>2, <2>3, OneSlot
  <2>5. /\ pc' = [pc EXCEPT ![t] = "ret"] /\ call' \in [App -> CallRec] /\ Answered(t, n)
        /\ \A u \in App \ {t} : SameCall(u)
        /\ rpc_queue' = [rpc_queue EXCEPT ![k] = Tail(@)]
        /\ rpc_queue' \in [Stack -> Seq(App)]
    BY <1>1, <1>4, <2>1, Replied
  <2>6. VarShape' /\ TypeOK' /\ pc'[t] = "ret" /\ owner' = owner
    BY <1>2, <2>4, <2>5 DEF IInv, VarShape, TypeOK, SockRec, counts, history
  <2>7. /\ owner[n] = No /\ \A u \in App : ~Given(u, n)
        /\ \A j \in Stack : ~Accepting(j, n)
    BY <2>1, FreeFd
  <2>8. /\ Given(t, n)'
        /\ \A u \in App, x \in Fd \ {n} : Given(u, x)' <=> Given(u, x)
        /\ \A u \in App \ {t} : ~Given(u, n)'
    <3>1. ASSUME NEW u \in App \ {t}, NEW x \in Fd PROVE Given(u, x)' <=> Given(u, x)
      BY <2>5, SameFields DEF Given
    <3> QED
      BY <3>1, <1>1, <2>5, <2>6, <2>7 DEF Given, Answered
  <2>9. \A j \in Stack, x \in Fd : Accepting(j, x)' <=> Accepting(j, x)
    BY <1>2 DEF Accepting
  <2>10. ASSUME NEW u \in App
         PROVE  /\ Closes(u)' <=> Closes(u)
                /\ Closes(u) => /\ pc'[u] = pc[u] /\ call'[u].cur = call[u].cur
                                /\ call'[u].next = call[u].next
    BY <1>1, <2>5, SameFields DEF Closes, Answered
  <2>11. Live(n)' /\ sock'[n].open /\ sock'[n].head = n /\ sock'[n].listen_next = No
    BY <2>2, <2>4 DEF Live
  <2>12. /\ \A x \in Fd : Reach(x)' = Reach(x)
         /\ \A x \in Fd : ListsShape(x)'
    BY <2>1, <2>4, <2>6, <2>7, <2>8, <2>9, <2>10, <2>11, Handed, ZenonT(30)
  <2>13. SlotShape(n)'
    BY <2>2, <2>4, Consts DEF SlotShape, Live
  <2>14. \A x \in Fd : SlotShape(x)'
    BY <1>1, <2>4, <2>5, <2>13, SlotKept
  <2>15. \A u \in App \ {t} : Undisturbed(u)
    BY <2>4, <2>6, <2>7, <2>12, Consts DEF Undisturbed, KeepsSlot
  <2>16. \A j \in Stack : CleansOn(j)
    BY <2>1, <2>4, CleansKept
  <2>17. StageShape(t)'
    BY <1>1, <2>1, <2>5, <2>6, Served DEF StageShape, Answered, Closes
  <2>18. UseShape(t)'
    BY <1>1, <2>5 DEF UseShape, Answered
  <2> QED
    BY <1>1, <1>2, <2>5, <2>6, <2>12, <2>14, <2>15, <2>16, <2>17, <2>18, StackFrame
<1> QED
  BY <1>3, <1>4 DEF StackSocket

LEMMA StackAcceptedInv ==
  ASSUME IInv, NEW k \in Stack, NEW t \in App, StackAccepted(k, t)
  PROVE  IInv'
<1>1. /\ stk[k].pc = "accept" /\ t = Head(rpc_queue[k]) /\ Reply(k, t, stk[k].fd)
      /\ UNCHANGED <<cfg, sock, bind_stack, stack_index, socket_lock, owner, served>>
  BY DEF StackAccepted, history
<1>2. rpc_queue[k] # << >> /\ call[t].op = "accept" /\ stk[k].fd \in Fd
  BY <1>1 DEF IInv, WorkShape
<1>3. PICK n \in Fd : n = stk[k].fd /\ n \in Int /\ Accepting(k, n)
  BY <1>1, <1>2, Consts DEF Accepting
<1>4. pc[t] = "sent" /\ StageShape(t)
  BY <1>1, <1>2, Served
<1>5. /\ Live(n) /\ sock[n].head = n /\ sock[n].listen_next = No /\ owner[n] = No
      /\ \A j \in Stack : Accepting(j, n) => j = k
      /\ \A u \in App : ~Given(u, n)
  BY <1>3 DEF IInv, RoleShape
<1>6. /\ pc' = [pc EXCEPT ![t] = "ret"] /\ call' \in [App -> CallRec] /\ Answered(t, n)
      /\ \A u \in App \ {t} : SameCall(u)
      /\ rpc_queue' = [rpc_queue EXCEPT ![k] = Tail(@)]
      /\ rpc_queue' \in [Stack -> Seq(App)]
  BY <1>1, <1>2, <1>3, Replied
<1>7. /\ stk' = [stk EXCEPT ![k] = NoWork] /\ stk'[k] = NoWork
      /\ \A j \in Stack \ {k} : stk'[j] = stk[j]
  BY DEF StackAccepted, IInv, VarShape
<1>8. NoWork \in [pc : {"poll", "accept", "clean", "close_fn"},
                  fd : Fd \cup {No}, tmp : 0..(ConnMod - 1)] /\ NoWork.pc = "poll"
  BY SocketsAssumption DEF NoWork
<1>9. VarShape' /\ pc'[t] = "ret"
  BY <1>6, <1>7, <1>8 DEF IInv, VarShape
<1>10. TypeOK'
  <2>1. stk[k].tmp \in Int
    BY DEF IInv, VarShape
  <2>2. (stk[k].tmp + 1) % ConnMod \in 0..(ConnMod - 1)
    BY <2>1, SocketsAssumption
  <2> QED
    BY <1>1, <2>2 DEF StackAccepted, IInv, TypeOK
<1>11. /\ Given(t, n)'
       /\ \A u \in App, x \in Fd \ {n} : Given(u, x)' <=> Given(u, x)
       /\ \A u \in App \ {t} : ~Given(u, n)'
  <2>1. ASSUME NEW u \in App \ {t}, NEW x \in Fd PROVE Given(u, x)' <=> Given(u, x)
    BY <1>6, SameFields DEF Given
  <2> QED
    BY <2>1, <1>2, <1>4, <1>5, <1>6, <1>9 DEF Given, Answered
<1>12. /\ \A j \in Stack, x \in Fd \ {n} : Accepting(j, x)' <=> Accepting(j, x)
       /\ \A j \in Stack : ~Accepting(j, n)'
  BY <1>3, <1>5, <1>7, <1>8 DEF Accepting
<1>13. ASSUME NEW u \in App
       PROVE  /\ Closes(u)' <=> Closes(u)
              /\ Closes(u) => /\ pc'[u] = pc[u] /\ call'[u].cur = call[u].cur
                              /\ call'[u].next = call[u].next
  BY <1>2, <1>6, SameFields DEF Closes, Answered
<1>14. \A x \in Fd : KeepsSlot(x) /\ KeepsConn(x) /\ sock'[x] = sock[x] /\ (Live(x)' <=> Live(x))
  BY <1>1 DEF KeepsSlot, KeepsConn, Live
<1>15. Live(n)' /\ sock'[n].open /\ sock'[n].head = n /\ sock'[n].listen_next = No
  BY <1>5, <1>14 DEF IInv, SlotShape
<1>16. /\ \A x \in Fd : Reach(x)' = Reach(x)
       /\ \A x \in Fd : ListsShape(x)'
  BY <1>1, <1>3, <1>5, <1>11, <1>12, <1>13, <1>14, <1>15, Handed
<1>17. \A x \in Fd : SlotShape(x)'
  BY <1>2, <1>6, <1>14, SlotKept
<1>18. \A u \in App \ {t} : Undisturbed(u)
  BY <1>1, <1>14, <1>16 DEF Undisturbed
<1>19. \A j \in Stack : CleansOn(j)
  BY <1>1 DEF CleansOn
<1>20. StageShape(t)'
  BY <1>2, <1>3, <1>4, <1>6, <1>9 DEF StageShape, Answered, Closes
<1>21. UseShape(t)'
  BY <1>2, <1>6 DEF UseShape, Answered
<1> QED
  BY <1>1, <1>2, <1>6, <1>7, <1>9, <1>10, <1>16, <1>17, <1>18, <1>19, <1>20, <1>21, StackFrame

LEMMA StackAcceptInv ==
  ASSUME IInv, NEW k \in Stack, NEW t \in App, StackAccept(k, t)
  PROVE  IInv'
<1>1. /\ stk[k] = NoWork /\ rpc_queue[k] # << >> /\ t = Head(rpc_queue[k])
      /\ call[t].f = "accept" /\ call[t].op = "accept" /\ pc[t] = "sent" /\ ~Closes(t)
      /\ call[t] \in CallRec
  BY RunsFor DEF StackAccept, Closes
<1>2. UNCHANGED <<cfg, counts, history>>
  BY DEF StackAccept
<1>3. PICK d \in Fd : d = call[t].cur
  BY <1>1 DEF IInv, StageShape
<1> DEFINE others == [u \in App |-> IF u # t /\ call[u].fd = call[t].fd
                                    THEN [call[u] EXCEPT !.found = FALSE] ELSE call[u]]
<1>4. others \in [App -> CallRec] /\ others[t] = call[t]
  <2>1. call \in [App -> CallRec]
    BY DEF IInv, VarShape
  <2>2. ASSUME NEW u \in App PROVE [call[u] EXCEPT !.found = FALSE] \in CallRec
    <3>1. PICK c \in CallRec : c = call[u]
      BY <2>1
    <3>2. [c EXCEPT !.found = FALSE] \in CallRec
      BY DEF CallRec
    <3> QED
      BY <3>1, <3>2
  <2> QED
    BY <2>1, <2>2
<1>5. \A u \in App \ {t} :
        \/ others[u] = call[u]
        \/ call[u].fd # No /\ others[u] = [call[u] EXCEPT !.found = FALSE]
  <2>1. call[t].fd # No
    BY <1>1, Consts DEF IInv, StageShape
  <2> QED
    BY <2>1
<1>6. CASE Reply(k, t, -1) /\ UNCHANGED <<sock, stk>>
  <2>1. -1 \in Int
    OBVIOUS
  <2> QED
    BY <1>1, <1>2, <1>6, <2>1, StackSays
<1> DEFINE q == [sock[d] EXCEPT !.queue = @ - 1]
<1>7. ASSUME sock[d].queue > 0
      PROVE  /\ Live(d) /\ sock[d].open /\ sock[d] \in SockRec
             /\ q \in SockRec /\ q.type = sock[d].type /\ q.open = sock[d].open
             /\ q.kind = sock[d].kind /\ q.stack = sock[d].stack /\ q.head = sock[d].head
             /\ q.listen_next = sock[d].listen_next /\ q.kernel = sock[d].kernel
             /\ q.state = sock[d].state
  <2>1. sock[d] \in SockRec
    BY SockTypes
  <2>2. sock[d].queue - 1 \in 0..MaxQueue
    BY <1>7, <2>1, SocketsAssumption DEF SockRec
  <2>3. Live(d) /\ sock[d].open
    BY <1>7 DEF IInv, SlotShape
  <2> QED
    BY <2>1, <2>2, <2>3 DEF SockRec
<1>8. CASE /\ sock[d].queue > 0
           /\ sock' = [sock EXCEPT ![d].queue = @ - 1]
           /\ call' = [others EXCEPT ![t].ret = -1, ![t].found = FALSE]
           /\ pc' = [pc EXCEPT ![t] = "ret"]
           /\ rpc_queue' = [rpc_queue EXCEPT ![k] = Tail(@)]
           /\ UNCHANGED stk
  <2>1. sock' = [sock EXCEPT ![d] = q]
    BY <1>8
  <2> DEFINE c == [call[t] EXCEPT !.ret = -1, !.found = FALSE]
  <2>2. /\ c \in CallRec
        /\ c.op = call[t].op /\ c.fd = call[t].fd /\ c.f = call[t].f /\ c.cur = call[t].cur
        /\ c.i = call[t].i /\ c.k = call[t].k /\ c.next = call[t].next /\ c.ret = -1
    <3>1. -1 \in Int
      OBVIOUS
    <3> QED
      BY <1>1, <3>1 DEF CallRec
  <2>3. call' = [others EXCEPT ![t] = c]
    BY <1>4, <1>8
  <2> HIDE DEF c, q, others
  <2>4. call' \in [App -> CallRec] /\ Answered(t, -1)
    BY <1>4, <2>2, <2>3 DEF Answered
  <2>5. \A u \in App \ {t} : SameCall(u)
    BY <1>4, <1>5, <1>8, <2>3 DEF SameCall, IInv, VarShape
  <2>6. rpc_queue' \in [Stack -> Seq(App)] /\ -1 \in Int
    <3>1. rpc_queue \in [Stack -> Seq(App)]
      BY DEF IInv, VarShape
    <3>2. Tail(rpc_queue[k]) \in Seq(App)
      BY <1>1, <3>1
    <3> QED
      BY <1>8, <3>1, <3>2
  <2>7. /\ Live(d) /\ q \in SockRec /\ q.type = sock[d].type /\ q.open = sock[d].open
        /\ q.kind = sock[d].kind /\ q.stack = sock[d].stack /\ q.head = sock[d].head
        /\ q.listen_next = sock[d].listen_next /\ q.kernel = sock[d].kernel
        /\ q.state = sock[d].state
    BY <1>7, <1>8
  <2>8. UNCHANGED <<cfg, counts, stk, history>>
    BY <1>2, <1>8
  <2>9. pc' = [pc EXCEPT ![t] = "ret"] /\ rpc_queue' = [rpc_queue EXCEPT ![k] = Tail(@)]
    BY <1>8
  <2>10. PICK v \in Int : v = -1 /\ Answered(t, v)
    BY <2>4, <2>6
  <2> QED
    BY <1>1, <2>1, <2>4, <2>5, <2>6, <2>7, <2>8, <2>9, <2>10, StackTouches
<1>9. CASE /\ sock[d].queue > 0 /\ FreeFds # {}
           /\ sock' = [sock EXCEPT ![d].queue = @ - 1,
                         ![NewFd] = [NewSock("tcp", k, NewFd) EXCEPT
                                      !.type = "LIBOS", !.state = "ESTABLISHED"]]
           /\ stk' = [stk EXCEPT ![k] = [pc |-> "accept", fd |-> NewFd, tmp |-> conn_num[k]]]
           /\ call' = others
           /\ UNCHANGED <<pc, rpc_queue>>
  <2>1. PICK n \in Fd : n = NewFd /\ ~sock[n].open
    BY <1>9, NewFdFree
  <2> DEFINE r == [NewSock("tcp", k, n) EXCEPT !.type = "LIBOS", !.state = "ESTABLISHED"]
  <2>2. /\ r \in SockRec /\ r.open /\ r.type = "LIBOS" /\ r.kind = "tcp"
        /\ r.state = "ESTABLISHED" /\ r.stack = k /\ r.listen_next = No /\ r.head = n
        /\ r.queue = 0 /\ ~r.kernel
    <3> DEFINE m == NewSock("tcp", k, n)
    <3>1. /\ m \in SockRec /\ m.open /\ m.kind = "tcp" /\ m.stack = k
          /\ m.listen_next = No /\ m.head = n /\ m.queue = 0 /\ ~m.kernel
      BY NewSockIs
    <3>2. r = [m EXCEPT !.type = "LIBOS", !.state = "ESTABLISHED"]
      OBVIOUS
    <3> HIDE DEF m, r
    <3> QED
      BY <3>1, <3>2 DEF SockRec
  <2>3. n # d
    BY <2>1, <1>7, <1>9
  <2> HIDE DEF r
  <2>4. /\ sock'[n] = r /\ sock'[d] = q /\ sock' \in [Fd -> SockRec]
        /\ \A x \in Fd \ {n, d} : sock'[x] = sock[x]
    <3>1. sock \in [Fd -> SockRec]
      BY DEF IInv, TypeOK, SockRec
    <3>2. sock' = [sock EXCEPT ![d] = q, ![n] = r]
      BY <1>9, <2>1 DEF r
    <3>3. q \in SockRec
      BY <1>7, <1>9
    <3> HIDE DEF q
    <3> QED
      BY <2>2, <2>3, <3>1, <3>2, <3>3
  <2> HIDE DEF q
  <2>5. \A x \in Fd \ {n} : KeepsSlot(x) /\ KeepsConn(x)
    BY <2>4, <1>7, <1>9, ZenonT(30) DEF KeepsSlot, KeepsConn, Live
  <2>6. \A u \in App : SameCall(u)
    BY <1>4, <1>5, <1>9 DEF SameCall
  <2>7. /\ stk'[k] = [pc |-> "accept", fd |-> n, tmp |-> conn_num[k]]
        /\ \A j \in Stack \ {k} : stk'[j] = stk[j]
    BY <1>9, <2>1 DEF IInv, VarShape
  <2>8. VarShape'
    <3>1. conn_num[k] \in 0..(ConnMod - 1)
      BY DEF IInv, TypeOK
    <3>2. stk' \in [Stack -> [pc : {"poll", "accept", "clean", "close_fn"},
                              fd : Fd \cup {No}, tmp : 0..(ConnMod - 1)]]
      BY <1>9, <2>1, <3>1 DEF IInv, VarShape
    <3> HIDE DEF others
    <3> QED
      BY <1>4, <1>9, <3>2 DEF IInv, VarShape
  <2>9. TypeOK' /\ owner' = owner
    BY <1>2, <2>4 DEF IInv, TypeOK, SockRec, counts, history
  <2>10. /\ owner[n] = No /\ \A u \in App : ~Given(u, n)
         /\ \A j \in Stack : ~Accepting(j, n)
    BY <2>1, FreeFd
  <2>11. ASSUME NEW u \in App
         PROVE  /\ \A x \in Fd : Given(u, x)' <=> Given(u, x)
                /\ Closes(u)' <=> Closes(u)
                /\ Closes(u) => /\ pc'[u] = pc[u] /\ call'[u].cur = call[u].cur
                                /\ call'[u].next = call[u].next
    BY <2>6, SameFields DEF Given, Closes
  <2>12. /\ Accepting(k, n)' /\ \A j \in Stack \ {k} : ~Accepting(j, n)'
         /\ \A j \in Stack, x \in Fd \ {n} : Accepting(j, x)' <=> Accepting(j, x)
    <3>1. stk[k].pc = "poll"
      BY <1>1 DEF NoWork
    <3> QED
      BY <2>7, <2>10, <3>1 DEF Accepting
  <2>13. Live(n)' /\ sock'[n].open /\ sock'[n].head = n /\ sock'[n].listen_next = No
    BY <2>2, <2>4 DEF Live
  <2>14. /\ \A x \in Fd : Reach(x)' = Reach(x)
         /\ \A x \in Fd : ListsShape(x)'
    BY <2>1, <2>5, <2>9, <2>10, <2>11, <2>12, <2>13, Handed
  <2>15. SlotShape(n)'
    BY <2>2, <2>4 DEF SlotShape, Live
  <2>16. SlotShape(d)'
    <3>1. \A u \in App : /\ call'[u].op = call[u].op /\ call'[u].fd = call[u].fd
                         /\ call'[u].f = call[u].f
      BY <2>6, SameFields
    <3>2. SlotShape(d)
      BY DEF IInv
    <3>3. /\ sock'[d].open /\ sock[d].type # "none" /\ sock'[d].type = sock[d].type
          /\ sock'[d].kind = sock[d].kind /\ sock'[d].stack = sock[d].stack
          /\ sock'[d].head = sock[d].head /\ sock'[d].kernel = sock[d].kernel
          /\ sock'[d].state = sock[d].state
      BY <1>7, <1>9, <2>4 DEF Live
    <3> QED
      BY <3>1, <3>2, <3>3 DEF SlotShape, Live
  <2>17. \A x \in Fd : SlotShape(x)'
    BY <2>4, <2>6, <2>15, <2>16, SlotKept
  <2>18. \A u \in App : Undisturbed(u)
    BY <2>5, <2>9, <2>10, <2>14, Consts DEF Undisturbed, KeepsSlot
  <2>19. \A j \in Stack : CleansOn(j)
    <3>1. \A x \in Fd : sock[x].open /\ ~Live(x) => sock'[x] = sock[x]
      BY <1>7, <1>9, <2>1, <2>4
    <3> QED
      BY <3>1, CleansKept
  <2>20. WorkShape(k)'
    <3>1. call'[t].op = "accept"
      BY <1>1, <2>6, SameFields
    <3>2. /\ stk'[k].pc = "accept" /\ stk'[k].fd = n
          /\ rpc_queue'[k] # << >> /\ Head(rpc_queue'[k]) = t
      BY <1>1, <1>9, <2>7
    <3> QED
      BY <3>1, <3>2 DEF WorkShape
  <2>21. ASSUME NEW j \in Stack \ {k} PROVE WorkShape(j)'
    <3>1. stk[j].pc # "poll" => rpc_queue[j] # << >>
      BY DEF IInv, WorkShape
    <3>2. rpc_queue[j] # << >> => Head(rpc_queue[j]) \in App
      BY DEF IInv, VarShape
    <3> QED
      BY <3>1, <3>2, <1>9, <2>6, <2>7, <2>19, WorkKept DEF CleansOn
  <2> QED
    BY <1>2, <1>9, <2>6, <2>8, <2>9, <2>14, <2>17, <2>18, <2>20, <2>21, SilentFrame
<1> QED
  BY <1>3, <1>6, <1>8, <1>9 DEF StackAccept

-----------------------------------------------------------------------------
(* close *)

(* Nobody else has anything to do with a descriptor that a call closes, and *)
(* no list goes on to it.                                                   *)
LEMMA ClosingAlone ==
  ASSUME IInv, NEW t \in App, NEW d \in Fd, Closing(t, d)
  PROVE  /\ owner[d] = No /\ sock[d].open
         /\ \A u \in App : ~Given(u, d) /\ ~NextOf(u, d) /\ (Closing(u, d) => u = t)
         /\ \A k \in Stack : ~Accepting(k, d)
         /\ \A z \in Fd : sock[z].listen_next # d
         /\ \A x \in Fd \ {d} : d \notin Reach(x)
<1>1. RoleShape(d)
  BY DEF IInv
<1>2. /\ owner[d] = No /\ sock[d].open
      /\ \A u \in App : ~Given(u, d) /\ ~NextOf(u, d) /\ (Closing(u, d) => u = t)
      /\ \A k \in Stack : ~Accepting(k, d)
  BY <1>1 DEF RoleShape
<1>3. ASSUME NEW z \in Fd, sock[z].listen_next = d PROVE FALSE
  BY <1>3, Consts DEF IInv, LinkShape
<1>4. \A x \in Fd \ {d} : d \notin Reach(x)
  BY <1>3, ReachUnlinked DEF IInv
<1> QED
  BY <1>2, <1>3, <1>4

(* A stack in the middle of a close works on what its own caller closes. *)
LEMMA CleansOther ==
  ASSUME IInv, NEW t \in App, NEW d \in Fd, Closing(t, d), NEW k \in Stack,
         stk[k].pc \in {"clean", "close_fn"},
         pc[t] = "close" \/ Head(rpc_queue[k]) # t
  PROVE  stk[k].fd # d
<1>1. PICK u : u = Head(rpc_queue[k])
  OBVIOUS
<1>2. rpc_queue[k] # << >> /\ Closes(u) /\ stk[k].fd = call[u].cur
  BY <1>1 DEF IInv, WorkShape
<1>3. u \in App
  BY <1>1, <1>2 DEF IInv, VarShape
<1>4. pc[u] = "sent"
  BY <1>1, <1>2, <1>3, Served
<1>5. stk[k].fd = d => Closing(u, d)
  BY <1>2, <1>4 DEF Closing
<1>6. Closing(u, d) => u = t
  BY <1>3, ClosingAlone
<1> QED
  BY <1>1, <1>4, <1>5, <1>6

(* Two stacks do not serve the same call. *)
LEMMA HeadsApart ==
  ASSUME IInv, NEW k \in Stack, rpc_queue[k] # << >>, NEW j \in Stack \ {k},
         rpc_queue[j] # << >>
  PROVE  Head(rpc_queue[j]) \in App /\ Head(rpc_queue[j]) # Head(rpc_queue[k])
<1>1. rpc_queue \in [Stack -> Seq(App)]
  BY DEF IInv, VarShape
<1>2. /\ 1 \in DOMAIN rpc_queue[j] /\ 1 \in DOMAIN rpc_queue[k]
      /\ Head(rpc_queue[j]) = rpc_queue[j][1] /\ Head(rpc_queue[k]) = rpc_queue[k][1]
      /\ rpc_queue[j][1] \in App
  BY <1>1
<1> QED
  BY <1>2 DEF IInv, QueueShape

(* The socket d that a call of t closes goes, step by step. *)
LEMMA Cut ==
  ASSUME IInv, NEW t \in App, NEW d \in Fd, Closing(t, d),
         ~Live(d)', sock'[d].listen_next \in {No, sock[d].listen_next},
         sock'[d].head = sock[d].head \/ sock'[d].listen_next = No,
         sock'[d].kind = sock[d].kind \/ sock'[d].listen_next = No,
         \A x \in Fd \ {d} : KeepsSlot(x) /\ KeepsConn(x), owner' = owner,
         \A k \in Stack, x \in Fd : Accepting(k, x)' <=> Accepting(k, x),
         \A u \in App \ {t} : Role(u)' = Role(u),
         \/ pc[t] = "sent" /\ Role(t)' = Role(t) /\ sock'[d].open
         \/ /\ pc[t] = "sent" /\ pc'[t] = "ret" /\ Closes(t)' /\ ~sock'[d].open
            /\ call'[t].next = call[t].next /\ sock'[d].listen_next = No
         \/ /\ pc[t] = "close" /\ pc'[t] = "idle" /\ ~Closes(t)' /\ ~sock'[d].open
            /\ sock[d].listen_next = No
  PROVE  /\ \A x \in Fd : ListsShape(x)'
         /\ \A u \in App : Undisturbed(u)
<1>1. /\ owner[d] = No /\ sock[d].open
      /\ \A u \in App : ~Given(u, d) /\ ~NextOf(u, d) /\ (Closing(u, d) => u = t)
      /\ \A k \in Stack : ~Accepting(k, d)
      /\ \A z \in Fd : sock[z].listen_next # d
      /\ \A x \in Fd \ {d} : d \notin Reach(x)
  BY ClosingAlone
<1>2. ASSUME NEW x \in Fd \ {d} PROVE Reach(x)' = Reach(x)
  <2>1. \A y \in Reach(x) : sock'[y].listen_next = sock[y].listen_next
    BY <1>1, ReachSelf DEF KeepsSlot
  <2> QED
    BY <2>1, ReachSame DEF IInv
<1>3. call[t].cur = d /\ Closes(t)
  BY DEF Closing
<1>4. ASSUME NEW u \in App, NEW x \in Fd
      PROVE  /\ Given(u, x)' <=> Given(u, x)
             /\ Closing(u, x)' => Closing(u, x) /\ pc'[u] = pc[u]
             /\ Closing(u, x) => Closing(u, x)' \/ (u = t /\ x = d /\ ~sock'[d].open)
             /\ NextOf(u, x)' <=> NextOf(u, x)
  <2>1. CASE Role(u)' = Role(u)
    BY <2>1 DEF Role, Given, Closing, NextOf, Closes
  <2>2. CASE u = t /\ Role(t)' # Role(t)
    BY <2>2, <1>3 DEF Given, Closing, NextOf, Closes
  <2> QED
    BY <2>1, <2>2
<1>5. ASSUME NEW u \in App, NEW x \in Fd \ {d}, Doomed(u, x) PROVE Doomed(u, x)'
  <2>1. Closes(u) => call[u].cur \in Fd /\ call[u].next \in Fd \cup {No}
    BY DEF IInv, StageShape, VarShape, CallRec
  <2>2. Closes(u) /\ pc[u] \in {"sent", "ret"} => call[u].next # d
    BY <1>1 DEF NextOf
  <2>3. CASE u = t
    <3>1. pc[t] = "close" => x \notin Reach(d)
      BY ReachStep, Consts DEF IInv
    <3>2. pc[t] = "sent" /\ call[t].next # No /\ x \in Reach(call[t].next)
      BY <3>1, <2>3, <1>3, <1>5 DEF Doomed
    <3>3. call'[t].next = call[t].next /\ pc'[t] \in {"sent", "ret"} /\ Closes(t)'
      BY <3>2, <1>3 DEF Role, Closes
    <3>4. PICK y \in Fd : y = call[t].next
      BY <3>2, <2>1, <2>3, <1>3
    <3>5. x \in Reach(y)'
      BY <3>2, <3>4, <2>2, <2>3, <1>2, <1>3
    <3> QED
      BY <2>3, <3>2, <3>3, <3>4, <3>5 DEF Doomed
  <2>4. CASE u # t
    <3>1. /\ pc'[u] = pc[u] /\ call'[u].cur = call[u].cur /\ call'[u].next = call[u].next
          /\ Closes(u)'
      BY <2>4, <1>5 DEF Role, Closes, Doomed
    <3>2. pc[u] \in {"close", "sent"} => call[u].cur # d
      BY <2>4, <1>1, <1>5 DEF Closing, Doomed
    <3>3. pc[u] = "close" => Reach(call[u].cur)' = Reach(call[u].cur)
      BY <2>1, <3>1, <3>2, <1>2, <1>5 DEF Doomed
    <3>4. pc[u] \in {"sent", "ret"} /\ call[u].next # No =>
            Reach(call[u].next)' = Reach(call[u].next)
      BY <2>1, <2>2, <3>1, <1>2, <1>5 DEF Doomed
    <3> QED
      BY <3>1, <3>3, <3>4, <1>5 DEF Doomed
  <2> QED
    BY <2>3, <2>4
<1>6. ASSUME NEW x \in Fd \ {d} PROVE ListsShape(x)'
  <2>1. SlotShape(x) /\ RoleShape(x) /\ LinkShape(x) /\ ListShape(x) /\ OpenShape(x)
        /\ KeepsSlot(x)
    BY DEF IInv
  <2>2. RoleShape(x)'
    BY <2>1, <1>4 DEF RoleShape, KeepsSlot
  <2>3. LinkShape(x)'
    <3>1. CASE sock[x].listen_next = No
      BY <3>1, <2>1 DEF LinkShape, KeepsSlot
    <3>2. CASE sock[x].listen_next # No
      <4>1. PICK y \in Fd : y = sock[x].listen_next
        BY <3>2 DEF IInv, TypeOK
      <4>2. y # d /\ KeepsSlot(y) /\ Reach(y)' = Reach(y)
        BY <4>1, <1>1, <1>2
      <4>3. /\ Live(y) /\ sock[y].head = sock[x].head /\ sock[y].head # y
            /\ \A z \in Fd : sock[z].listen_next = y => z = x
            /\ \A u \in App : ~Closing(u, y) /\ (NextOf(u, y) => Closing(u, x))
            /\ x \notin Reach(y) /\ sock[x].kind # "kernel"
        BY <3>2, <4>1, <2>1 DEF LinkShape
      <4>4. \A z \in Fd : sock'[z].listen_next = y => z = x
        BY <4>1, <4>3, Consts DEF KeepsSlot
      <4>5. \A u \in App : ~Closing(u, y)' /\ (NextOf(u, y)' => Closing(u, x)')
        BY <4>3, <1>4
      <4> QED
        BY <4>1, <4>2, <4>3, <4>4, <4>5, <2>1 DEF LinkShape, KeepsSlot
    <3> QED
      BY <3>1, <3>2
  <2>4. ListShape(x)'
    <3>1. owner'[x] # No => \E y \in Reach(x)' : sock'[y].listen_next = No
      BY <2>1, <1>1, <1>2, ReachSelf DEF ListShape, KeepsSlot
    <3>2. CASE Live(x) /\ sock[x].head # x
      <4>1. PICK h \in Fd : h = sock[x].head
        BY <3>2, <2>1 DEF SlotShape
      <4>2. (owner[h] # No /\ x \in Reach(h)) \/ \E u \in App : Doomed(u, x)
        BY <3>2, <4>1, <2>1 DEF ListShape
      <4>3. (owner'[h] # No /\ x \in Reach(h)') \/ \E u \in App : Doomed(u, x)'
        BY <4>2, <1>1, <1>2, <1>5
      <4>4. sock'[x].head = h
        BY <4>1, <2>1 DEF KeepsSlot
      <4> QED
        BY <3>1, <4>3, <4>4 DEF ListShape
    <3>3. CASE ~(Live(x) /\ sock[x].head # x)
      BY <3>1, <3>3, <2>1 DEF ListShape, KeepsSlot
    <3> QED
      BY <3>2, <3>3
  <2>5. OpenShape(x)'
    BY <2>1, <1>4 DEF OpenShape, KeepsSlot
  <2> QED
    BY <2>2, <2>3, <2>4, <2>5 DEF ListsShape
<1>7. ListsShape(d)'
  <2>1. SlotShape(d) /\ RoleShape(d) /\ LinkShape(d)
    BY DEF IInv
  <2>2. \A u \in App : Closing(u, d)' => sock'[d].open /\ pc'[u] = "sent"
    <3> SUFFICES ASSUME NEW u \in App, Closing(u, d)'
                 PROVE  sock'[d].open /\ pc'[u] = "sent"
      OBVIOUS
    <3>1. u = t /\ pc'[t] = pc[t]
      BY <1>1, <1>4
    <3> QED
      BY <3>1
  <2>3. RoleShape(d)'
    BY <2>2, <1>1, <1>4 DEF RoleShape
  <2>4. LinkShape(d)'
    <3>1. CASE sock'[d].listen_next = No
      BY <3>1 DEF LinkShape
    <3>2. CASE sock'[d].listen_next # No
      <4>1. PICK y \in Fd : y = sock[d].listen_next /\ sock'[d].listen_next = y
        BY <3>2 DEF IInv, TypeOK
      <4>2. y # d /\ KeepsSlot(y) /\ Reach(y)' = Reach(y)
        BY <4>1, <1>1, <1>2
      <4>3. /\ Live(y) /\ sock[y].head = sock[d].head /\ sock[y].head # y
            /\ \A z \in Fd : sock[z].listen_next = y => z = d
            /\ \A u \in App : ~Closing(u, y) /\ (NextOf(u, y) => Closing(u, d))
            /\ d \notin Reach(y) /\ sock[d].kind # "kernel"
        BY <3>2, <4>1, <2>1 DEF LinkShape
      <4>4. sock'[d].open
        BY <3>2, <4>1, Consts
      <4>5. \A u \in App : ~Closing(u, y)' /\ (NextOf(u, y)' => Closing(u, d)')
        BY <4>3, <4>4, <1>4
      <4>6. \A z \in Fd : sock'[z].listen_next = y => z = d
        BY <4>1, <4>3 DEF KeepsSlot
      <4> QED
        BY <3>2, <4>1, <4>2, <4>3, <4>5, <4>6 DEF LinkShape, KeepsSlot
    <3> QED
      BY <3>1, <3>2
  <2>5. ListShape(d)'
    BY <1>1 DEF ListShape
  <2>6. OpenShape(d)'
    BY <1>4 DEF OpenShape
  <2> QED
    BY <2>3, <2>4, <2>5, <2>6 DEF ListsShape
<1>8. \A u \in App : Undisturbed(u)
  BY <1>1, <1>2, Consts DEF Undisturbed, KeepsSlot
<1> QED
  BY <1>6, <1>7, <1>8

LEMMA CloseKernelInv ==
  ASSUME IInv, NEW t \in App, CloseKernel(t)
  PROVE  IInv'
<1>1. /\ pc[t] = "close" /\ get_socket(call[t].cur) = No
      /\ sock' = [sock EXCEPT ![call[t].cur] = FreeSock] /\ Return(t)
      /\ UNCHANGED <<cfg, counts, rpc_queue, stk, owner, served>>
  BY DEF CloseKernel, history
<1>2. PICK d \in Fd : d = call[t].cur /\ Closing(t, d)
  BY <1>1 DEF IInv, StageShape, Closing
<1>3. ~Live(d)
  BY <1>1, <1>2, Consts DEF get_socket, Live
<1>4. sock[d].listen_next = No
  BY <1>1, <1>2, <1>3 DEF IInv, RoleShape, LinkShape
<1>5. /\ sock' \in [Fd -> SockRec] /\ sock'[d] = FreeSock
      /\ \A x \in Fd \ {d} : sock'[x] = sock[x] /\ KeepsSlot(x) /\ KeepsConn(x)
  BY <1>1, <1>2, FreeSockIs, OneSlot
<1>6. /\ pc'[t] = "idle" /\ call'[t] = NoCall
      /\ \A u \in App \ {t} : pc'[u] = pc[u] /\ call'[u] = call[u]
  BY <1>1 DEF IInv, VarShape, Return
<1>7. VarShape' /\ TypeOK'
  BY <1>1, <1>5, NoCallType DEF IInv, VarShape, TypeOK, SockRec, counts, Return
<1>8. ~Closes(t)' /\ \A u \in App \ {t} : Role(u)' = Role(u)
  BY <1>6 DEF Closes, NoCall, Role
<1>9. ~FreeSock.open /\ FreeSock.listen_next = No /\ FreeSock.type = "none"
  BY DEF FreeSock
<1>10. ~sock'[d].open /\ sock'[d].listen_next = No /\ ~Live(d)'
  BY <1>5, <1>9 DEF Live
<1>11. \A k \in Stack, x \in Fd : Accepting(k, x)' <=> Accepting(k, x)
  BY <1>1 DEF Accepting
<1>12. /\ \A x \in Fd : ListsShape(x)'
       /\ \A u \in App : Undisturbed(u)
  BY <1>1, <1>2, <1>4, <1>5, <1>6, <1>8, <1>10, <1>11, Cut
<1>13. SlotShape(d)'
  BY <1>5, FreeSockIs DEF SlotShape, Live
<1>14. \A x \in Fd : SlotShape(x)'
  <2>1. call[t].op # "connect"
    BY <1>2 DEF Closing, Closes
  <2> QED
    BY <1>5, <1>6, <1>13, <2>1, SlotKept DEF SameCall
<1>15. \A k \in Stack : CleansOn(k)
  <2> SUFFICES ASSUME NEW k \in Stack, stk[k].pc \in {"clean", "close_fn"}
               PROVE  sock'[stk[k].fd] = sock[stk[k].fd]
    BY DEF CleansOn
  <2>1. stk[k].fd \in Fd
    BY DEF IInv, WorkShape
  <2>2. stk[k].fd # d
    BY <1>1, <1>2, CleansOther
  <2> QED
    BY <1>5, <2>1, <2>2
<1>16. StageShape(t)' /\ UseShape(t)'
  BY <1>6 DEF StageShape, UseShape, Closes, NoCall
<1> QED
  BY <1>1, <1>6, <1>7, <1>12, <1>14, <1>15, <1>16, AppFrame

LEMMA StackCloseInv ==
  ASSUME IInv, NEW k \in Stack, NEW t \in App, StackClose(k, t)
  PROVE  IInv'
<1>1. /\ stk[k] = NoWork /\ rpc_queue[k] # << >> /\ t = Head(rpc_queue[k])
      /\ call[t].f = "close" /\ Closes(t) /\ pc[t] = "sent"
  BY RunsFor DEF StackClose
<1>2. UNCHANGED <<cfg, counts, rpc_queue, pc, call, owner, served>>
  BY DEF StackClose, history
<1>3. PICK d \in Fd : d = call[t].cur /\ Closing(t, d)
  BY <1>1 DEF IInv, StageShape, Closing
<1> DEFINE r == [sock[d] EXCEPT !.type = "none", !.state = "CLOSED",
                                !.queue = 0, !.kernel = FALSE]
<1>4. sock' = [sock EXCEPT ![d] = r]
  <2>1. sock' = [sock EXCEPT ![d].type = "none", ![d].state = "CLOSED",
                             ![d].queue = 0, ![d].kernel = FALSE]
    BY <1>3 DEF StackClose
  <2>2. sock \in [Fd -> SockRec]
    BY DEF IInv, TypeOK, SockRec
  <2> QED
    BY <2>1, <2>2
<1>5. /\ r \in SockRec /\ r.type = "none" /\ r.state = "CLOSED" /\ r.queue = 0 /\ ~r.kernel
      /\ r.open = sock[d].open /\ r.kind = sock[d].kind /\ r.stack = sock[d].stack
      /\ r.head = sock[d].head /\ r.listen_next = sock[d].listen_next
  <2>1. sock[d] \in SockRec
    BY SockTypes
  <2>2. 0 \in 0..MaxQueue
    BY SocketsAssumption
  <2> QED
    BY <2>1, <2>2 DEF SockRec
<1> HIDE DEF r
<1>6. /\ sock' \in [Fd -> SockRec] /\ sock'[d] = r
      /\ \A x \in Fd \ {d} : sock'[x] = sock[x] /\ KeepsSlot(x) /\ KeepsConn(x)
  BY <1>4, <1>5, OneSlot
<1>7. sock[d].open
  BY <1>3, ClosingAlone
<1>8. /\ stk' = [stk EXCEPT ![k] = [pc |-> "clean", fd |-> d, tmp |-> conn_num[k]]]
      /\ stk'[k] = [pc |-> "clean", fd |-> d, tmp |-> conn_num[k]]
      /\ \A j \in Stack \ {k} : stk'[j] = stk[j]
  BY <1>3 DEF StackClose, IInv, VarShape
<1>9. VarShape'
  <2>1. conn_num[k] \in 0..(ConnMod - 1)
    BY DEF IInv, TypeOK
  <2> QED
    BY <1>2, <1>8, <2>1 DEF IInv, VarShape
<1>10. TypeOK'
  BY <1>2, <1>6 DEF IInv, TypeOK, SockRec, counts
<1>11. \A j \in Stack, x \in Fd : Accepting(j, x)' <=> Accepting(j, x)
  <2>1. stk[k].pc = "poll" /\ stk'[k].pc = "clean"
    BY <1>1, <1>8 DEF NoWork
  <2> QED
    BY <2>1, <1>8 DEF Accepting
<1>12. \A u \in App : Role(u)' = Role(u) /\ SameCall(u)
  BY <1>2 DEF Role, SameCall
<1>13. /\ ~Live(d)' /\ sock'[d].open /\ sock'[d].listen_next = sock[d].listen_next
       /\ sock'[d].head = sock[d].head /\ sock'[d].kind = sock[d].kind
  BY <1>5, <1>6, <1>7 DEF Live
<1>14. /\ \A x \in Fd : ListsShape(x)'
       /\ \A u \in App : Undisturbed(u)
  BY <1>1, <1>2, <1>3, <1>6, <1>11, <1>12, <1>13, Cut
<1>15. SlotShape(d)'
  BY <1>5, <1>6, <1>13 DEF SlotShape, Live
<1>16. \A x \in Fd : SlotShape(x)'
  BY <1>6, <1>12, <1>15, SlotKept
<1>17. WorkShape(k)'
  <2>1. /\ stk'[k].pc = "clean" /\ stk'[k].fd = d /\ rpc_queue'[k] # << >>
        /\ Head(rpc_queue'[k]) = t /\ Closes(t)' /\ call'[t].cur = d
    BY <1>1, <1>2, <1>3, <1>8 DEF Closes
  <2> QED
    BY <2>1, <1>13 DEF WorkShape
<1>18. ASSUME NEW j \in Stack \ {k} PROVE WorkShape(j)'
  <2>1. stk[j].pc # "poll" => rpc_queue[j] # << >> /\ stk[j].fd \in Fd
    BY DEF IInv, WorkShape
  <2>2. rpc_queue[j] # << >> => Head(rpc_queue[j]) \in App /\ Head(rpc_queue[j]) # t
    BY <1>1, HeadsApart
  <2>3. stk[j].pc \in {"clean", "close_fn"} => stk[j].fd # d
    BY <1>3, <2>1, <2>2, CleansOther
  <2>4. stk[j].pc \in {"clean", "close_fn"} => sock'[stk[j].fd] = sock[stk[j].fd]
    BY <2>1, <2>3, <1>6
  <2> QED
    BY <2>1, <2>2, <2>4, <1>2, <1>8, <1>12, WorkKept
<1> QED
  BY <1>2, <1>9, <1>10, <1>12, <1>14, <1>16, <1>17, <1>18, SilentFrame

(* The stack that is in the middle of a close. *)
LEMMA CleansFor ==
  ASSUME IInv, NEW k \in Stack, stk[k].pc \in {"clean", "close_fn"}
  PROVE  \E t \in App, d \in Fd :
           /\ rpc_queue[k] # << >> /\ t = Head(rpc_queue[k]) /\ pc[t] = "sent"
           /\ d = stk[k].fd /\ d = call[t].cur /\ Closing(t, d) /\ ~Live(d) /\ sock[d].open
<1>1. PICK t : t = Head(rpc_queue[k])
  OBVIOUS
<1>2. /\ rpc_queue[k] # << >> /\ Closes(t) /\ stk[k].fd = call[t].cur /\ stk[k].fd \in Fd
      /\ ~Live(stk[k].fd) /\ sock[stk[k].fd].open
  BY <1>1 DEF IInv, WorkShape
<1>3. t \in App
  BY <1>1, <1>2 DEF IInv, VarShape
<1>4. pc[t] = "sent"
  BY <1>1, <1>2, <1>3, Served
<1> QED
  BY <1>1, <1>2, <1>3, <1>4 DEF Closing

LEMMA CleanSockInv ==
  ASSUME IInv, NEW k \in Stack, CleanSock(k)
  PROVE  IInv'
<1>1. stk[k].pc = "clean"
  BY DEF CleanSock
<1>2. UNCHANGED <<cfg, bind_stack, stack_index, socket_lock, rpc_queue, pc, call, owner, served>>
  BY DEF CleanSock, history
<1>3. PICK t \in App, d \in Fd :
        /\ rpc_queue[k] # << >> /\ t = Head(rpc_queue[k]) /\ pc[t] = "sent"
        /\ d = stk[k].fd /\ d = call[t].cur /\ Closing(t, d) /\ ~Live(d) /\ sock[d].open
  BY <1>1, CleansFor
<1> DEFINE r == [FreeSock EXCEPT !.open = TRUE]
<1>4. sock' = [sock EXCEPT ![d] = r]
  <2>1. sock[d].open = TRUE /\ sock[d].type = "none"
    BY <1>3 DEF Live, IInv, TypeOK
  <2>2. sock' = [sock EXCEPT ![d] = [FreeSock EXCEPT !.open = TRUE, !.type = "none"]]
    BY <1>3, <2>1 DEF CleanSock
  <2>3. [FreeSock EXCEPT !.open = TRUE, !.type = "none"] = r
    BY FreeSockIs, SameRecord, Zenon
  <2> QED
    BY <2>2, <2>3
<1>5. /\ r \in SockRec /\ r.type = "none" /\ r.state = "CLOSED" /\ r.queue = 0 /\ ~r.kernel
      /\ r.open /\ r.listen_next = No
  BY FreeSockIs DEF SockRec
<1> HIDE DEF r
<1>6. /\ sock' \in [Fd -> SockRec] /\ sock'[d] = r
      /\ \A x \in Fd \ {d} : sock'[x] = sock[x] /\ KeepsSlot(x) /\ KeepsConn(x)
  BY <1>4, <1>5, OneSlot
<1>7. /\ stk' \in [Stack -> [pc : {"poll", "accept", "clean", "close_fn"},
                             fd : Fd \cup {No}, tmp : 0..(ConnMod - 1)]]
      /\ stk'[k].pc = "close_fn" /\ stk'[k].fd = d
      /\ \A j \in Stack \ {k} : stk'[j] = stk[j]
  <2>1. stk \in [Stack -> [pc : {"poll", "accept", "clean", "close_fn"},
                           fd : Fd \cup {No}, tmp : 0..(ConnMod - 1)]]
    BY DEF IInv, VarShape
  <2>2. 0 \in 0..(ConnMod - 1)
    BY SocketsAssumption
  <2>3. stk' = [stk EXCEPT ![k].pc = "close_fn", ![k].tmp = 0]
    BY DEF CleanSock
  <2> QED
    BY <2>1, <2>2, <2>3, <1>3
<1>8. VarShape'
  BY <1>2, <1>7 DEF IInv, VarShape
<1>9. TypeOK'
  <2>1. stk[k].tmp \in Int
    BY DEF IInv, VarShape
  <2>2. (stk[k].tmp + ConnMod - 1) % ConnMod \in 0..(ConnMod - 1)
    BY <2>1, SocketsAssumption
  <2>3. conn_num' \in [Stack -> 0..(ConnMod - 1)]
    BY <2>2 DEF CleanSock, IInv, TypeOK
  <2> QED
    BY <1>2, <1>6, <2>3 DEF IInv, TypeOK, SockRec
<1>10. \A j \in Stack, x \in Fd : Accepting(j, x)' <=> Accepting(j, x)
  BY <1>1, <1>7 DEF Accepting
<1>11. \A u \in App : Role(u)' = Role(u) /\ SameCall(u)
  BY <1>2 DEF Role, SameCall
<1>12. ~Live(d)' /\ sock'[d].open /\ sock'[d].listen_next = No
  BY <1>5, <1>6 DEF Live
<1>13. /\ \A x \in Fd : ListsShape(x)'
       /\ \A u \in App : Undisturbed(u)
  BY <1>2, <1>3, <1>6, <1>10, <1>11, <1>12, Cut
<1>14. SlotShape(d)'
  BY <1>5, <1>6, <1>12 DEF SlotShape, Live
<1>15. \A x \in Fd : SlotShape(x)'
  BY <1>6, <1>11, <1>14, SlotKept
<1>16. WorkShape(k)'
  <2>1. /\ rpc_queue'[k] # << >> /\ Head(rpc_queue'[k]) = t /\ Closes(t)' /\ call'[t].cur = d
    BY <1>2, <1>3 DEF Closes, Closing
  <2>2. sock'[d] = [FreeSock EXCEPT !.open = TRUE]
    BY <1>6 DEF r
  <2> QED
    BY <2>1, <2>2, <1>7, <1>12 DEF WorkShape
<1>17. ASSUME NEW j \in Stack \ {k} PROVE WorkShape(j)'
  <2>1. stk[j].pc # "poll" => rpc_queue[j] # << >> /\ stk[j].fd \in Fd
    BY DEF IInv, WorkShape
  <2>2. rpc_queue[j] # << >> => Head(rpc_queue[j]) \in App /\ Head(rpc_queue[j]) # t
    BY <1>3, HeadsApart
  <2>3. stk[j].pc \in {"clean", "close_fn"} => stk[j].fd # d
    BY <1>3, <2>1, <2>2, CleansOther
  <2>4. stk[j].pc \in {"clean", "close_fn"} => sock'[stk[j].fd] = sock[stk[j].fd]
    BY <2>1, <2>3, <1>6
  <2> QED
    BY <2>1, <2>2, <2>4, <1>2, <1>7, <1>11, WorkKept
<1> QED
  BY <1>2, <1>8, <1>9, <1>11, <1>13, <1>15, <1>16, <1>17, SilentFrame

LEMMA CloseFnInv ==
  ASSUME IInv, NEW k \in Stack, NEW t \in App, CloseFn(k, t)
  PROVE  IInv'
<1>1. stk[k].pc = "close_fn" /\ t = Head(rpc_queue[k]) /\ Reply(k, t, 0)
  BY DEF CloseFn
<1>2. UNCHANGED <<cfg, counts, owner, served>>
  BY DEF CloseFn, history
<1>3. PICK d \in Fd :
        /\ rpc_queue[k] # << >> /\ pc[t] = "sent"
        /\ d = stk[k].fd /\ d = call[t].cur /\ Closing(t, d) /\ ~Live(d) /\ sock[d].open
  BY <1>1, CleansFor
<1>4. sock[d] = [FreeSock EXCEPT !.open = TRUE]
  BY <1>1, <1>3 DEF IInv, WorkShape
<1>5. sock' = [sock EXCEPT ![d] = FreeSock]
  <2>1. sock' = [sock EXCEPT ![d] = [sock[d] EXCEPT !.open = FALSE]]
    BY <1>3 DEF CloseFn
  <2>2. [[FreeSock EXCEPT !.open = TRUE] EXCEPT !.open = FALSE] = FreeSock
    <3>1. FreeSock.open = FALSE
      BY DEF FreeSock
    <3> QED
      BY <3>1, FreeSockIs, SameRecord, Zenon
  <2> QED
    BY <2>1, <2>2, <1>4
<1>6. /\ sock' \in [Fd -> SockRec] /\ sock'[d] = FreeSock
      /\ \A x \in Fd \ {d} : sock'[x] = sock[x] /\ KeepsSlot(x) /\ KeepsConn(x)
  BY <1>5, FreeSockIs, OneSlot
<1>7. ~FreeSock.open /\ FreeSock.listen_next = No /\ FreeSock.type = "none"
  BY DEF FreeSock
<1>8. ~sock'[d].open /\ sock'[d].listen_next = No /\ ~Live(d)'
  BY <1>6, <1>7 DEF Live
<1>9. /\ pc' = [pc EXCEPT ![t] = "ret"] /\ call' \in [App -> CallRec] /\ Answered(t, 0)
      /\ \A u \in App \ {t} : SameCall(u)
      /\ rpc_queue' = [rpc_queue EXCEPT ![k] = Tail(@)]
      /\ rpc_queue' \in [Stack -> Seq(App)]
  <2>1. 0 \in Int
    OBVIOUS
  <2> QED
    BY <1>1, <1>3, <2>1, Replied
<1>10. /\ stk' = [stk EXCEPT ![k] = NoWork] /\ stk'[k] = NoWork
       /\ \A j \in Stack \ {k} : stk'[j] = stk[j]
  BY DEF CloseFn, IInv, VarShape
<1>11. NoWork \in [pc : {"poll", "accept", "clean", "close_fn"},
                   fd : Fd \cup {No}, tmp : 0..(ConnMod - 1)] /\ NoWork.pc = "poll"
  BY SocketsAssumption DEF NoWork
<1>12. VarShape' /\ pc'[t] = "ret"
  BY <1>9, <1>10, <1>11 DEF IInv, VarShape
<1>13. TypeOK'
  BY <1>2, <1>6 DEF IInv, TypeOK, SockRec, counts
<1>14. \A j \in Stack, x \in Fd : Accepting(j, x)' <=> Accepting(j, x)
  BY <1>1, <1>10, <1>11 DEF Accepting
<1>15. Closes(t) /\ Closes(t)' /\ call'[t].next = call[t].next
  BY <1>3, <1>9 DEF Closing, Closes, Answered
<1>16. \A u \in App \ {t} : Role(u)' = Role(u)
  BY <1>9, SameFields DEF Role
<1>17. /\ \A x \in Fd : ListsShape(x)'
       /\ \A u \in App : Undisturbed(u)
  BY <1>2, <1>3, <1>6, <1>8, <1>12, <1>14, <1>15, <1>16, Cut
<1>18. SlotShape(d)'
  BY <1>6, FreeSockIs DEF SlotShape, Live
<1>19. \A x \in Fd : SlotShape(x)'
  BY <1>6, <1>9, <1>15, <1>18, SlotKept DEF Closes
<1>20. ASSUME NEW j \in Stack \ {k} PROVE CleansOn(j)
  <2> SUFFICES ASSUME stk[j].pc \in {"clean", "close_fn"}
               PROVE  sock'[stk[j].fd] = sock[stk[j].fd]
    BY DEF CleansOn
  <2>1. rpc_queue[j] # << >> /\ stk[j].fd \in Fd
    BY DEF IInv, WorkShape
  <2>2. stk[j].fd # d
    BY <1>1, <1>3, <2>1, HeadsApart, CleansOther, SMTT(30)
  <2> QED
    BY <1>6, <2>1, <2>2
<1>21. StageShape(t)'
  BY <1>3, <1>9, <1>12, <1>15, Served, <1>1 DEF StageShape, Answered, Closes
<1>22. UseShape(t)'
  BY <1>15 DEF UseShape, Closes
<1> QED
  BY <1>1, <1>2, <1>3, <1>9, <1>10, <1>12, <1>13, <1>17, <1>19, <1>20, <1>21, <1>22, StackFrame

(* A call that closes a list goes on: what it has still to close is the     *)
(* same, and the descriptor it holds, or holds next, is the next of the     *)
(* list.                                                                    *)
LEMMA Walks ==
  ASSUME IInv, NEW t \in App, pc[t] \in {"close", "ret"}, Closes(t), sock' = sock,
         owner' = owner, stk' = stk,
         \A u \in App \ {t} : pc'[u] = pc[u] /\ call'[u] = call[u],
         \/ /\ pc[t] = "close" /\ pc'[t] = "sent" /\ Closes(t)'
            /\ call'[t].cur = call[t].cur
            /\ call'[t].next = sock[call[t].cur].listen_next
         \/ /\ pc[t] = "ret" /\ pc'[t] = "close" /\ Closes(t)' /\ call[t].next # No
            /\ call'[t].cur = call[t].next /\ call'[t].next = No
         \/ /\ pc[t] = "ret" /\ pc'[t] = "idle" /\ ~Closes(t)' /\ call[t].next = No
  PROVE  /\ \A x \in Fd : ListsShape(x)' /\ Reach(x)' = Reach(x)
         /\ \A u \in App : Undisturbed(u)
         /\ \A k \in Stack : CleansOn(k)
<1>1. call[t].cur \in Fd /\ call[t].next \in Fd \cup {No}
  BY DEF IInv, StageShape, VarShape, CallRec
<1>2. \A x \in Fd : Reach(x)' = Reach(x) /\ (Live(x)' <=> Live(x))
  BY DEF Reach, Closed, Live
<1>3. PICK d \in Fd : d = call[t].cur
  BY <1>1
<1>4. ASSUME NEW u \in App, NEW x \in Fd
      PROVE  /\ Given(u, x)' <=> Given(u, x)
             /\ u # t => /\ Closing(u, x)' <=> Closing(u, x)
                         /\ NextOf(u, x)' <=> NextOf(u, x)
                         /\ pc'[u] = pc[u]
  BY DEF Given, Closing, NextOf, Closes
<1>5. \A k \in Stack, x \in Fd : Accepting(k, x)' <=> Accepting(k, x)
  BY DEF Accepting
<1>6. ASSUME NEW u \in App, NEW x \in Fd, Doomed(u, x) PROVE Doomed(u, x)'
  <2>1. CASE u = t /\ pc[t] = "close"
    <3>1. x \in Reach(d)
      BY <2>1, <1>3, <1>6 DEF Doomed
    <3>2. /\ pc'[t] = "sent" /\ call'[t].cur = d /\ Closes(t)'
          /\ call'[t].next = sock[d].listen_next
      BY <2>1, <1>3
    <3>3. CASE x = d
      BY <2>1, <3>2, <3>3 DEF Doomed
    <3>4. CASE x # d
      <4>1. sock[d].listen_next \in Fd /\ x \in Reach(sock[d].listen_next)
        BY <3>1, <3>4, ReachStep DEF IInv
      <4>2. PICK y \in Fd : y = sock[d].listen_next
        BY <4>1
      <4>3. x \in Reach(y)' /\ call'[t].next = y /\ y # No
        BY <4>1, <4>2, <3>2, <1>2, Consts
      <4> QED
        BY <2>1, <3>2, <4>3 DEF Doomed
    <3> QED
      BY <3>3, <3>4
  <2>2. CASE u = t /\ pc[t] = "ret"
    <3>1. PICK y \in Fd : y = call[t].next /\ x \in Reach(y)
      BY <2>2, <1>1, <1>6 DEF Doomed
    <3>2. pc'[t] = "close" /\ Closes(t)' /\ call'[t].cur = y
      BY <2>2, <3>1, Consts
    <3>3. x \in Reach(y)'
      BY <3>1, <1>2
    <3> QED
      BY <2>2, <3>2, <3>3 DEF Doomed
  <2>3. CASE u # t
    <3>1. Closes(u) => call[u].cur \in Fd /\ call[u].next \in Fd \cup {No}
      BY DEF IInv, StageShape, VarShape, CallRec
    <3>2. pc'[u] = pc[u] /\ call'[u] = call[u] /\ (Closes(u)' <=> Closes(u))
      BY <2>3 DEF Closes
    <3> QED
      BY <3>1, <3>2, <1>2, <1>6 DEF Doomed
  <2> QED
    BY <2>1, <2>2, <2>3
<1>7. ASSUME NEW x \in Fd, NextOf(t, x)'
      PROVE  Closing(t, d) /\ Closing(t, d)' /\ sock[d].listen_next = x
  BY <1>3, <1>7, Consts DEF Closing, NextOf, Closes
<1>8. ASSUME NEW x \in Fd, Closing(t, x)', ~Closing(t, x)
      PROVE  /\ NextOf(t, x) /\ pc[t] = "ret"
             /\ Live(x) /\ sock[x].head # x /\ sock[x].open /\ owner[x] = No
             /\ \A u \in App : ~Closing(u, x) /\ ~Given(u, x)
             /\ \A k \in Stack : ~Accepting(k, x)
             /\ \A z \in Fd : sock[z].listen_next # x
  <2>1. NextOf(t, x) /\ pc[t] = "ret"
    BY <1>8 DEF Closing, NextOf, Closes
  <2>2. RoleShape(x) /\ SlotShape(x)
    BY DEF IInv
  <2>3. Live(x) /\ sock[x].head # x /\ \A u \in App : ~Closing(u, x)
    BY <2>1, <2>2 DEF RoleShape
  <2>4. owner[x] = No /\ (\A u \in App : ~Given(u, x)) /\ \A k \in Stack : ~Accepting(k, x)
    BY <2>2, <2>3 DEF RoleShape
  <2>5. sock[x].open
    BY <2>2, <2>3 DEF SlotShape
  <2>6. ASSUME NEW z \in Fd, sock[z].listen_next = x PROVE FALSE
    <3>1. Closing(t, z)
      BY <2>1, <2>6, Consts DEF IInv, LinkShape
    <3> QED
      BY <2>1, <3>1 DEF Closing
  <2> QED
    BY <2>1, <2>3, <2>4, <2>5, <2>6
<1>9. ASSUME NEW x \in Fd, NextOf(t, x)'
       PROVE  /\ Live(x) /\ sock[x].head # x
              /\ \A u \in App \ {t} : ~NextOf(u, x)
              /\ \A u \in App : ~Closing(u, x)
              /\ \A z \in Fd : sock[z].listen_next = x => z = d
  <2>1. Closing(t, d) /\ sock[d].listen_next = x /\ LinkShape(d) /\ RoleShape(d)
    BY <1>7, <1>9 DEF IInv
  <2>2. /\ Live(x) /\ sock[x].head # x
        /\ \A z \in Fd : sock[z].listen_next = x => z = d
        /\ \A u \in App : ~Closing(u, x) /\ (NextOf(u, x) => Closing(u, d))
    BY <2>1, Consts DEF LinkShape
  <2>3. \A u \in App : Closing(u, d) => u = t
    BY <2>1 DEF RoleShape
  <2> QED
    BY <2>2, <2>3
<1>10. ASSUME NEW x \in Fd PROVE ListsShape(x)'
  <2>1. SlotShape(x) /\ RoleShape(x) /\ LinkShape(x) /\ ListShape(x) /\ OpenShape(x)
    BY DEF IInv
  <2>2. RoleShape(x)'
    <3>1. owner[x] # No => /\ \A u \in App : ~Given(u, x)' /\ ~Closing(u, x)'
                           /\ \A k \in Stack : ~Accepting(k, x)'
      BY <2>1, <1>4, <1>5, <1>8 DEF RoleShape
    <3>2. \A u \in App : Given(u, x)' =>
            /\ Live(x) /\ sock[x].head = x /\ sock[x].listen_next = No
            /\ \A v \in App : (Given(v, x)' => v = u) /\ ~Closing(v, x)'
            /\ \A k \in Stack : ~Accepting(k, x)'
      BY <2>1, <1>4, <1>5, <1>8 DEF RoleShape
    <3>3. \A k \in Stack : Accepting(k, x)' =>
            /\ Live(x) /\ sock[x].head = x /\ sock[x].listen_next = No
            /\ \A j \in Stack : Accepting(j, x)' => j = k
            /\ \A u \in App : ~Closing(u, x)'
      BY <2>1, <1>4, <1>5, <1>8 DEF RoleShape
    <3>4. \A u \in App : Closing(u, x)' =>
            /\ sock[x].open /\ (pc'[u] = "close" => Live(x) \/ sock[x].kind = "kernel")
            /\ \A v \in App : Closing(v, x)' => v = u
      <4> SUFFICES ASSUME NEW u \in App, Closing(u, x)'
                   PROVE  /\ sock[x].open
                          /\ (pc'[u] = "close" => Live(x) \/ sock[x].kind = "kernel")
                          /\ \A v \in App : Closing(v, x)' => v = u
        OBVIOUS
      <4>1. CASE Closing(t, x)' /\ ~Closing(t, x)
        BY <4>1, <1>4, <1>8
      <4>2. CASE Closing(t, x) /\ Closing(t, x)'
        <5>1. pc[t] = "close"
          BY <4>2 DEF Closing
        <5>2. \A v \in App : Closing(v, x) => v = t
          BY <4>2, <2>1 DEF RoleShape
        <5> QED
          BY <5>1, <5>2, <4>2, <2>1, <1>4 DEF RoleShape
      <4>3. CASE ~Closing(t, x)'
        BY <4>3, <2>1, <1>4 DEF RoleShape
      <4> QED
        BY <4>1, <4>2, <4>3
    <3>5. \A u \in App : NextOf(u, x)' =>
            /\ Live(x) /\ sock[x].head # x
            /\ \A v \in App : (NextOf(v, x)' => v = u) /\ ~Closing(v, x)'
      <4>1. CASE NextOf(t, x)'
        <5>1. ~Closing(t, x)'
          BY <4>1, <1>7, <1>8, <1>9
        <5> QED
          BY <4>1, <5>1, <1>4, <1>9
      <4>2. CASE ~NextOf(t, x)'
        <5> SUFFICES ASSUME NEW u \in App, NextOf(u, x)'
                     PROVE  /\ Live(x) /\ sock[x].head # x
                            /\ \A v \in App : (NextOf(v, x)' => v = u) /\ ~Closing(v, x)'
          OBVIOUS
        <5>1. u # t /\ NextOf(u, x)
          BY <4>2, <1>4
        <5>2. ~Closing(t, x)' \/ NextOf(t, x) \/ Closing(t, x)
          BY <1>8
        <5> QED
          BY <4>2, <5>1, <5>2, <2>1, <1>4 DEF RoleShape
      <4> QED
        BY <4>1, <4>2
    <3>6. owner[x] # No =>
            sock[x].open /\ sock[x].head = x /\ (Live(x) \/ sock[x].kind = "kernel")
      BY <2>1 DEF RoleShape
    <3> QED
      BY <3>1, <3>2, <3>3, <3>4, <3>5, <3>6, <1>2 DEF RoleShape
  <2>3. LinkShape(x)'
    <3>1. CASE sock[x].listen_next = No
      BY <3>1 DEF LinkShape
    <3>2. CASE sock[x].listen_next # No
      <4>1. PICK y \in Fd : y = sock[x].listen_next
        BY <3>2 DEF IInv, TypeOK
      <4>2. /\ Live(y) /\ sock[y].head = sock[x].head /\ sock[y].head # y
            /\ \A z \in Fd : sock[z].listen_next = y => z = x
            /\ \A u \in App : ~Closing(u, y) /\ (NextOf(u, y) => Closing(u, x))
            /\ x \notin Reach(y) /\ sock[x].kind # "kernel"
        BY <3>2, <4>1, <2>1 DEF LinkShape
      <4>3. ~Closing(t, y)'
        BY <4>1, <4>2, <1>8
      <4>4. NextOf(t, y)' => Closing(t, x)'
        BY <4>1, <1>7, <1>9
      <4>5. \A u \in App : ~Closing(u, y)' /\ (NextOf(u, y)' => Closing(u, x)')
        BY <4>2, <4>3, <4>4, <1>4
      <4>6. x \notin Reach(y)' /\ Live(y)'
        BY <4>2, <1>2
      <4> QED
        BY <4>1, <4>2, <4>5, <4>6 DEF LinkShape
    <3> QED
      BY <3>1, <3>2
  <2>4. ListShape(x)'
    <3>1. owner'[x] # No => \E y \in Reach(x)' : sock'[y].listen_next = No
      BY <2>1, <1>2 DEF ListShape
    <3>2. CASE Live(x) /\ sock[x].head # x
      <4>1. PICK h \in Fd : h = sock[x].head
        BY <3>2, <2>1 DEF SlotShape
      <4>2. (owner[h] # No /\ x \in Reach(h)) \/ \E u \in App : Doomed(u, x)
        BY <3>2, <4>1, <2>1 DEF ListShape
      <4>3. (owner'[h] # No /\ x \in Reach(h)') \/ \E u \in App : Doomed(u, x)'
        BY <4>2, <1>2, <1>6
      <4> QED
        BY <3>1, <4>1, <4>3 DEF ListShape
    <3>3. CASE ~(Live(x) /\ sock[x].head # x)
      BY <3>1, <3>3, <1>2 DEF ListShape
    <3> QED
      BY <3>2, <3>3
  <2>5. OpenShape(x)'
    <3>1. \A u \in App : Closing(u, x) => Closing(u, x)'
      <4>1. Closing(t, x) => Closing(t, x)'
        BY DEF Closing, Closes
      <4> QED
        BY <4>1, <1>4
    <3> QED
      BY <2>1, <3>1, <1>2, <1>4, <1>5 DEF OpenShape
  <2> QED
    BY <2>2, <2>3, <2>4, <2>5 DEF ListsShape
<1>11. \A u \in App : Undisturbed(u)
  BY <1>2 DEF Undisturbed, KeepsConn
<1>12. \A k \in Stack : CleansOn(k)
  BY DEF CleansOn
<1> QED
  BY <1>2, <1>10, <1>11, <1>12

LEMMA CloseNextInv ==
  ASSUME IInv, NEW t \in App, CloseNext(t)
  PROVE  IInv'
<1>1. /\ pc[t] = "close" /\ get_socket(call[t].cur) # No
      /\ UNCHANGED <<cfg, sock, counts, stk, owner, served>>
  BY DEF CloseNext, history
<1>2. PICK d \in Fd : d = call[t].cur
  BY <1>1 DEF IInv, StageShape
<1>3. Closes(t) /\ Live(d) /\ call[t] \in CallRec
  BY <1>1, <1>2 DEF IInv, StageShape, VarShape, get_socket, Live
<1>4. PICK k \in Stack : k = get_protocol_stack_by_fd(d)
  BY <1>3, StackOf
<1> DEFINE c == [call[t] EXCEPT !.f = "close", !.next = sock[d].listen_next]
<1>5. c \in CallRec /\ c.op = call[t].op /\ c.fd = call[t].fd /\ c.cur = d /\ c.f = "close"
      /\ c.next = sock[d].listen_next
  <2>1. sock[d].listen_next \in Fd \cup {No}
    BY DEF IInv, TypeOK
  <2> QED
    BY <1>2, <1>3, <2>1 DEF CallRec
<1>6. /\ call' = [call EXCEPT ![t] = c] /\ pc' = [pc EXCEPT ![t] = "sent"]
      /\ rpc_queue' = [rpc_queue EXCEPT ![k] = Append(@, t)]
  <2>1. CallStack(t, k, c)
    BY <1>2, <1>4 DEF CloseNext
  <2> QED
    BY <2>1, Consts DEF CallStack
<1> HIDE DEF c
<1>7. /\ pc'[t] = "sent" /\ call'[t] = c
      /\ \A u \in App \ {t} : pc'[u] = pc[u] /\ call'[u] = call[u]
  BY <1>6 DEF IInv, VarShape
<1>8. VarShape' /\ TypeOK'
  <2>1. rpc_queue \in [Stack -> Seq(App)]
    BY DEF IInv, VarShape
  <2>2. rpc_queue' \in [Stack -> Seq(App)]
    BY <1>6, <2>1
  <2> QED
    BY <1>1, <1>5, <1>6, <2>2 DEF IInv, VarShape, TypeOK, counts
<1>9. Closes(t)'
  BY <1>3, <1>5, <1>7 DEF Closes
<1>10. /\ \A x \in Fd : ListsShape(x)'
       /\ \A u \in App : Undisturbed(u)
       /\ \A j \in Stack : CleansOn(j)
  BY <1>1, <1>2, <1>3, <1>5, <1>7, <1>9, Walks
<1>11. \A x \in Fd : SlotShape(x)'
  BY <1>1, <1>3, <1>7, SlotKept DEF SameCall, Closes
<1>12. StageShape(t)'
  <2>1. StageShape(t)
    BY DEF IInv
  <2> QED
    BY <2>1, <1>3, <1>5, <1>7 DEF StageShape, Closes
<1>13. UseShape(t)'
  BY <1>3, <1>5, <1>7 DEF UseShape, Closes
<1> QED
  BY <1>1, <1>6, <1>7, <1>8, <1>10, <1>11, <1>12, <1>13, AppFrame

LEMMA CloseReturnsInv ==
  ASSUME IInv, NEW t \in App, CloseReturns(t)
  PROVE  IInv'
<1>1. /\ pc[t] = "ret" /\ call[t].f = "close"
      /\ UNCHANGED <<cfg, sock, counts, rpc_queue, stk, owner, served>>
  BY DEF CloseReturns, history
<1>2. Closes(t) /\ call[t] \in CallRec
  BY <1>1, RetOp DEF IInv, VarShape
<1>3. call[t].next # No => call[t].next \in Fd /\ Live(call[t].next)
  <2> SUFFICES ASSUME call[t].next # No PROVE call[t].next \in Fd /\ Live(call[t].next)
    OBVIOUS
  <2>1. PICK y \in Fd : y = call[t].next
    BY <1>2 DEF CallRec
  <2>2. NextOf(t, y)
    BY <2>1, <1>1, <1>2 DEF NextOf
  <2> QED
    BY <2>1, <2>2 DEF IInv, RoleShape
<1>4. \A x \in Fd : SlotShape(x)'
  <2>1. \A u \in App : u # t => pc'[u] = pc[u] /\ call'[u] = call[u]
    BY DEF CloseReturns, Return, IInv, VarShape
  <2> QED
    BY <1>1, <1>2, <2>1, SlotKept DEF SameCall, Closes
<1>5. TypeOK'
  BY <1>1 DEF IInv, TypeOK, counts
<1>6. CASE call[t].next = No
  <2>1. Return(t)
    BY <1>6 DEF CloseReturns
  <2>2. /\ pc'[t] = "idle" /\ call'[t] = NoCall
        /\ \A u \in App \ {t} : pc'[u] = pc[u] /\ call'[u] = call[u]
    BY <2>1 DEF IInv, VarShape, Return
  <2>3. VarShape'
    BY <1>1, <2>1, NoCallType DEF IInv, VarShape, Return
  <2>4. ~Closes(t)'
    BY <2>2 DEF Closes, NoCall
  <2>5. /\ \A x \in Fd : ListsShape(x)'
        /\ \A u \in App : Undisturbed(u)
        /\ \A j \in Stack : CleansOn(j)
    BY <1>1, <1>2, <1>6, <2>2, <2>4, Walks
  <2>6. StageShape(t)' /\ UseShape(t)'
    BY <2>2 DEF StageShape, UseShape, Closes, NoCall
  <2> QED
    BY <1>1, <1>4, <1>5, <2>2, <2>3, <2>5, <2>6, AppFrame
<1>7. CASE call[t].next # No
  <2>1. PICK y \in Fd : y = call[t].next /\ Live(y)
    BY <1>3, <1>7
  <2> DEFINE c == [call[t] EXCEPT !.cur = y, !.next = No]
  <2>2. c \in CallRec /\ c.op = call[t].op /\ c.fd = call[t].fd /\ c.cur = y /\ c.next = No
        /\ c.f = call[t].f
    BY <1>2 DEF CallRec
  <2>3. call' = [call EXCEPT ![t] = c] /\ pc' = [pc EXCEPT ![t] = "close"]
    <3>1. get_socket(y) # No
      BY <2>1, Consts DEF get_socket, Live
    <3>2. call' = [call EXCEPT ![t].cur = y, ![t].next = No]
          /\ pc' = [pc EXCEPT ![t] = "close"]
      BY <2>1, <3>1, <1>7 DEF CloseReturns
    <3>3. call \in [App -> CallRec]
      BY DEF IInv, VarShape
    <3> QED
      BY <3>2, <3>3
  <2> HIDE DEF c
  <2>4. /\ pc'[t] = "close" /\ call'[t] = c
        /\ \A u \in App \ {t} : pc'[u] = pc[u] /\ call'[u] = call[u]
    BY <2>3 DEF IInv, VarShape
  <2>5. VarShape'
    BY <1>1, <2>2, <2>3 DEF IInv, VarShape
  <2>6. Closes(t)'
    BY <1>2, <2>2, <2>4 DEF Closes
  <2>7. /\ \A x \in Fd : ListsShape(x)'
        /\ \A u \in App : Undisturbed(u)
        /\ \A j \in Stack : CleansOn(j)
    BY <1>1, <1>2, <1>7, <2>1, <2>2, <2>4, <2>6, Walks
  <2>8. StageShape(t)'
    <3>1. StageShape(t)
      BY DEF IInv
    <3> QED
      BY <3>1, <1>1, <1>2, <2>2, <2>4 DEF StageShape, Closes
  <2>9. UseShape(t)'
    BY <1>2, <2>2, <2>4 DEF UseShape, Closes
  <2> QED
    BY <1>1, <1>4, <1>5, <2>4, <2>5, <2>7, <2>8, <2>9, AppFrame
<1> QED
  BY <1>6, <1>7

-----------------------------------------------------------------------------
(* create_shadow_fd *)

(* The clone n of d is added behind e, the last socket of its list. *)
LEMMA Grown ==
  ASSUME IInv, NEW d \in Fd, owner[d] # No, Live(d),
         NEW e \in Reach(d), sock[e].listen_next = No, NEW n \in Fd, ~sock[n].open,
         sock'[n].open, Live(n)', sock'[n].head = d, sock'[n].listen_next = No,
         sock'[e].open = sock[e].open, Live(e)' <=> Live(e), sock'[e].kind = sock[e].kind,
         sock'[e].head = sock[e].head, sock'[e].listen_next = n,
         \A x \in Fd \ {e, n} : KeepsSlot(x), owner' = owner,
         \A u \in App : KeepsRole(u),
         \A k \in Stack, x \in Fd : Accepting(k, x)' <=> Accepting(k, x)
  PROVE  /\ \A x \in Fd : Reach(x) \subseteq Reach(x)' /\ ListsShape(x)'
         /\ n \in Reach(d)' /\ n # d
<1>1. e \in Fd /\ sock[e].head = d /\ sock[e].open /\ Live(e) /\ sock[e].kind # "kernel"
      /\ \A u \in App : ~Closing(u, e)
  <2>1. e \in Fd /\ sock[e].head = d /\ sock[e].open /\ (e # d => Live(e))
        /\ \A u \in App : ~Closing(u, e)
    BY HeldList
  <2> QED
    BY <2>1 DEF IInv, SlotShape
<1>2. /\ sock[n].listen_next = No /\ owner[n] = No /\ ~Live(n)
      /\ \A u \in App : ~Given(u, n) /\ ~Closing(u, n) /\ ~NextOf(u, n)
      /\ \A k \in Stack : ~Accepting(k, n)
      /\ \A z \in Fd : sock[z].listen_next # n
  BY FreeFd
<1>3. n # e /\ n # d
  BY <1>1, <1>2
<1>4. ASSUME NEW x \in Fd
      PROVE  /\ Reach(x) \subseteq Reach(x)' /\ Reach(x)' \subseteq Reach(x) \cup {n}
             /\ e \in Reach(x) => n \in Reach(x)'
             /\ Reach(n)' = {n}
  <2>1. \A y \in Fd \ {e, n} : sock'[y].listen_next = sock[y].listen_next
    BY DEF KeepsSlot
  <2>2. TypeOK /\ e \in Fd /\ e # n /\ sock[n].listen_next = No
    BY <1>1, <1>2, <1>3 DEF IInv
  <2> QED
    BY <2>1, <2>2, ReachGrows, SMTT(30)
<1>5. \A u \in App, x \in Fd : /\ Given(u, x)' <=> Given(u, x)
                               /\ Closing(u, x)' <=> Closing(u, x)
                               /\ NextOf(u, x)' <=> NextOf(u, x)
                               /\ Closing(u, x) => pc'[u] = pc[u]
  BY DEF KeepsRole, Role, Plain, Given, Closing, NextOf, Closes
<1>6. ASSUME NEW u \in App, NEW x \in Fd, Doomed(u, x) PROVE Doomed(u, x)'
  <2>1. Closes(u) /\ call[u].cur \in Fd /\ call[u].next \in Fd \cup {No}
    BY <1>6 DEF Doomed, IInv, StageShape, VarShape, CallRec
  <2>2. /\ pc'[u] = pc[u] /\ call'[u].cur = call[u].cur /\ call'[u].next = call[u].next
        /\ Closes(u)'
    BY <2>1 DEF KeepsRole, Role, Plain, Closes
  <2>3. x \in Reach(call[u].cur) => x \in Reach(call[u].cur)'
    <3>1. PICK y \in Fd : y = call[u].cur
      BY <2>1
    <3> QED
      BY <3>1, <2>2, <1>4
  <2>4. call[u].next # No /\ x \in Reach(call[u].next) => x \in Reach(call[u].next)'
    <3> SUFFICES ASSUME call[u].next # No, x \in Reach(call[u].next)
                 PROVE  x \in Reach(call[u].next)'
      OBVIOUS
    <3>1. PICK y \in Fd : y = call[u].next
      BY <2>1
    <3> QED
      BY <3>1, <2>2, <1>4
  <2> QED
    BY <2>1, <2>2, <2>3, <2>4, <1>6 DEF Doomed
<1>7. \A x \in Fd \ {n} :
        /\ sock'[x].open = sock[x].open /\ (Live(x)' <=> Live(x))
        /\ sock'[x].kind = sock[x].kind /\ sock'[x].head = sock[x].head
        /\ x # e => sock'[x].listen_next = sock[x].listen_next
  BY DEF KeepsSlot
<1>8. ASSUME NEW x \in Fd \ {n} PROVE ListsShape(x)'
  <2>1. SlotShape(x) /\ RoleShape(x) /\ LinkShape(x) /\ ListShape(x) /\ OpenShape(x)
    BY DEF IInv
  <2>2. RoleShape(x)'
    <3>1. x = e => (\A u \in App : ~Given(u, x)) /\ \A k \in Stack : ~Accepting(k, x)
      BY <2>1, <1>1 DEF RoleShape
    <3> QED
      BY <2>1, <3>1, <1>5, <1>7 DEF RoleShape
  <2>3. LinkShape(x)'
    <3>1. CASE x = e
      <4>1. sock'[n].head = sock'[e].head /\ sock'[n].head # n /\ sock'[e].kind # "kernel"
        BY <1>1, <1>3
      <4>2. \A z \in Fd : sock'[z].listen_next = n => z = e
        BY <1>2, <1>7, Consts
      <4>3. e \notin Reach(n)'
        BY <1>3, <1>4
      <4>4. \A u \in App : ~Closing(u, n)' /\ ~NextOf(u, n)'
        BY <1>2, <1>5
      <4> QED
        BY <3>1, <4>1, <4>2, <4>3, <4>4 DEF LinkShape
    <3>2. CASE x # e /\ sock[x].listen_next = No
      BY <3>2, <1>7 DEF LinkShape
    <3>3. CASE x # e /\ sock[x].listen_next # No
      <4>1. PICK y \in Fd : y = sock[x].listen_next /\ y # n
        BY <3>3, <1>2 DEF IInv, TypeOK
      <4>2. /\ Live(y) /\ sock[y].head = sock[x].head /\ sock[y].head # y
            /\ \A z \in Fd : sock[z].listen_next = y => z = x
            /\ \A u \in App : ~Closing(u, y) /\ (NextOf(u, y) => Closing(u, x))
            /\ x \notin Reach(y) /\ sock[x].kind # "kernel"
        BY <3>3, <4>1, <2>1 DEF LinkShape
      <4>3. \A z \in Fd : sock'[z].listen_next = y => z = x
        BY <4>1, <4>2, <1>7, Consts
      <4>4. x \notin Reach(y)'
        BY <4>2, <1>4
      <4>5. \A u \in App : ~Closing(u, y)' /\ (NextOf(u, y)' => Closing(u, x)')
        BY <4>2, <1>5
      <4> QED
        BY <3>3, <4>1, <4>2, <4>3, <4>4, <4>5, <1>7 DEF LinkShape
    <3> QED
      BY <3>1, <3>2, <3>3
  <2>4. ListShape(x)'
    <3>1. ASSUME owner[x] # No PROVE \E y \in Reach(x)' : sock'[y].listen_next = No
      <4>1. PICK y \in Reach(x) : sock[y].listen_next = No
        BY <2>1, <3>1 DEF ListShape
      <4>2. CASE y = e
        BY <4>1, <4>2, <1>4
      <4>3. CASE y # e
        <5>1. y \in Fd /\ sock'[y].listen_next = No
          BY <4>1, <4>3, <1>7, ReachSelf
        <5> QED
          BY <5>1, <4>1, <1>4
      <4> QED
        BY <4>2, <4>3
    <3>2. CASE Live(x) /\ sock[x].head # x
      <4>1. PICK h \in Fd : h = sock[x].head
        BY <3>2, <2>1 DEF SlotShape
      <4>2. (owner[h] # No /\ x \in Reach(h)) \/ \E u \in App : Doomed(u, x)
        BY <3>2, <4>1, <2>1 DEF ListShape
      <4>3. (owner'[h] # No /\ x \in Reach(h)') \/ \E u \in App : Doomed(u, x)'
        BY <4>2, <1>4, <1>6
      <4>4. sock'[x].head = h
        BY <4>1, <1>7
      <4> QED
        BY <3>1, <4>3, <4>4 DEF ListShape
    <3>3. CASE ~(Live(x) /\ sock[x].head # x)
      BY <3>1, <3>3, <1>7 DEF ListShape
    <3> QED
      BY <3>2, <3>3
  <2>5. OpenShape(x)'
    BY <2>1, <1>5, <1>7 DEF OpenShape
  <2> QED
    BY <2>2, <2>3, <2>4, <2>5 DEF ListsShape
<1>9. n \in Reach(d)'
  BY <1>4
<1>10. ListsShape(n)'
  <2>1. RoleShape(n)'
    BY <1>2, <1>5 DEF RoleShape
  <2>2. LinkShape(n)' /\ OpenShape(n)'
    BY <1>3 DEF LinkShape, OpenShape
  <2>3. ListShape(n)'
    BY <1>2, <1>9, SMTT(30) DEF ListShape
  <2> QED
    BY <2>1, <2>2, <2>3 DEF ListsShape
<1> QED
  BY <1>3, <1>4, <1>8, <1>9, <1>10

LEMMA CreateShadowFdInv ==
  ASSUME IInv, NEW k \in Stack, NEW t \in App, CreateShadowFd(k, t)
  PROVE  IInv'
<1>1. /\ stk[k] = NoWork /\ rpc_queue[k] # << >> /\ t = Head(rpc_queue[k])
      /\ pc[t] = "sent" /\ call[t] \in CallRec /\ call[t].f = "shadow"
      /\ call[t].op \in {"bind", "listen"} /\ ~Closes(t)
  BY RunsFor DEF CreateShadowFd, Closes
<1>2. UNCHANGED <<cfg, counts, stk, history>>
  BY DEF CreateShadowFd
<1>3. PICK d \in Fd : d = call[t].cur /\ d = call[t].fd /\ owner[d] = t /\ Live(d)
  BY <1>1 DEF IInv, UseShape
<1>4. PICK e \in Reach(d) : e = LastOf(d) /\ sock[e].listen_next = No
  BY <1>3, Consts DEF IInv, ListShape, LastOf
<1>5. CASE Reply(k, t, -1) /\ UNCHANGED sock
  <2>1. -1 \in Int
    OBVIOUS
  <2> QED
    BY <1>1, <1>2, <1>5, <2>1, StackSays
<1>6. ASSUME NEW b \in BOOLEAN, NEW v \in Int, FreeFds # {}, v = -1 \/ v = NewFd,
             sock' = [sock EXCEPT ![NewFd] = [NewSock(sock[d].kind, k, d) EXCEPT !.bound = b],
                                  ![LastOf(d)].listen_next = NewFd],
             Reply(k, t, v)
      PROVE  IInv'
  <2>1. PICK n \in Fd : n = NewFd /\ ~sock[n].open
    BY <1>6, NewFdFree
  <2>2. e \in Fd /\ Live(e) /\ sock[e].open /\ e # n /\ t # No
    <3>1. e \in Fd /\ sock[e].open /\ (e # d => Live(e))
      BY <1>3, <1>4, HeldList, Consts
    <3> QED
      BY <3>1, <2>1, <1>3, Consts
  <2> DEFINE r == [NewSock(sock[d].kind, k, d) EXCEPT !.bound = b]
             q == [sock[e] EXCEPT !.listen_next = n]
  <2>3. /\ r \in SockRec /\ r.open /\ r.type = "UNKNOW" /\ r.kind \in {"tcp", "udp"}
        /\ r.state = "CLOSED" /\ r.stack = k /\ r.listen_next = No /\ r.head = d
        /\ r.queue = 0 /\ ~r.kernel
    <3>1. sock[d].kind \in {"tcp", "udp"}
      BY <1>3 DEF IInv, SlotShape, TypeOK
    <3> DEFINE m == NewSock(sock[d].kind, k, d)
    <3>2. /\ m \in SockRec /\ m.open /\ m.type = "UNKNOW" /\ m.kind \in {"tcp", "udp"}
          /\ m.state = "CLOSED" /\ m.stack = k /\ m.listen_next = No /\ m.head = d
          /\ m.queue = 0 /\ ~m.kernel
      BY <3>1, NewSockIs
    <3>3. r = [m EXCEPT !.bound = b]
      OBVIOUS
    <3> HIDE DEF m, r
    <3> QED
      BY <3>2, <3>3 DEF SockRec
  <2>4. /\ q \in SockRec /\ q.listen_next = n /\ q.open = sock[e].open
        /\ q.type = sock[e].type /\ q.kind = sock[e].kind /\ q.state = sock[e].state
        /\ q.stack = sock[e].stack /\ q.head = sock[e].head /\ q.queue = sock[e].queue
        /\ q.kernel = sock[e].kernel
    <3>1. sock[e] \in SockRec
      BY <2>2, SockTypes
    <3> QED
      BY <3>1 DEF SockRec
  <2>5. sock \in [Fd -> SockRec]
    BY DEF IInv, TypeOK, SockRec
  <2>6. sock' = [sock EXCEPT ![n] = r, ![e] = q]
    <3>1. sock' = [sock EXCEPT ![n] = r, ![e].listen_next = n]
      BY <1>4, <1>6, <2>1
    <3>2. [sock EXCEPT ![n] = r][e] = sock[e]
      BY <2>2, <2>5
    <3> HIDE DEF r
    <3> QED
      BY <3>1, <3>2, <2>2, <2>5
  <2> HIDE DEF r, q
  <2>7. /\ sock' \in [Fd -> SockRec] /\ sock'[n] = r /\ sock'[e] = q
        /\ \A x \in Fd \ {e, n} : sock'[x] = sock[x]
    BY <2>2, <2>3, <2>4, <2>5, <2>6
  <2>8. /\ \A x \in Fd \ {e, n} : KeepsSlot(x)
        /\ \A x \in Fd \ {n} : KeepsConn(x)
    BY <2>4, <2>7 DEF KeepsSlot, KeepsConn, Live
  <2>9. /\ pc' = [pc EXCEPT ![t] = "ret"] /\ call' \in [App -> CallRec] /\ Answered(t, v)
        /\ \A u \in App \ {t} : SameCall(u)
        /\ rpc_queue' = [rpc_queue EXCEPT ![k] = Tail(@)]
        /\ rpc_queue' \in [Stack -> Seq(App)]
    BY <1>1, <1>6, Replied
  <2>10. VarShape' /\ TypeOK' /\ pc'[t] = "ret" /\ owner' = owner
    BY <1>2, <2>7, <2>9 DEF IInv, VarShape, TypeOK, SockRec, counts, history
  <2>11. ASSUME NEW u \in App PROVE KeepsRole(u)
    <3>1. CASE u = t
      BY <3>1, <1>1, <2>9 DEF KeepsRole, Plain, Closes, Answered
    <3>2. CASE u # t
      BY <3>2, <2>9, SameFields DEF KeepsRole, Role
    <3> QED
      BY <3>1, <3>2
  <2>12. \A j \in Stack, x \in Fd : Accepting(j, x)' <=> Accepting(j, x)
    BY <1>2 DEF Accepting
  <2>13. /\ sock'[n].open /\ Live(n)' /\ sock'[n].head = d /\ sock'[n].listen_next = No
         /\ sock'[e].open = sock[e].open /\ (Live(e)' <=> Live(e))
         /\ sock'[e].kind = sock[e].kind /\ sock'[e].head = sock[e].head
         /\ sock'[e].listen_next = n
    BY <2>3, <2>4, <2>7 DEF Live
  <2>14. /\ \A x \in Fd : Reach(x) \subseteq Reach(x)' /\ ListsShape(x)'
         /\ n \in Reach(d)' /\ n # d
    BY <1>3, <1>4, <2>1, <2>2, <2>8, <2>10, <2>11, <2>12, <2>13, Grown
  <2>15. \A u \in App : /\ call'[u].op = call[u].op /\ call'[u].fd = call[u].fd
                        /\ call'[u].f = call[u].f
    BY <2>9, SameFields DEF Answered
  <2>16. ASSUME NEW x \in Fd PROVE SlotShape(x)'
    <3>1. CASE x = n
      BY <3>1, <2>3, <2>7 DEF SlotShape, Live
    <3>2. CASE x = e
      <4>1. SlotShape(e)
        BY <2>2 DEF IInv
      <4>2. sock[e].open /\ sock[e].type # "none"
        BY <2>2 DEF Live
      <4> QED
        BY <3>2, <4>1, <4>2, <2>4, <2>7, <2>15, ZenonT(30) DEF SlotShape, Live
    <3>3. CASE x \notin {e, n}
      <4>1. \A u \in App : call[u].fd = x => SameCall(u) \/ call[u].op # "connect"
        BY <2>9, <1>1
      <4> QED
        BY <3>3, <4>1, <2>7, SlotKept
    <3> QED
      BY <3>1, <3>2, <3>3
  <2>17. \A u \in App \ {t} : Undisturbed(u)
    <3>1. owner[n] = No
      BY <2>1, FreeFd
    <3>2. \A x \in Fd \ {n} : Live(x) => Live(x)'
      BY <2>8, <2>13 DEF KeepsSlot
    <3> QED
      BY <3>1, <3>2, <2>8, <2>10, <2>14, Consts DEF Undisturbed
  <2>18. \A j \in Stack : CleansOn(j)
    BY <2>1, <2>2, <2>7, CleansKept
  <2>19. StageShape(t)'
    BY <1>1, <2>9, <2>10, Served DEF StageShape, Answered, Closes, Spread
  <2>20. UseShape(t)'
    <3>1. /\ call'[t].op \in {"bind", "listen"} /\ call'[t].fd = d /\ call'[t].cur = d
          /\ call'[t].f = "shadow" /\ call'[t].ret = v /\ owner'[d] = t /\ pc'[t] = "ret"
      BY <1>1, <1>3, <2>9, <2>10 DEF Answered
    <3>2. Live(d)'
      BY <1>3, <2>8, <2>13, <2>14 DEF KeepsSlot
    <3>3. d \in Reach(d)'
      BY <2>14, ReachSelf, SMTT(30)
    <3> QED
      BY <3>1, <3>2, <3>3, <1>6, <2>1, <2>14 DEF UseShape
  <2> QED
    BY <1>1, <1>2, <2>9, <2>10, <2>14, <2>16, <2>17, <2>18, <2>19, <2>20, StackFrame
<1>7. CASE FreeFds # {}
  <2>1. NewFd \in Int /\ -1 \in Int
    BY <1>7, NewFdFree, Consts
  <2> QED
    BY <1>3, <1>5, <1>6, <1>7, <2>1, Zenon DEF CreateShadowFd
<1> QED
  BY <1>5, <1>7, SMTT(30) DEF CreateShadowFd

-----------------------------------------------------------------------------
LEMMA InitInv == Init => IInv
<1> SUFFICES ASSUME Init PROVE IInv
  OBVIOUS
<1>1. /\ \A d \in Fd : sock[d] = FreeSock /\ owner[d] = No
      /\ \A t \in App : pc[t] = "idle" /\ call[t] = NoCall
      /\ \A k \in Stack : stk[k] = NoWork /\ rpc_queue[k] = << >>
  BY DEF Init
<1>2. TypeOK
  <2>1. sock \in [Fd -> SockRec]
    BY FreeSockIs DEF Init
  <2>2. 0 \in 0..(ConnMod - 1)
    BY SocketsAssumption
  <2>3. conn_num \in [Stack -> 0..(ConnMod - 1)] /\ stack_index \in 0..(ConnMod - 1)
    BY <2>2 DEF Init
  <2> QED
    BY <2>1, <2>3 DEF Init, TypeOK, SockRec
<1>3. VarShape
  <2>1. NoWork \in [pc : {"poll", "accept", "clean", "close_fn"},
                    fd : Fd \cup {No}, tmp : 0..(ConnMod - 1)]
    BY SocketsAssumption DEF NoWork
  <2>2. rpc_queue \in [Stack -> Seq(App)]
    BY DEF Init
  <2> QED
    BY <2>1, <2>2, NoCallType DEF Init, VarShape
<1>4. /\ NoCall.op = "none" /\ NoCall.fd = No /\ NoCall.f = "none" /\ NoWork.pc = "poll"
      /\ ~FreeSock.open /\ FreeSock.type = "none"
  BY DEF NoCall, NoWork, FreeSock
<1>5. \A t \in App : ~Closes(t) /\ StageShape(t) /\ UseShape(t)
  BY <1>1, <1>4 DEF Closes, StageShape, UseShape
<1>6. ASSUME NEW d \in Fd
      PROVE  SlotShape(d) /\ RoleShape(d) /\ LinkShape(d) /\ ListShape(d) /\ OpenShape(d)
  <2>1. SlotShape(d)
    BY <1>1, <1>4, FreeSockIs DEF SlotShape, Live
  <2>2. \A t \in App : ~Given(t, d) /\ ~Closing(t, d) /\ ~NextOf(t, d)
    BY <1>1, <1>5 DEF Given, Closing, NextOf
  <2>3. \A k \in Stack : ~Accepting(k, d)
    BY <1>1, <1>4 DEF Accepting
  <2>4. RoleShape(d)
    BY <2>2, <2>3, <1>1 DEF RoleShape
  <2>5. LinkShape(d) /\ ListShape(d) /\ OpenShape(d)
    BY <1>1, <1>4, FreeSockIs DEF LinkShape, ListShape, OpenShape, Live
  <2> QED
    BY <2>1, <2>4, <2>5
<1>7. QueueShape
  BY <1>1 DEF QueueShape
<1>8. \A k \in Stack : WorkShape(k)
  BY <1>1, <1>4 DEF WorkShape
<1> QED
  BY <1>2, <1>3, <1>5, <1>6, <1>7, <1>8 DEF IInv

LEMMA StutterInv == IInv /\ UNCHANGED vars => IInv'
<1> SUFFICES ASSUME IInv, UNCHANGED vars PROVE IInv'
  OBVIOUS
<1>1. UNCHANGED <<cfg, sock, counts, rpc_queue, stk, pc, call, owner, served>>
  BY DEF vars, counts
<1>2. \A u \in App : SameCall(u) /\ Role(u)' = Role(u)
  BY <1>1 DEF SameCall, Role
<1>3. \A d \in Fd : KeepsSlot(d) /\ KeepsConn(d) /\ sock'[d] = sock[d]
  BY <1>1 DEF KeepsSlot, KeepsConn, Live
<1>4. \A k \in Stack, d \in Fd : Accepting(k, d)' <=> Accepting(k, d)
  BY <1>1 DEF Accepting
<1>5. \A d \in Fd : ListsShape(d)' /\ Reach(d)' = Reach(d)
  BY <1>1, <1>2, <1>3, <1>4, RolesKept, ReachKept DEF KeepsRole
<1>6. \A d \in Fd : SlotShape(d)'
  BY <1>2, <1>3, SlotKept
<1>7. TypeOK' /\ VarShape'
  BY <1>1 DEF IInv, TypeOK, VarShape, counts
<1>8. \A u \in App : Undisturbed(u)
  BY <1>1, <1>3, <1>5 DEF Undisturbed, KeepsSlot
<1>9. ASSUME NEW k \in Stack PROVE WorkShape(k)'
  <2>1. stk[k].pc # "poll" => rpc_queue[k] # << >>
    BY DEF IInv, WorkShape
  <2>2. rpc_queue[k] # << >> => Head(rpc_queue[k]) \in App
    BY DEF IInv, VarShape
  <2> QED
    BY <2>1, <2>2, <1>1, <1>2, WorkKept
<1> QED
  BY <1>1, <1>2, <1>5, <1>6, <1>7, <1>8, <1>9, SilentFrame

LEMMA StepInv == IInv /\ [Next]_vars => IInv'
<1> SUFFICES ASSUME IInv, [Next]_vars PROVE IInv'
  OBVIOUS
<1>1. ASSUME NEW t \in App, AppStep(t) PROVE IInv'
  BY <1>1, CountSocketInv, SocketReturnsInv, CloseKernelInv, CloseNextInv, CloseReturnsInv,
     BindReturnsInv, NameReturnsInv, BroadcastInv, ShadowReturnsInv, ListenReturnsInv,
     BroadcastDoneInv, AcceptReturnsInv, ConnectReturnsInv, RecvWalkInv, AskReturnsInv
     DEF AppStep
<1>2. ASSUME NEW t \in App, AppCall(t) PROVE IInv'
  BY <1>2, KernelSocketInv, GetBindStackInv, CloseInv, BindInv, ListenInv, AcceptInv,
     ConnectInv, RecvFromInv, QueryInv DEF AppCall
<1>3. ASSUME NEW k \in Stack, StackStep(k) PROVE IInv'
  BY <1>3, StackSocketInv, StackBindInv, CreateShadowFdInv, StackListenInv, StackConnectInv,
     StackQueryInv, StackAcceptInv, StackAcceptedInv, StackCloseInv, CloseFnInv, CleanSockInv
     DEF StackStep
<1>4. CASE Network
  BY <1>4, ArrivesInv, ConnectedInv, PeerLeavesInv DEF Network
<1> QED
  BY <1>1, <1>2, <1>3, <1>4, StutterInv DEF Next

(* What holds of every descriptor, thread and stack thread in every state: *)
(* each descriptor is with one holder, a clone in one list or in what      *)
(* stack_broadcast_close has yet to close of it.                           *)
THEOREM Invariant == Spec => []IInv
<1>1. Init => IInv
  BY InitInv
<1>2. IInv /\ [Next]_vars => IInv'
  BY StepInv
<1> QED
  BY <1>1, <1>2, PTL DEF Spec

(* Every variable keeps its type, for any number of threads, stacks and    *)
(* descriptors: in particular no stack's conn_num leaves its uint16_t, and *)
(* listen_next always names a slot of the table.                           *)
THEOREM TypeCorrect == Spec => []TypeOK
<1>1. IInv => TypeOK
  BY DEF IInv
<1> QED
  BY <1>1, Invariant, PTL

(* The socket of a descriptor that the application holds is never reset by *)
(* a close of another (stack_close, gazelle_clean_sock), whatever numbers  *)
(* the kernel hands out again in between.                                  *)
THEOREM HeldIsLiveCorrect == Spec => []HeldIsLive
<1>1. IInv => HeldIsLive
  <2> SUFFICES ASSUME IInv, NEW d \in Fd, owner[d] # No
               PROVE  /\ sock[d].open
                      /\ sock[d].kind # "kernel" => sock[d].type # "none" /\ sock[d].stack # No
    BY DEF HeldIsLive
  <2> QED
    BY Consts DEF IInv, RoleShape, SlotShape, Live
<1> QED
  BY <1>1, Invariant, PTL

(* select_path sends the data of a socket to the side that is connected:   *)
(* to lwip from the SYN on, although do_connect sets the type only when    *)
(* the call is back, and to the kernel for a connection to this host.      *)
THEOREM RouteAgreesCorrect == Spec => []RouteAgrees
<1>1. IInv => RouteAgrees
  <2> SUFFICES ASSUME IInv, NEW d \in Fd
               PROVE  /\ sock[d].type # "none"
                           /\ sock[d].state \in {"SYN_SENT", "ESTABLISHED", "CLOSE_WAIT"}
                           => SendSide(d) = "lwip" /\ RecvSide(d) = "lwip"
                      /\ sock[d].kernel /\ (\A t \in Using(d) : call[t].op # "connect")
                           => SendSide(d) = "kernel" /\ RecvSide(d) = "kernel"
    BY DEF RouteAgrees
  <2>1. SlotShape(d)
    BY DEF IInv
  <2>2. /\ sock[d].type # "none" => sock[d].type # "HOST" \/ sock[d].state \in {"CLOSED", "LISTEN"}
        /\ sock[d].state = "CLOSE_WAIT" => sock[d].type = "LIBOS"
        /\ sock[d].kernel /\ (\A t \in Using(d) : call[t].op # "connect") =>
             sock[d].type \in {"none", "HOST"}
    BY <2>1 DEF SlotShape, Using
  <2> QED
    BY <2>2 DEF SendSide, RecvSide, SelectPath
<1> QED
  BY <1>1, Invariant, PTL

(* When no call is under way nothing is open that the application cannot   *)
(* reach: stack_broadcast_close and the failure branches of listen and     *)
(* bind have closed the whole list, and no descriptor is lost between the  *)
(* stack that opens it and the thread that asked for it.                   *)
THEOREM NoOrphanCorrect == Spec => []NoOrphan
<1>1. IInv => NoOrphan
  <2> SUFFICES ASSUME IInv, \A t \in App : pc[t] = "idle", NEW d \in Fd, sock[d].open,
                      owner[d] = No
               PROVE  /\ sock[d].head \in Fd \ {d} /\ owner[sock[d].head] # No
                      /\ d \in Reach(sock[d].head)
    BY DEF NoOrphan
  <2>1. \A t \in App : ~Given(t, d) /\ ~Closing(t, d) /\ ~Doomed(t, d)
    BY DEF Given, Closing, Doomed
  <2>2. ASSUME NEW k \in Stack PROVE ~Accepting(k, d)
    <3>1. rpc_queue[k] = << >>
      <4>1. ASSUME rpc_queue[k] # << >> PROVE FALSE
        <5>1. 1 \in DOMAIN rpc_queue[k] /\ rpc_queue[k][1] \in App
          BY <4>1 DEF IInv, VarShape
        <5>2. pc[rpc_queue[k][1]] = "sent"
          BY <5>1 DEF IInv, QueueShape
        <5> QED
          BY <5>1, <5>2
      <4> QED
        BY <4>1
    <3>2. stk[k].pc = "poll"
      BY <3>1 DEF IInv, WorkShape
    <3> QED
      BY <3>2 DEF Accepting
  <2>3. Live(d) /\ sock[d].head # d
    BY <2>1, <2>2 DEF IInv, OpenShape
  <2>4. sock[d].head \in Fd
    BY <2>3 DEF IInv, SlotShape
  <2> QED
    BY <2>1, <2>3, <2>4 DEF IInv, ListShape
<1> QED
  BY <1>1, Invariant, PTL

-----------------------------------------------------------------------------
(* Nothing is missed.  A call of accept waits in the queue of the stack of  *)
(* the socket it was sent to, in front of any call that closes the socket;  *)
(* what accept found there is still there, or another accept of the same    *)
(* descriptor has taken it.                                                 *)
EntryShape(k, i) ==
  LET t == rpc_queue[k][i]
      x == call[t].cur
  IN  /\ Closes(t) /\ Live(x) => sock[x].stack = k
      /\ call[t].op = "accept" =>
           /\ sock[x].state = "LISTEN" /\ sock[x].stack = k /\ sock[x].head = call[t].fd
           /\ \A j \in 1..(i - 1) :
                ~(Closes(rpc_queue[k][j]) /\ call[rpc_queue[k][j]].cur = x)
           /\ call[t].found /\ ~(i = 1 /\ stk[k].pc = "accept") => sock[x].queue > 0

(* Sockets that listen, and their clones, are TCP. *)
TcpShape(d) ==
  /\ sock[d].state = "LISTEN" => sock[d].kind = "tcp"
  /\ sock[d].listen_next # No => sock[sock[d].listen_next].kind = sock[d].kind

(* What recvfrom found is where the walk has yet to go. *)
FoundShape(t) ==
  LET c == call[t] IN
  /\ c.op = "listen" => sock[c.fd].kind = "tcp"
  /\ c.op = "connect" => sock[c.fd].state # "LISTEN"
  /\ c.op = "recvfrom" => sock[c.fd].kind = "udp"
  /\ c.op = "recvfrom" /\ pc[t] = "walk" /\ c.found => \E x \in Reach(c.cur) : sock[x].queue > 0
  /\ pc[t] = "ret" /\ c.op \in {"accept", "recvfrom"} /\ c.ret < 0 => ~c.found

EntriesShape == \A k \in Stack : \A i \in DOMAIN rpc_queue[k] : EntryShape(k, i)

MissInv ==
  /\ EntriesShape
  /\ \A d \in Fd : TcpShape(d)
  /\ \A t \in App : FoundShape(t)
  /\ \A d \in served : owner[d] # No

Queued(t) == \E k \in Stack : \E i \in DOMAIN rpc_queue[k] : rpc_queue[k][i] = t

(* A step that does not disturb the call of a thread in a queue. *)
Calm(t) ==
  LET x == call[t].cur IN
  /\ SameCall(t)
  /\ Closes(t) => (sock'[x].type # "none" => Live(x) /\ sock'[x].stack = sock[x].stack)
  /\ call[t].op = "accept" =>
       /\ sock'[x].state = "LISTEN" /\ sock'[x].stack = sock[x].stack
       /\ sock'[x].head = sock[x].head
       /\ call'[t].found => sock'[x].queue >= sock[x].queue

LEMMA QueuedIs ==
  ASSUME IInv, NEW t \in App, Queued(t)
  PROVE  /\ pc[t] = "sent" /\ call[t] \in CallRec
         /\ Closes(t) \/ call[t].op = "accept" => call[t].cur \in Fd
<1>1. pc[t] = "sent"
  BY DEF IInv, QueueShape, Queued
<1>2. StageShape(t) /\ call[t] \in CallRec
  BY DEF IInv, VarShape
<1> QED
  BY <1>1, <1>2 DEF StageShape, Closes

(* SameCall leaves FALSE what is FALSE. *)
LEMMA StillFound ==
  ASSUME IInv, NEW t \in App, SameCall(t)
  PROVE  call'[t].found => call[t].found
<1>1. call[t] \in CallRec
  BY DEF IInv, VarShape
<1> QED
  BY <1>1 DEF SameCall, CallRec

(* A call that stays in its queue, at its place or one further in front. *)
LEMMA EntryKept ==
  ASSUME IInv, TypeOK', MissInv, NEW k \in Stack, NEW n \in {0, 1}, NEW i \in Nat \ {0},
         i + n \in DOMAIN rpc_queue[k],
         \A j \in 1..i : rpc_queue'[k][j] = rpc_queue[k][j + n] /\ SameCall(rpc_queue[k][j + n]),
         Calm(rpc_queue[k][i + n]),
         n = 0 => (stk[k].pc = "accept" => stk'[k].pc = "accept")
  PROVE  EntryShape(k, i)'
<1>1. rpc_queue[k] \in Seq(App) /\ DOMAIN rpc_queue[k] = 1..Len(rpc_queue[k])
  BY DEF IInv, VarShape
<1>2. PICK t \in App : t = rpc_queue[k][i + n] /\ rpc_queue'[k][i] = t /\ Calm(t)
  <2>1. i \in 1..i
    OBVIOUS
  <2> QED
    BY <2>1, <1>1
<1>3. PICK x : x = call[t].cur
  BY SMTT(30)
<1>4. Calm(t) /\ SameCall(t)
  BY <1>2 DEF Calm
<1>5. /\ call'[t].op = call[t].op /\ call'[t].fd = call[t].fd /\ call'[t].cur = x
      /\ call'[t].found => call[t].found
  BY <1>3, <1>4, SameFields, StillFound
<1>6. EntryShape(k, i + n)
  BY DEF MissInv, EntriesShape
<1>7. Closes(t)' /\ Live(x)' => sock'[x].stack = k
  <2>1. Closes(t) /\ Live(x) => sock[x].stack = k
    BY <1>2, <1>3, <1>6 DEF EntryShape
  <2>2. Closes(t) => (Live(x)' => Live(x) /\ sock'[x].stack = sock[x].stack)
    BY <1>3, <1>4 DEF Calm, Live
  <2>3. Closes(t)' <=> Closes(t)
    BY <1>5 DEF Closes
  <2> QED
    BY <2>1, <2>2, <2>3
<1>8. ASSUME call[t].op = "accept"
      PROVE  /\ sock'[x].state = "LISTEN" /\ sock'[x].stack = k /\ sock'[x].head = call'[t].fd
             /\ call'[t].found /\ ~(i = 1 /\ stk'[k].pc = "accept") => sock'[x].queue > 0
  <2>1. /\ sock'[x].state = "LISTEN" /\ sock'[x].stack = sock[x].stack
        /\ sock'[x].head = sock[x].head
        /\ call'[t].found => sock'[x].queue >= sock[x].queue
    BY <1>3, <1>4, <1>8 DEF Calm
  <2>2. /\ sock[x].stack = k /\ sock[x].head = call[t].fd
        /\ call[t].found /\ ~(i + n = 1 /\ stk[k].pc = "accept") => sock[x].queue > 0
    BY <1>2, <1>3, <1>6, <1>8 DEF EntryShape
  <2>3. i + n = 1 /\ stk[k].pc = "accept" => i = 1 /\ stk'[k].pc = "accept"
    OBVIOUS
  <2>4. call[t].cur \in Fd
    BY <1>1, <1>2, <1>8, QueuedIs DEF Queued
  <2>5. sock[x].queue \in Int /\ sock'[x].queue \in Int
    BY <1>3, <2>4, SocketsAssumption DEF IInv, TypeOK
  <2>6. call'[t].found /\ ~(i = 1 /\ stk'[k].pc = "accept") =>
          sock'[x].queue >= sock[x].queue /\ sock[x].queue > 0
    BY <1>5, <2>1, <2>2, <2>3
  <2> QED
    BY <1>5, <2>1, <2>2, <2>5, <2>6
<1>9. ASSUME call[t].op = "accept", NEW j \in 1..(i - 1),
             Closes(rpc_queue[k][j])', call'[rpc_queue'[k][j]].cur = x
      PROVE  FALSE
  <2>1. j \in 1..i /\ j + n \in 1..(i + n - 1) /\ j + n \in DOMAIN rpc_queue[k]
    BY <1>1
  <2>2. PICK u \in App : u = rpc_queue[k][j + n] /\ rpc_queue'[k][j] = u /\ SameCall(u)
    BY <1>1, <2>1
  <2>3. Closes(u) /\ call[u].cur = x
    BY <1>9, <2>2, SameFields, SMTT(30) DEF Closes
  <2> QED
    BY <1>2, <1>3, <1>6, <1>9, <2>1, <2>2, <2>3 DEF EntryShape
<1> QED
  BY <1>2, <1>5, <1>7, <1>8, <1>9 DEF EntryShape, Closes

(* No queue is changed. *)
LEMMA EntriesSame ==
  ASSUME IInv, TypeOK', MissInv, rpc_queue' = rpc_queue,
         \A k \in Stack : stk[k].pc = "accept" => stk'[k].pc = "accept",
         \A u \in App : Queued(u) => Calm(u)
  PROVE  EntriesShape'
<1> SUFFICES ASSUME NEW k \in Stack, NEW i \in DOMAIN rpc_queue[k] PROVE EntryShape(k, i)'
  BY DEF EntriesShape
<1>1. rpc_queue[k] \in Seq(App) /\ DOMAIN rpc_queue[k] = 1..Len(rpc_queue[k])
  BY DEF IInv, VarShape
<1>2. i \in Nat \ {0} /\ i + 0 \in DOMAIN rpc_queue[k]
  BY <1>1
<1>3. ASSUME NEW j \in 1..i
      PROVE  rpc_queue'[k][j] = rpc_queue[k][j + 0] /\ Calm(rpc_queue[k][j + 0])
  <2>1. j + 0 = j /\ j \in DOMAIN rpc_queue[k]
    BY <1>1, <1>2
  <2> QED
    BY <1>1, <2>1 DEF Queued
<1> QED
  BY <1>2, <1>3, EntryKept DEF Calm

(* The call of t joins the queue of stack k. *)
Joins(t, k) ==
  LET x == call'[t].cur IN
  /\ call'[t].op \in {"close", "failed"} =>
       (sock'[x].type # "none" => sock'[x].stack = k)
  /\ call'[t].op = "accept" =>
       /\ sock'[x].state = "LISTEN" /\ sock'[x].stack = k /\ sock'[x].head = call'[t].fd
       /\ \A u \in App : Queued(u) => ~(Closes(u) /\ call[u].cur = x)
       /\ call'[t].found => sock'[x].queue > 0

LEMMA EntriesMore ==
  ASSUME IInv, TypeOK', MissInv, NEW t \in App, NEW k \in Stack, stk' = stk,
         rpc_queue' = [rpc_queue EXCEPT ![k] = Append(@, t)],
         \A u \in App : Queued(u) => Calm(u), Joins(t, k)
  PROVE  EntriesShape'
<1> SUFFICES ASSUME NEW l \in Stack, NEW i \in DOMAIN rpc_queue'[l] PROVE EntryShape(l, i)'
  BY DEF EntriesShape
<1>1. /\ rpc_queue \in [Stack -> Seq(App)] /\ rpc_queue' \in [Stack -> Seq(App)]
      /\ \A j \in Stack : DOMAIN rpc_queue[j] = 1..Len(rpc_queue[j])
  BY DEF IInv, VarShape
<1>2. /\ DOMAIN rpc_queue'[k] = 1..(Len(rpc_queue[k]) + 1)
      /\ rpc_queue'[k][Len(rpc_queue[k]) + 1] = t
      /\ \A j \in 1..Len(rpc_queue[k]) : rpc_queue'[k][j] = rpc_queue[k][j]
      /\ \A j \in Stack \ {k} : rpc_queue'[j] = rpc_queue[j]
      /\ Len(rpc_queue[k]) \in Nat
  BY <1>1
<1>3. i \in Nat \ {0}
  BY <1>1
<1>4. CASE i \in DOMAIN rpc_queue[l]
  <2>1. i + 0 \in DOMAIN rpc_queue[l]
    BY <1>3, <1>4
  <2>2. ASSUME NEW j \in 1..i
        PROVE  rpc_queue'[l][j] = rpc_queue[l][j + 0] /\ Calm(rpc_queue[l][j + 0])
    <3>1. j + 0 = j /\ j \in DOMAIN rpc_queue[l]
      BY <1>1, <1>3, <1>4
    <3>2. rpc_queue'[l][j] = rpc_queue[l][j]
      BY <1>1, <1>2, <3>1
    <3> QED
      BY <1>1, <3>1, <3>2 DEF Queued
  <2>3. Calm(rpc_queue[l][i + 0])
    <3>1. i \in 1..i
      BY <1>3
    <3> QED
      BY <2>2, <3>1
  <2>4. \A j \in 1..i : rpc_queue'[l][j] = rpc_queue[l][j + 0] /\ SameCall(rpc_queue[l][j + 0])
    BY <2>2 DEF Calm
  <2> QED
    BY <1>3, <2>1, <2>3, <2>4, EntryKept
<1>5. CASE i \notin DOMAIN rpc_queue[l]
  <2>1. l = k /\ i = Len(rpc_queue[k]) + 1 /\ rpc_queue'[l][i] = t
    BY <1>1, <1>2, <1>5
  <2>2. ASSUME call'[t].op = "accept", NEW j \in 1..(i - 1),
               Closes(rpc_queue[k][j])', call'[rpc_queue'[k][j]].cur = call'[t].cur
        PROVE  FALSE
    <3>1. PICK u \in App : u = rpc_queue[k][j] /\ rpc_queue'[k][j] = u /\ Queued(u)
      BY <1>1, <1>2, <2>1 DEF Queued
    <3>2. SameCall(u)
      BY <3>1 DEF Calm
    <3>3. Closes(u) /\ call[u].cur = call'[t].cur
      BY <2>2, <3>1, <3>2, SameFields, ZenonT(30) DEF Closes
    <3> QED
      BY <2>2, <3>1, <3>3 DEF Joins
  <2> QED
    BY <2>1, <2>2 DEF Joins, EntryShape, Closes, Live
<1> QED
  BY <1>4, <1>5

(* The first call in the queue of stack k is answered. *)
LEMMA EntriesLess ==
  ASSUME IInv, TypeOK', MissInv, NEW t \in App, NEW k \in Stack,
         rpc_queue[k] # << >>, t = Head(rpc_queue[k]),
         rpc_queue' = [rpc_queue EXCEPT ![k] = Tail(@)],
         \A j \in Stack \ {k} : stk'[j] = stk[j],
         \A u \in App \ {t} : Queued(u) => Calm(u)
  PROVE  EntriesShape'
<1> SUFFICES ASSUME NEW l \in Stack, NEW i \in DOMAIN rpc_queue'[l] PROVE EntryShape(l, i)'
  BY DEF EntriesShape
<1>1. /\ rpc_queue \in [Stack -> Seq(App)] /\ rpc_queue' \in [Stack -> Seq(App)]
      /\ \A j \in Stack : DOMAIN rpc_queue[j] = 1..Len(rpc_queue[j])
  BY DEF IInv, VarShape
<1>2. /\ DOMAIN rpc_queue'[k] = 1..(Len(rpc_queue[k]) - 1)
      /\ \A j \in 1..(Len(rpc_queue[k]) - 1) : rpc_queue'[k][j] = rpc_queue[k][j + 1]
      /\ \A j \in Stack \ {k} : rpc_queue'[j] = rpc_queue[j]
      /\ Len(rpc_queue[k]) \in Nat \ {0} /\ rpc_queue[k][1] = t
  BY <1>1
<1>3. i \in Nat \ {0}
  BY <1>1
<1>4. ASSUME NEW j \in Stack, NEW m \in DOMAIN rpc_queue[j], j # k \/ m # 1
      PROVE  Calm(rpc_queue[j][m])
  <2>1. rpc_queue[j][m] # t /\ rpc_queue[j][m] \in App
    BY <1>1, <1>2, <1>4 DEF IInv, QueueShape
  <2> QED
    BY <2>1 DEF Queued
<1>5. CASE l = k
  <2>1. i + 1 \in DOMAIN rpc_queue[k]
    BY <1>1, <1>2, <1>3, <1>5
  <2>2. ASSUME NEW j \in 1..i
        PROVE  rpc_queue'[k][j] = rpc_queue[k][j + 1] /\ Calm(rpc_queue[k][j + 1])
    <3>1. j + 1 \in DOMAIN rpc_queue[k] /\ j + 1 # 1 /\ j \in 1..(Len(rpc_queue[k]) - 1)
      BY <1>1, <1>2, <1>3, <1>5
    <3> QED
      BY <1>2, <1>4, <3>1
  <2>3. Calm(rpc_queue[k][i + 1])
    <3>1. i \in 1..i
      BY <1>3
    <3> QED
      BY <2>2, <3>1
  <2>4. \A j \in 1..i : rpc_queue'[k][j] = rpc_queue[k][j + 1] /\ SameCall(rpc_queue[k][j + 1])
    BY <2>2 DEF Calm
  <2>5. 1 \in {0, 1} /\ (1 = 0 => (stk[k].pc = "accept" => stk'[k].pc = "accept"))
    OBVIOUS
  <2>6. EntryShape(k, i)'
    BY <1>3, <2>1, <2>3, <2>4, <2>5, EntryKept
  <2> QED
    BY <1>5, <2>6
<1>6. CASE l # k
  <2>1. i + 0 \in DOMAIN rpc_queue[l] /\ stk'[l] = stk[l]
    BY <1>2, <1>3, <1>6
  <2>2. ASSUME NEW j \in 1..i
        PROVE  rpc_queue'[l][j] = rpc_queue[l][j + 0] /\ Calm(rpc_queue[l][j + 0])
    <3>1. j + 0 = j /\ j \in DOMAIN rpc_queue[l]
      BY <1>1, <1>2, <1>3, <1>6
    <3> QED
      BY <1>2, <1>4, <1>6, <3>1
  <2>3. Calm(rpc_queue[l][i + 0])
    <3>1. i \in 1..i
      BY <1>3
    <3> QED
      BY <2>2, <3>1
  <2>4. \A j \in 1..i : rpc_queue'[l][j] = rpc_queue[l][j + 0] /\ SameCall(rpc_queue[l][j + 0])
    BY <2>2 DEF Calm
  <2> QED
    BY <1>3, <2>1, <2>3, <2>4, EntryKept
<1> QED
  BY <1>5, <1>6

(* A clone is of the kind of the socket it was cloned from. *)
LEMMA ListKind ==
  ASSUME IInv, MissInv, NEW h \in Fd, NEW x \in Reach(h)
  PROVE  sock[x].kind = sock[h].kind
<1> DEFINE S == {y \in Fd : sock[y].kind = sock[h].kind}
<1>1. Closed(S)
  <2> SUFFICES ASSUME NEW y \in S, sock[y].listen_next # No
               PROVE  sock[y].listen_next \in S
    BY DEF Closed
  <2>1. TcpShape(y) /\ sock[y].listen_next \in Fd
    BY DEF MissInv, IInv, TypeOK
  <2> QED
    BY <2>1 DEF TcpShape
<1> QED
  BY <1>1, ReachLeast

(* Where recvfrom walks. *)
LEMMA WalkFacts ==
  ASSUME IInv, MissInv, NEW t \in App, call[t].op = "recvfrom", pc[t] = "walk"
  PROVE  /\ call[t].fd \in Fd /\ owner[call[t].fd] = t /\ call[t].cur \in Fd
         /\ Reach(call[t].cur) \subseteq Reach(call[t].fd)
         /\ \A x \in Reach(call[t].cur) :
              /\ x \in Fd /\ Live(x) /\ sock[x].head = call[t].fd
              /\ sock[x].kind = "udp" /\ sock[x].state # "LISTEN"
              /\ \A u \in App : ~Closing(u, x)
<1>1. /\ call[t].fd \in Fd /\ owner[call[t].fd] = t /\ Live(call[t].fd)
      /\ call[t].cur \in Reach(call[t].fd)
  BY DEF IInv, UseShape
<1>2. PICK h \in Fd : h = call[t].fd
  BY <1>1
<1>3. call[t].cur \in Fd /\ Reach(call[t].cur) \subseteq Reach(h)
  <2>1. TypeOK
    BY DEF IInv
  <2> QED
    BY <1>1, <1>2, <2>1, ReachSelf, ReachTrans
<1>4. ASSUME NEW x \in Reach(h)
      PROVE  /\ x \in Fd /\ Live(x) /\ sock[x].head = h
             /\ sock[x].kind = "udp" /\ sock[x].state # "LISTEN"
             /\ \A u \in App : ~Closing(u, x)
  <2>1. /\ x \in Fd /\ Live(x) /\ sock[x].head = h
        /\ \A u \in App : ~Closing(u, x)
    BY <1>1, <1>2, Consts, HeldList
  <2>2. sock[x].kind = "udp"
    BY <1>2, ListKind DEF MissInv, FoundShape
  <2> QED
    BY <2>1, <2>2 DEF MissInv, TcpShape
<1> QED
  BY <1>1, <1>2, <1>3, <1>4

(* A walk meets what it met, if only links that were empty are set. *)
LEMMA ReachMore ==
  ASSUME TypeOK, NEW d \in Fd,
         \A x \in Reach(d) : sock[x].listen_next \in {No, sock'[x].listen_next}
  PROVE  Reach(d) \subseteq Reach(d)'
<1>1. PICK R : R = Reach(d)
  OBVIOUS
<1>2. d \in R /\ R \in SUBSET Fd /\ Closed(R)
  BY <1>1, ReachSelf, ReachClosed
<1>3. ASSUME NEW x \in R, NEW S \in SUBSET Fd, d \in S, Closed(S)' PROVE x \in S
  <2>1. Closed(S \cap R)
    BY <1>1, <1>2, <1>3 DEF Closed
  <2> QED
    BY <2>1, <1>1, <1>2, <1>3, ReachLeast
<1> QED
  BY <1>1, <1>2, <1>3 DEF Reach

(* The call of a thread that a step leaves alone. *)
LEMMA FoundKept ==
  ASSUME IInv, MissInv, NEW t \in App, SameCall(t), sock' \in [Fd -> SockRec],
         \A d \in Fd : Live(d) /\ owner[d] = t =>
           /\ sock'[d].kind = sock[d].kind
           /\ call[t].op = "connect" /\ sock[d].state # "LISTEN" => sock'[d].state # "LISTEN",
         \A x \in Fd :
           Live(x) /\ sock[x].kind = "udp" /\ sock[x].state # "LISTEN"
             /\ owner[sock[x].head] = t /\ (\A u \in App : ~Closing(u, x)) /\ pc[t] = "walk" =>
               /\ sock'[x].queue >= sock[x].queue
               /\ sock[x].listen_next \in {No, sock'[x].listen_next}
  PROVE  FoundShape(t)'
<1>1. /\ pc'[t] = pc[t]
      /\ call'[t].op = call[t].op /\ call'[t].fd = call[t].fd /\ call'[t].cur = call[t].cur
      /\ call'[t].ret = call[t].ret /\ (call'[t].found => call[t].found)
  BY SameFields, StillFound
<1>2. FoundShape(t) /\ UseShape(t)
  BY DEF MissInv, IInv
<1>3. call[t].op \in {"listen", "connect", "recvfrom"} =>
        call[t].fd \in Fd /\ owner[call[t].fd] = t /\ Live(call[t].fd)
  BY <1>2 DEF UseShape
<1>4. /\ call[t].op = "listen" => sock'[call[t].fd].kind = "tcp"
      /\ call[t].op = "connect" => sock'[call[t].fd].state # "LISTEN"
      /\ call[t].op = "recvfrom" => sock'[call[t].fd].kind = "udp"
  BY <1>2, <1>3 DEF FoundShape
<1>5. ASSUME call[t].op = "recvfrom", pc[t] = "walk", call[t].found, NEW c, c = call[t].cur
      PROVE  \E x \in Reach(c)' : sock'[x].queue > 0
  <2>1. PICK x \in Reach(c) : sock[x].queue > 0
    BY <1>2, <1>5 DEF FoundShape
  <2>2. /\ c \in Fd
        /\ \A y \in Reach(c) : /\ y \in Fd /\ sock'[y].queue >= sock[y].queue
                               /\ sock[y].listen_next \in {No, sock'[y].listen_next}
    BY <1>5, WalkFacts
  <2>3. Reach(c) \subseteq Reach(c)'
    BY <2>2, ReachMore DEF IInv
  <2>4. sock[x].queue \in Int /\ sock'[x].queue \in Int
    BY <2>2, SocketsAssumption DEF IInv, TypeOK, SockRec
  <2> QED
    BY <2>1, <2>2, <2>3, <2>4
<1> QED
  BY <1>1, <1>2, <1>4, <1>5 DEF FoundShape

-----------------------------------------------------------------------------
(* A step that takes nothing from a queue, closes no socket and makes none  *)
(* listen.                                                                  *)
Mild(x) ==
  /\ Live(x) =>
       /\ sock'[x].queue >= sock[x].queue /\ sock'[x].kind = sock[x].kind
       /\ sock'[x].stack = sock[x].stack /\ sock'[x].head = sock[x].head
       /\ sock'[x].listen_next = sock[x].listen_next
       /\ sock'[x].state = "LISTEN" <=> sock[x].state = "LISTEN"
  /\ ~Live(x) =>
       /\ sock'[x].state # "LISTEN"
       /\ sock[x].open => sock'[x].type = "none"
       /\ \/ sock'[x].listen_next = No
          \/ sock'[x].listen_next = sock[x].listen_next /\ sock'[x].kind = sock[x].kind

LEMMA MildStep ==
  ASSUME IInv, IInv', MissInv, \A x \in Fd : Mild(x)
  PROVE  /\ \A d \in Fd : TcpShape(d)'
         /\ \A u \in App : SameCall(u) => FoundShape(u)'
         /\ \A u \in App : Queued(u) /\ SameCall(u) => Calm(u)
<1>1. sock' \in [Fd -> SockRec] /\ TypeOK'
  BY DEF IInv, TypeOK, SockRec
<1>2. ASSUME NEW d \in Fd PROVE TcpShape(d)'
  <2>1. TcpShape(d) /\ LinkShape(d) /\ Mild(d)
    BY DEF MissInv, IInv
  <2>2. sock'[d].state = "LISTEN" => sock'[d].kind = "tcp"
    BY <2>1 DEF TcpShape, Mild
  <2>3. ASSUME sock'[d].listen_next # No
        PROVE  sock'[sock'[d].listen_next].kind = sock'[d].kind
    <3>1. /\ sock'[d].listen_next = sock[d].listen_next /\ sock'[d].kind = sock[d].kind
          /\ sock[d].listen_next \in Fd
      BY <2>1, <2>3 DEF Mild, IInv, TypeOK
    <3>2. Live(sock[d].listen_next)
      BY <2>1, <2>3, <3>1 DEF LinkShape
    <3>3. sock'[sock[d].listen_next].kind = sock[sock[d].listen_next].kind
      BY <3>1, <3>2 DEF Mild
    <3> QED
      BY <2>1, <2>3, <3>1, <3>3 DEF TcpShape
  <2> QED
    BY <2>2, <2>3 DEF TcpShape
<1>3. ASSUME NEW u \in App, SameCall(u) PROVE FoundShape(u)'
  <2>1. \A d \in Fd : Live(d) /\ owner[d] = u =>
           /\ sock'[d].kind = sock[d].kind
           /\ call[u].op = "connect" /\ sock[d].state # "LISTEN" => sock'[d].state # "LISTEN"
    BY DEF Mild
  <2>2. \A x \in Fd : Live(x) => /\ sock'[x].queue >= sock[x].queue
                                 /\ sock[x].listen_next \in {No, sock'[x].listen_next}
    BY DEF Mild
  <2> QED
    BY <1>1, <1>3, <2>1, <2>2, FoundKept
<1>4. ASSUME NEW u \in App, Queued(u), SameCall(u) PROVE Calm(u)
  <2>1. CASE Closes(u)
    <3>1. PICK x \in Fd : x = call[u].cur
      BY <1>4, <2>1, QueuedIs
    <3>2. sock[x].open
      <4>1. Closing(u, x)
        BY <1>4, <2>1, <3>1, QueuedIs DEF Closing
      <4> QED
        BY <3>1, <4>1 DEF IInv, RoleShape
    <3>3. sock'[x].type # "none" => Live(x) /\ sock'[x].stack = sock[x].stack
      BY <3>2 DEF Mild
    <3> QED
      BY <1>4, <2>1, <3>1, <3>3 DEF Calm, Closes
  <2>2. CASE call[u].op = "accept"
    <3>1. PICK x \in Fd : x = call[u].cur
      BY <1>4, <2>2, QueuedIs
    <3>2. sock[x].state = "LISTEN" /\ Live(x)
      BY <1>4, <2>2, <3>1 DEF Queued, MissInv, EntriesShape, EntryShape, IInv, SlotShape
    <3> QED
      BY <1>4, <2>2, <3>1, <3>2 DEF Calm, Closes, Mild
  <2> QED
    BY <1>4, <2>1, <2>2 DEF Calm
<1> QED
  BY <1>2, <1>3, <1>4

(* A step of an application thread. *)
LEMMA MissApp ==
  ASSUME IInv, IInv', MissInv, \A x \in Fd : Mild(x), NEW t \in App, pc[t] # "sent",
         \A u \in App \ {t} : SameCall(u), stk' = stk, FoundShape(t)',
         \A d \in served' : owner'[d] # No,
         \/ rpc_queue' = rpc_queue
         \/ \E k \in Stack : /\ rpc_queue' = [rpc_queue EXCEPT ![k] = Append(@, t)]
                             /\ Joins(t, k)
  PROVE  MissInv'
<1>1. ~Queued(t)
  BY QueuedIs
<1>2. \A u \in App : Queued(u) => Calm(u)
  BY <1>1, MildStep
<1>3. EntriesShape'
  <2>1. TypeOK'
    BY DEF IInv
  <2>2. CASE rpc_queue' = rpc_queue
    BY <1>2, <2>1, <2>2, EntriesSame
  <2>3. CASE \E k \in Stack : /\ rpc_queue' = [rpc_queue EXCEPT ![k] = Append(@, t)]
                              /\ Joins(t, k)
    BY <1>2, <2>1, <2>3, EntriesMore
  <2> QED
    BY <2>2, <2>3
<1> QED
  BY <1>3, MildStep DEF MissInv

(* A stack thread answers a call. *)
LEMMA MissReply ==
  ASSUME IInv, IInv', MissInv, \A x \in Fd : Mild(x), NEW t \in App, NEW k \in Stack,
         rpc_queue[k] # << >>, t = Head(rpc_queue[k]), NEW v \in Int, Reply(k, t, v),
         \A j \in Stack \ {k} : stk'[j] = stk[j], FoundShape(t)', UNCHANGED history
  PROVE  MissInv'
<1>1. \A u \in App \ {t} : SameCall(u)
  BY Replied
<1>2. \A u \in App \ {t} : Queued(u) => Calm(u)
  BY <1>1, MildStep
<1>3. EntriesShape'
  <2>1. TypeOK' /\ rpc_queue' = [rpc_queue EXCEPT ![k] = Tail(@)]
    BY DEF IInv, Reply
  <2> QED
    BY <1>2, <2>1, EntriesLess
<1> QED
  BY <1>1, <1>3, MildStep DEF MissInv, history

(* A step that answers nothing. *)
LEMMA MissSilent ==
  ASSUME IInv, IInv', MissInv, \A x \in Fd : Mild(x), \A u \in App : SameCall(u),
         rpc_queue' = rpc_queue, UNCHANGED history,
         \A k \in Stack : stk[k].pc = "accept" => stk'[k].pc = "accept"
  PROVE  MissInv'
<1>1. \A u \in App : Queued(u) => Calm(u)
  BY MildStep
<1>2. EntriesShape'
  BY <1>1, EntriesSame DEF IInv
<1> QED
  BY <1>2, MildStep DEF MissInv, history

-----------------------------------------------------------------------------
(* The steps of application threads *)

LEMMA MildSame ==
  ASSUME IInv, NEW x \in Fd, sock'[x] = sock[x]
  PROVE  Mild(x)
<1>1. SlotShape(x) /\ sock[x].queue \in Int
  BY SocketsAssumption DEF IInv, TypeOK
<1> QED
  BY <1>1 DEF Mild, SlotShape, Live

(* Only fields change that do not matter here. *)
LEMMA MildTouch ==
  ASSUME IInv, NEW x \in Fd, Live(x), sock'[x].queue >= sock[x].queue,
         sock'[x].kind = sock[x].kind, sock'[x].stack = sock[x].stack,
         sock'[x].head = sock[x].head, sock'[x].listen_next = sock[x].listen_next,
         sock'[x].state = "LISTEN" <=> sock[x].state = "LISTEN"
  PROVE  Mild(x)
  BY DEF Mild

(* A slot that is handed out or given back. *)
LEMMA MildSlot ==
  ASSUME IInv, NEW x \in Fd, ~Live(x), sock'[x].state # "LISTEN",
         sock'[x].listen_next = No, sock[x].open => sock'[x].type = "none"
  PROVE  Mild(x)
  BY DEF Mild

LEMMA Asked ==
  ASSUME IInv, NEW t \in App, NEW k \in Stack \cup {No}, NEW c \in CallRec, CallStack(t, k, c)
  PROVE  /\ call'[t].op = c.op /\ call'[t].fd = c.fd /\ call'[t].cur = c.cur
         /\ pc'[t] \in {"sent", "ret"} /\ (k # No => pc'[t] = "sent" /\ call'[t] = c)
         /\ \A u \in App \ {t} : SameCall(u)
         /\ \/ k = No /\ rpc_queue' = rpc_queue
            \/ k \in Stack /\ rpc_queue' = [rpc_queue EXCEPT ![k] = Append(@, t)]
<1>1. call \in [App -> CallRec] /\ DOMAIN pc = App
  BY DEF IInv, VarShape
<1>2. CASE k = No
  <2>1. call'[t] = [c EXCEPT !.ret = -1] /\ pc'[t] = "ret"
    BY <1>1, <1>2 DEF CallStack
  <2> QED
    BY <1>1, <1>2, <2>1 DEF CallStack, CallRec, SameCall
<1>3. CASE k # No
  BY <1>1, <1>3 DEF CallStack, SameCall
<1> QED
  BY <1>2, <1>3

LEMMA FdStack ==
  ASSUME IInv, NEW d \in Fd
  PROVE  get_protocol_stack_by_fd(d) \in Stack \cup {No}
  BY DEF IInv, TypeOK, get_protocol_stack_by_fd

(* The thread goes on with a call that neither accepts, nor receives, nor   *)
(* closes.                                                                  *)
LEMMA MissOn ==
  ASSUME IInv, IInv', MissInv, \A x \in Fd : Mild(x), NEW t \in App, pc[t] # "sent",
         \A u \in App \ {t} : SameCall(u), stk' = stk, \A d \in served' : owner'[d] # No,
         call'[t].op \notin {"accept", "recvfrom", "close", "failed"},
         call'[t].op = "listen" => sock'[call'[t].fd].kind = "tcp",
         call'[t].op = "connect" => sock'[call'[t].fd].state # "LISTEN",
         \/ rpc_queue' = rpc_queue
         \/ \E k \in Stack : rpc_queue' = [rpc_queue EXCEPT ![k] = Append(@, t)]
  PROVE  MissInv'
<1>1. FoundShape(t)'
  BY DEF FoundShape
<1>2. \A k \in Stack : Joins(t, k)
  BY DEF Joins
<1> QED
  BY <1>1, <1>2, MissApp

(* The thread is back in the application. *)
LEMMA MissBack ==
  ASSUME IInv, IInv', MissInv, \A x \in Fd : Mild(x), NEW t \in App, pc[t] # "sent",
         Return(t), rpc_queue' = rpc_queue, stk' = stk, \A d \in served' : owner'[d] # No
  PROVE  MissInv'
<1>1. call'[t] = NoCall /\ \A u \in App \ {t} : SameCall(u)
  BY DEF IInv, VarShape, Return, SameCall
<1>2. NoCall.op = "none"
  BY DEF NoCall
<1> QED
  BY <1>1, <1>2, MissOn

(* The thread closes the first socket of a list, or the next. *)
LEMMA MissCloses ==
  ASSUME IInv, IInv', MissInv, sock' = sock, NEW t \in App, pc[t] # "sent",
         \A u \in App \ {t} : SameCall(u), stk' = stk, \A d \in served' : owner'[d] # No,
         call'[t].op \in {"close", "failed"}, rpc_queue' = rpc_queue
  PROVE  MissInv'
<1>1. FoundShape(t)'
  BY DEF FoundShape
<1> QED
  BY <1>1, MildSame, MissApp

LEMMA CloseAllMiss ==
  ASSUME IInv, IInv', MissInv, NEW t \in App, pc[t] # "sent", CloseAll(t),
         UNCHANGED <<sock, rpc_queue, stk>>
  PROVE  MissInv'
<1>1. /\ call'[t].op = "failed" /\ \A u \in App \ {t} : SameCall(u)
      /\ owner \in [Fd -> App \cup {No}]
  BY DEF CloseAll, IInv, VarShape, TypeOK, SameCall, NoCall
<1>2. \A d \in served' : owner'[d] # No
  BY <1>1 DEF CloseAll, MissInv, IInv, TypeOK
<1> QED
  BY <1>1, <1>2, MissCloses

LEMMA CountSocketMiss ==
  ASSUME IInv, IInv', MissInv, NEW t \in App, CountSocket(t)
  PROVE  MissInv'
<1>1. pc[t] = "count" /\ UNCHANGED <<sock, stk, owner, served>>
  BY DEF CountSocket, history
<1>2. call[t] \in CallRec /\ call[t].op = "socket" /\ call[t].k \in Stack
  BY <1>1 DEF IInv, VarShape, StageShape
<1> DEFINE c == [call[t] EXCEPT !.tmp = 0]
<1>3. c \in CallRec /\ c.op = "socket" /\ CallStack(t, call[t].k, c)
  BY <1>2, SocketsAssumption DEF CallRec, CountSocket
<1> HIDE DEF c
<1> QED
  BY <1>1, <1>2, <1>3, Asked, MildSame, MissOn DEF MissInv

LEMMA SocketReturnsMiss ==
  ASSUME IInv, IInv', MissInv, NEW t \in App, SocketReturns(t)
  PROVE  MissInv'
<1>1. pc[t] = "ret" /\ Return(t) /\ UNCHANGED <<sock, stk, rpc_queue, served>>
  BY DEF SocketReturns
<1>2. \A d \in served' : owner'[d] # No
  BY <1>1, Consts DEF SocketReturns, MissInv, IInv, TypeOK
<1> QED
  BY <1>1, <1>2, MildSame, MissBack

LEMMA CloseKernelMiss ==
  ASSUME IInv, IInv', MissInv, NEW t \in App, CloseKernel(t)
  PROVE  MissInv'
<1>1. /\ pc[t] = "close" /\ Return(t) /\ UNCHANGED <<stk, rpc_queue, owner, served>>
      /\ sock' = [sock EXCEPT ![call[t].cur] = FreeSock] /\ get_socket(call[t].cur) = No
      /\ call[t].op = "close"
  BY DEF CloseKernel, history
<1>2. PICK d \in Fd : d = call[t].cur
  BY <1>1 DEF IInv, StageShape, Closes
<1>3. ~Live(d)
  BY <1>1, <1>2, Consts DEF get_socket, Live
<1>4. /\ sock'[d] = FreeSock /\ \A x \in Fd \ {d} : sock'[x] = sock[x]
      /\ FreeSock.state = "CLOSED" /\ FreeSock.listen_next = No /\ FreeSock.type = "none"
  BY <1>1, <1>2 DEF IInv, TypeOK, FreeSock
<1>5. \A x \in Fd : Mild(x)
  BY <1>3, <1>4, MildSame, MildSlot
<1> QED
  BY <1>1, <1>5, MissBack DEF MissInv

LEMMA CloseNextMiss ==
  ASSUME IInv, IInv', MissInv, NEW t \in App, CloseNext(t)
  PROVE  MissInv'
<1>1. pc[t] = "close" /\ UNCHANGED <<sock, stk, owner, served>>
  BY DEF CloseNext, history
<1>2. call[t] \in CallRec /\ Closes(t) /\ call[t].cur \in Fd
  BY <1>1 DEF IInv, VarShape, StageShape
<1>3. PICK d \in Fd : d = call[t].cur
  BY <1>2
<1>4. Live(d)
  BY <1>3 DEF CloseNext, get_socket, Live
<1> DEFINE c == [call[t] EXCEPT !.f = "close", !.next = sock[call[t].cur].listen_next]
<1>5. /\ c \in CallRec /\ c.op = call[t].op /\ c.cur = d
      /\ CallStack(t, get_protocol_stack_by_fd(d), c)
  <2>1. sock[d].listen_next \in Fd \cup {No}
    BY DEF IInv, TypeOK
  <2> QED
    BY <1>2, <1>3, <2>1 DEF CallRec, CloseNext
<1> HIDE DEF c
<1>6. PICK k \in Stack : k = get_protocol_stack_by_fd(d) /\ k = sock[d].stack /\ k # No
  BY <1>4, StackOf, Consts
<1>7. /\ call'[t].op \in {"close", "failed"} /\ call'[t].cur = d /\ pc'[t] = "sent"
      /\ \A u \in App \ {t} : SameCall(u)
      /\ rpc_queue' = [rpc_queue EXCEPT ![k] = Append(@, t)]
  BY <1>2, <1>5, <1>6, Asked DEF Closes
<1>8. Joins(t, k) /\ FoundShape(t)'
  BY <1>1, <1>6, <1>7 DEF Joins, FoundShape
<1> QED
  BY <1>1, <1>7, <1>8, MildSame, MissApp DEF MissInv

LEMMA CloseReturnsMiss ==
  ASSUME IInv, IInv', MissInv, NEW t \in App, CloseReturns(t)
  PROVE  MissInv'
<1>1. pc[t] = "ret" /\ call[t].f = "close" /\ UNCHANGED <<sock, stk, rpc_queue, owner, served>>
  BY DEF CloseReturns, history
<1>2. call[t] \in CallRec /\ Closes(t)
  BY <1>1 DEF IInv, VarShape, StageShape
<1>3. CASE Return(t)
  BY <1>1, <1>3, MildSame, MissBack DEF MissInv
<1>4. CASE call' = [call EXCEPT ![t].cur = call[t].next, ![t].next = No]
           /\ pc' = [pc EXCEPT ![t] = "close"]
  <2>1. call'[t].op = call[t].op /\ \A u \in App \ {t} : SameCall(u)
    BY <1>2, <1>4 DEF IInv, VarShape, CallRec, SameCall
  <2> QED
    BY <1>1, <1>2, <2>1, MissCloses DEF Closes, MissInv
<1> QED
  BY <1>3, <1>4 DEF CloseReturns

LEMMA CloseMiss ==
  ASSUME IInv, IInv', MissInv, NEW t \in App, NEW d \in Fd, Close(t, d)
  PROVE  MissInv'
<1>1. pc[t] = "idle" /\ UNCHANGED <<sock, stk, rpc_queue>>
  BY DEF Close, Begins
<1>2. call'[t].op = "close" /\ \A u \in App \ {t} : SameCall(u)
  BY DEF Close, IInv, VarShape, SameCall, NoCall
<1>3. \A x \in served' : owner'[x] # No
  BY DEF Close, MissInv, IInv, TypeOK
<1> QED
  BY <1>1, <1>2, <1>3, MissCloses

(* A thread asks the stack of one of its sockets. *)
LEMMA AsksMiss ==
  ASSUME IInv, IInv', MissInv, NEW t \in App, pc[t] # "sent", NEW d \in Fd, NEW c \in CallRec,
         CallStack(t, get_protocol_stack_by_fd(d), c), UNCHANGED <<sock, stk, owner, served>>,
         c.op \notin {"accept", "recvfrom", "close", "failed"},
         c.op = "listen" => sock[c.fd].kind = "tcp",
         c.op = "connect" => sock[c.fd].state # "LISTEN"
  PROVE  MissInv'
<1>1. get_protocol_stack_by_fd(d) \in Stack \cup {No}
  BY FdStack
<1> QED
  BY <1>1, Asked, MildSame, MissOn DEF MissInv

LEMMA BindMiss ==
  ASSUME IInv, IInv', MissInv, NEW t \in App, NEW d \in Fd, Bind(t, d)
  PROVE  MissInv'
<1>1. pc[t] = "idle" /\ UNCHANGED <<sock, stk, owner, served>>
  BY DEF Bind, Begins, history
<1> DEFINE c == [NoCall EXCEPT !.op = "bind", !.fd = d, !.f = "bind", !.cur = d,
                               !.k = get_protocol_stack_by_fd(d)]
<1>2. c \in CallRec /\ c.op = "bind"
  BY NoCallType, FdStack DEF CallRec
<1>3. CallStack(t, get_protocol_stack_by_fd(d), c)
  BY DEF Bind
<1> HIDE DEF c
<1> QED
  BY <1>1, <1>2, <1>3, AsksMiss

LEMMA ListenMiss ==
  ASSUME IInv, IInv', MissInv, NEW t \in App, NEW d \in Fd, Listen(t, d)
  PROVE  MissInv'
<1>1. pc[t] = "idle" /\ UNCHANGED <<sock, stk, owner, served>> /\ sock[d].kind = "tcp"
  BY DEF Listen, Begins, history
<1> DEFINE c == [NoCall EXCEPT !.op = "listen", !.fd = d, !.cur = d,
                               !.f = IF Spread THEN "getsockname" ELSE "listen",
                               !.k = get_protocol_stack_by_fd(d)]
<1>2. c \in CallRec /\ c.op = "listen" /\ c.fd = d
  BY NoCallType, FdStack, ZenonT(30) DEF CallRec
<1>3. CallStack(t, get_protocol_stack_by_fd(d), c)
  BY DEF Listen
<1> HIDE DEF c
<1> QED
  BY <1>1, <1>2, <1>3, AsksMiss

LEMMA QueryMiss ==
  ASSUME IInv, IInv', MissInv, NEW t \in App, NEW d \in Fd, NEW set, Query(t, d, set)
  PROVE  MissInv'
<1>1. pc[t] = "idle" /\ UNCHANGED <<sock, stk, owner, served>>
  BY DEF Query, Begins, history
<1> DEFINE c == [NoCall EXCEPT !.op = "query", !.fd = d, !.f = "query", !.cur = d]
<1>2. c \in CallRec /\ c.op = "query"
  BY NoCallType DEF CallRec
<1>3. CallStack(t, get_protocol_stack_by_fd(d), c)
  BY DEF Query
<1> HIDE DEF c
<1> QED
  BY <1>1, <1>2, <1>3, AsksMiss

LEMMA ConnectMiss ==
  ASSUME IInv, IInv', MissInv, NEW t \in App, NEW d \in Fd, NEW local, Connect(t, d, local)
  PROVE  MissInv'
<1>1. /\ pc[t] = "idle" /\ UNCHANGED <<stk, owner, served>> /\ sock[d].state = "CLOSED"
      /\ Live(d)
  BY NotKernel DEF Connect, Begins, history
<1> DEFINE c == [NoCall EXCEPT !.op = "connect", !.fd = d, !.cur = d]
<1>2. c \in CallRec /\ c.op = "connect" /\ c.fd = d
  BY NoCallType DEF CallRec
<1>3. \/ /\ sock' = [sock EXCEPT ![d].kernel = TRUE]
         /\ call' = [call EXCEPT ![t] = [c EXCEPT !.f = "local"]]
         /\ pc' = [pc EXCEPT ![t] = "ret"] /\ UNCHANGED rpc_queue
      \/ CallStack(t, get_protocol_stack_by_fd(d), [c EXCEPT !.f = "connect"]) /\ UNCHANGED sock
  BY DEF Connect
<1> HIDE DEF c
<1>4. CASE /\ sock' = [sock EXCEPT ![d].kernel = TRUE]
           /\ call' = [call EXCEPT ![t] = [c EXCEPT !.f = "local"]]
           /\ pc' = [pc EXCEPT ![t] = "ret"] /\ UNCHANGED rpc_queue
  <2>1. /\ sock[d] \in SockRec /\ \A x \in Fd \ {d} : sock'[x] = sock[x]
        /\ sock'[d] = [sock[d] EXCEPT !.kernel = TRUE]
    BY <1>4, SockTypes DEF IInv, TypeOK
  <2>2. /\ sock'[d].queue >= sock[d].queue /\ sock'[d].kind = sock[d].kind
        /\ sock'[d].stack = sock[d].stack /\ sock'[d].head = sock[d].head
        /\ sock'[d].listen_next = sock[d].listen_next /\ sock'[d].state = sock[d].state
    BY <2>1, SocketsAssumption DEF SockRec
  <2>3. \A x \in Fd : Mild(x)
    BY <1>1, <2>1, <2>2, MildSame, MildTouch
  <2>4. /\ call'[t].op = "connect" /\ call'[t].fd = d
        /\ \A u \in App \ {t} : SameCall(u)
    BY <1>2, <1>4 DEF IInv, VarShape, CallRec, SameCall
  <2> QED
    BY <1>1, <1>4, <2>2, <2>3, <2>4, MissOn DEF MissInv
<1>5. CASE CallStack(t, get_protocol_stack_by_fd(d), [c EXCEPT !.f = "connect"]) /\ UNCHANGED sock
  <2>1. [c EXCEPT !.f = "connect"] \in CallRec /\ [c EXCEPT !.f = "connect"].op = "connect"
        /\ [c EXCEPT !.f = "connect"].fd = d
    BY <1>2 DEF CallRec
  <2> QED
    BY <1>1, <1>5, <2>1, AsksMiss
<1> QED
  BY <1>3, <1>4, <1>5

LEMMA ConnectReturnsMiss ==
  ASSUME IInv, IInv', MissInv, NEW t \in App, ConnectReturns(t)
  PROVE  MissInv'
<1>1. /\ pc[t] = "ret" /\ call[t].op = "connect" /\ Return(t)
      /\ UNCHANGED <<stk, rpc_queue, owner, served>>
      /\ sock' = [sock EXCEPT ![call[t].fd].type =
                    IF call[t].f = "local" THEN "HOST" ELSE "LIBOS"]
  BY DEF ConnectReturns, history
<1>2. PICK d \in Fd : d = call[t].fd /\ Live(d)
  BY <1>1 DEF IInv, UseShape
<1>3. /\ sock[d] \in SockRec /\ \A x \in Fd \ {d} : sock'[x] = sock[x]
      /\ sock'[d] = [sock[d] EXCEPT !.type = IF call[t].f = "local" THEN "HOST" ELSE "LIBOS"]
  BY <1>1, <1>2, SockTypes DEF IInv, TypeOK
<1>4. /\ sock'[d].queue >= sock[d].queue /\ sock'[d].kind = sock[d].kind
      /\ sock'[d].stack = sock[d].stack /\ sock'[d].head = sock[d].head
      /\ sock'[d].listen_next = sock[d].listen_next /\ sock'[d].state = sock[d].state
  BY <1>3, SocketsAssumption DEF SockRec
<1>5. \A x \in Fd : Mild(x)
  BY <1>2, <1>3, <1>4, MildSame, MildTouch, ZenonT(30)
<1> QED
  BY <1>1, <1>5, MissBack DEF MissInv

LEMMA BindReturnsMiss ==
  ASSUME IInv, IInv', MissInv, NEW t \in App, BindReturns(t)
  PROVE  MissInv'
<1>1. pc[t] = "ret" /\ call[t].f = "bind" /\ UNCHANGED <<sock, stk, rpc_queue>>
  BY DEF BindReturns
<1>2. call[t].op = "bind"
  BY <1>1, RetOp
<1>3. CASE Return(t) /\ UNCHANGED history
  BY <1>1, <1>3, MildSame, MissBack DEF MissInv, history
<1>4. CASE CloseAll(t)
  BY <1>1, <1>4, CloseAllMiss
<1>5. CASE pc' = [pc EXCEPT ![t] = "loop"] /\ UNCHANGED <<call, history>>
  <2>1. \A u \in App \ {t} : SameCall(u)
    BY <1>5 DEF IInv, VarShape, SameCall
  <2> QED
    BY <1>1, <1>2, <1>5, <2>1, MildSame, MissOn DEF MissInv, history
<1> QED
  BY <1>3, <1>4, <1>5 DEF BindReturns

LEMMA NameReturnsMiss ==
  ASSUME IInv, IInv', MissInv, NEW t \in App, NameReturns(t)
  PROVE  MissInv'
<1>1. /\ pc[t] = "ret" /\ call[t].f = "getsockname"
      /\ UNCHANGED <<sock, stk, rpc_queue, owner, served>>
  BY DEF NameReturns, history
<1>2. call[t].op = "listen" /\ call[t] \in CallRec /\ FoundShape(t)
  BY <1>1, RetOp DEF IInv, VarShape, MissInv
<1>3. CASE Return(t)
  BY <1>1, <1>3, MildSame, MissBack DEF MissInv
<1>4. CASE call' = [call EXCEPT ![t].tmp = MinConnStack] /\ pc' = [pc EXCEPT ![t] = "loop"]
  <2>1. /\ call'[t].op = "listen" /\ call'[t].fd = call[t].fd
        /\ \A u \in App \ {t} : SameCall(u)
    BY <1>2, <1>4 DEF IInv, VarShape, CallRec, SameCall
  <2> QED
    BY <1>1, <1>2, <2>1, MildSame, MissOn DEF MissInv, FoundShape
<1> QED
  BY <1>3, <1>4 DEF NameReturns

LEMMA ListenReturnsMiss ==
  ASSUME IInv, IInv', MissInv, NEW t \in App, ListenReturns(t)
  PROVE  MissInv'
<1>1. pc[t] = "ret" /\ call[t].f = "listen" /\ UNCHANGED <<sock, stk, rpc_queue>>
  BY DEF ListenReturns
<1>2. /\ call[t].op = "listen" /\ call[t] \in CallRec /\ FoundShape(t)
      /\ call[t].fd \in Fd /\ owner[call[t].fd] = t
  BY <1>1, RetOp DEF IInv, VarShape, MissInv, UseShape
<1>3. CASE /\ served' \in {served, served \cup {call[t].fd}}
           /\ Return(t) /\ UNCHANGED owner
  <2>1. \A d \in served' : owner'[d] # No
    BY <1>2, <1>3, Consts DEF MissInv
  <2> QED
    BY <1>1, <1>3, <2>1, MildSame, MissBack
<1>4. CASE CloseAll(t)
  BY <1>1, <1>4, CloseAllMiss
<1>5. CASE /\ call' = [call EXCEPT ![t].i = @ + 1] /\ pc' = [pc EXCEPT ![t] = "loop"]
           /\ UNCHANGED history
  <2>1. /\ call'[t].op = "listen" /\ call'[t].fd = call[t].fd
        /\ \A u \in App \ {t} : SameCall(u)
    BY <1>2, <1>5 DEF IInv, VarShape, CallRec, SameCall
  <2> QED
    BY <1>1, <1>2, <1>5, <2>1, MildSame, MissOn DEF MissInv, FoundShape, history
<1> QED
  BY <1>3, <1>4, <1>5 DEF ListenReturns

LEMMA BroadcastDoneMiss ==
  ASSUME IInv, IInv', MissInv, NEW t \in App, BroadcastDone(t)
  PROVE  MissInv'
<1>1. /\ pc[t] = "loop" /\ Return(t) /\ UNCHANGED <<sock, stk, rpc_queue, owner>>
      /\ served' \in {served, served \cup {call[t].fd}}
  BY DEF BroadcastDone
<1>2. call[t].fd \in Fd /\ owner[call[t].fd] = t
  BY <1>1 DEF IInv, StageShape, UseShape
<1>3. \A d \in served' : owner'[d] # No
  BY <1>1, <1>2, Consts DEF MissInv
<1> QED
  BY <1>1, <1>3, MildSame, MissBack

LEMMA MasterMild ==
  ASSUME IInv, NEW d \in Fd, Live(d), NEW b, sock' = [sock EXCEPT ![d].master = b]
  PROVE  \A x \in Fd : Mild(x) /\ sock'[x].kind = sock[x].kind
<1>1. /\ sock[d] \in SockRec /\ \A x \in Fd \ {d} : sock'[x] = sock[x]
      /\ sock'[d] = [sock[d] EXCEPT !.master = b]
  BY SockTypes DEF IInv, TypeOK
<1>2. /\ sock'[d].queue >= sock[d].queue /\ sock'[d].kind = sock[d].kind
      /\ sock'[d].stack = sock[d].stack /\ sock'[d].head = sock[d].head
      /\ sock'[d].listen_next = sock[d].listen_next /\ sock'[d].state = sock[d].state
  BY <1>1, SocketsAssumption DEF SockRec
<1> QED
  BY <1>1, <1>2, MildSame, MildTouch

LEMMA BroadcastMiss ==
  ASSUME IInv, IInv', MissInv, NEW t \in App, Broadcast(t)
  PROVE  MissInv'
<1>1. pc[t] = "loop" /\ call[t].i < StackNum /\ UNCHANGED <<stk, owner, served>>
  BY DEF Broadcast, history
<1>2. /\ call[t] \in CallRec /\ call[t].op \in {"bind", "listen"} /\ FoundShape(t)
      /\ call[t].fd \in Fd /\ Live(call[t].fd)
  BY <1>1 DEF IInv, VarShape, StageShape, UseShape, MissInv
<1>3. PICK d \in Fd : d = call[t].fd
  BY <1>2
<1>4. call[t].i \in Stack
  BY <1>1, <1>2, SocketsAssumption DEF CallRec, Stack
<1>5. CASE call' = [call EXCEPT ![t].i = @ + 1] /\ UNCHANGED <<pc, rpc_queue, sock>>
  <2>1. /\ call'[t].op = call[t].op /\ call'[t].fd = d
        /\ \A u \in App \ {t} : SameCall(u)
    BY <1>2, <1>3, <1>5 DEF IInv, VarShape, CallRec, SameCall
  <2> QED
    BY <1>1, <1>2, <1>3, <1>5, <2>1, MildSame, MissOn DEF MissInv, FoundShape
<1>6. CASE CallStack(t, call[t].i, [call[t] EXCEPT !.f = "shadow", !.cur = d]) /\ UNCHANGED sock
  <2> DEFINE c == [call[t] EXCEPT !.f = "shadow", !.cur = d]
  <2>1. c \in CallRec /\ c.op = call[t].op /\ c.fd = d
    BY <1>2, <1>3 DEF CallRec
  <2>2. CallStack(t, call[t].i, c)
    BY <1>6
  <2> HIDE DEF c
  <2>3. /\ call'[t].op = c.op /\ call'[t].fd = c.fd /\ \A u \in App \ {t} : SameCall(u)
        /\ \/ rpc_queue' = rpc_queue
           \/ \E k \in Stack : rpc_queue' = [rpc_queue EXCEPT ![k] = Append(@, t)]
    BY <1>4, <2>1, <2>2, Asked
  <2>4. call'[t].op = "listen" => sock'[call'[t].fd].kind = "tcp"
    BY <1>2, <1>3, <1>6, <2>1, <2>3 DEF FoundShape
  <2> QED
    BY <1>1, <1>2, <1>6, <2>1, <2>3, <2>4, MildSame, MissOn DEF MissInv
<1>7. CASE /\ sock' = [sock EXCEPT ![d].master = (call[t].tmp = call[t].i)]
           /\ CallStack(t, get_protocol_stack_by_fd(d), [call[t] EXCEPT !.f = "listen", !.cur = d])
  <2> DEFINE c == [call[t] EXCEPT !.f = "listen", !.cur = d]
  <2>1. c \in CallRec /\ c.op = call[t].op /\ c.fd = d
    BY <1>2, <1>3 DEF CallRec
  <2>2. CallStack(t, get_protocol_stack_by_fd(d), c)
    BY <1>7
  <2> HIDE DEF c
  <2>3. \A x \in Fd : Mild(x) /\ sock'[x].kind = sock[x].kind
    BY <1>2, <1>3, <1>7, MasterMild
  <2>4. get_protocol_stack_by_fd(d) \in Stack \cup {No}
    BY FdStack
  <2>5. call'[t].op = "listen" => sock'[call'[t].fd].kind = "tcp"
    BY <1>2, <1>3, <2>1, <2>2, <2>3, <2>4, Asked DEF FoundShape
  <2> QED
    BY <1>1, <1>2, <2>1, <2>2, <2>3, <2>4, <2>5, Asked, MissOn DEF MissInv
<1> QED
  BY <1>3, <1>5, <1>6, <1>7 DEF Broadcast

LEMMA ShadowReturnsMiss ==
  ASSUME IInv, IInv', MissInv, NEW t \in App, ShadowReturns(t)
  PROVE  MissInv'
<1>1. pc[t] = "ret" /\ call[t].f = "shadow" /\ UNCHANGED stk
  BY DEF ShadowReturns
<1>2. /\ call[t].op \in {"bind", "listen"} /\ call[t] \in CallRec /\ FoundShape(t)
  BY <1>1, RetOp DEF MissInv
<1>3. PICK d \in Fd : d = call[t].fd /\ owner[d] = t /\ Live(d)
  BY <1>2 DEF IInv, UseShape
<1>4. call[t].ret = -1 \/ (call[t].ret \in Reach(d) /\ call[t].ret # d)
  BY <1>1, <1>2, <1>3 DEF IInv, UseShape
<1>5. CASE CloseAll(t) /\ UNCHANGED <<sock, rpc_queue>>
  BY <1>1, <1>5, CloseAllMiss, SMTT(30)
<1>6. CASE /\ call' = [call EXCEPT ![t].i = @ + 1, ![t].ret = 0]
           /\ pc' = [pc EXCEPT ![t] = "loop"] /\ UNCHANGED <<sock, rpc_queue, history>>
  <2>1. /\ call'[t].op = call[t].op /\ call'[t].fd = d
        /\ \A u \in App \ {t} : SameCall(u)
    BY <1>2, <1>3, <1>6 DEF IInv, VarShape, CallRec, SameCall
  <2> QED
    BY <1>1, <1>2, <1>3, <1>6, <2>1, MildSame, MissOn, Zenon DEF MissInv, FoundShape, history
<1>7. CASE /\ call[t].ret > 0 /\ call[t].op = "listen"
           /\ sock' = [sock EXCEPT ![call[t].ret].master = (call[t].tmp = call[t].i)]
           /\ CallStack(t, get_protocol_stack_by_fd(call[t].ret),
                        [call[t] EXCEPT !.f = "listen", !.cur = call[t].ret, !.ret = 0])
           /\ UNCHANGED history
  <2>1. PICK x \in Fd : x = call[t].ret /\ x \in Reach(d) /\ x # d
    BY <1>4, <1>7, ReachSelf
  <2>2. Live(x)
    BY <2>1, <1>3, Consts, HeldList
  <2> DEFINE c == [call[t] EXCEPT !.f = "listen", !.cur = x, !.ret = 0]
             b == call[t].tmp = call[t].i
  <2>3. c \in CallRec /\ c.op = "listen" /\ c.fd = d
    <3>1. 0 \in Int
      OBVIOUS
    <3> QED
      BY <3>1, <1>2, <1>3, <1>7, <2>1 DEF CallRec
  <2>4. CallStack(t, get_protocol_stack_by_fd(x), c) /\ sock' = [sock EXCEPT ![x].master = b]
    BY <1>7, <2>1
  <2> HIDE DEF c, b
  <2>5. \A y \in Fd : Mild(y) /\ sock'[y].kind = sock[y].kind
    BY <2>2, <2>4, MasterMild
  <2>6. get_protocol_stack_by_fd(x) \in Stack \cup {No}
    BY FdStack
  <2>7. /\ call'[t].op = c.op /\ call'[t].fd = c.fd /\ \A u \in App \ {t} : SameCall(u)
        /\ \/ rpc_queue' = rpc_queue
           \/ \E k \in Stack : rpc_queue' = [rpc_queue EXCEPT ![k] = Append(@, t)]
    BY <2>3, <2>4, <2>6, Asked
  <2>8. sock'[call'[t].fd].kind = "tcp" /\ call'[t].op = "listen"
    BY <1>2, <1>3, <1>7, <2>3, <2>5, <2>7 DEF FoundShape
  <2>9. \A h \in served' : owner'[h] # No
    BY <1>7 DEF history, MissInv
  <2> QED
    BY <1>1, <2>5, <2>7, <2>8, <2>9, MissOn
<1> QED
  BY <1>5, <1>6, <1>7 DEF ShadowReturns

LEMMA NewFdMild ==
  ASSUME IInv, FreeFds # {}, NEW r \in SockRec, r.state # "LISTEN", r.listen_next = No,
         sock' = [sock EXCEPT ![NewFd] = r]
  PROVE  \A x \in Fd : Mild(x)
<1>1. NewFd \in Fd /\ ~sock[NewFd].open
  BY NewFdFree
<1>2. ~Live(NewFd)
  BY <1>1, FreeFd
<1>3. sock'[NewFd] = r /\ \A x \in Fd \ {NewFd} : sock'[x] = sock[x]
  BY <1>1 DEF IInv, TypeOK
<1> QED
  BY <1>1, <1>2, <1>3, MildSame, MildSlot

LEMMA AcceptReturnsMiss ==
  ASSUME IInv, IInv', MissInv, NEW t \in App, AcceptReturns(t)
  PROVE  MissInv'
<1>1. pc[t] = "ret" /\ Return(t) /\ UNCHANGED <<rpc_queue, stk, served>>
  BY DEF AcceptReturns
<1>2. \A d \in served' : owner'[d] # No
  BY <1>1, Consts DEF AcceptReturns, MissInv, IInv, TypeOK
<1>3. \A x \in Fd : Mild(x)
  <2>1. CASE sock' = sock
    BY <2>1, MildSame
  <2>2. CASE /\ FreeFds # {}
             /\ sock' = [sock EXCEPT ![NewFd] = [KernelSock(NewFd) EXCEPT !.kernel = TRUE]]
    <3>1. NewFd \in Fd
      BY <2>2, NewFdFree
    <3> DEFINE q == KernelSock(NewFd)
    <3>2. q \in SockRec /\ q.state = "CLOSED" /\ q.listen_next = No
      BY <3>1, KernelSockIs
    <3> HIDE DEF q
    <3> DEFINE r == [q EXCEPT !.kernel = TRUE]
    <3>3. r \in SockRec /\ r.state = "CLOSED" /\ r.listen_next = No
      BY <3>2 DEF SockRec
    <3>4. sock' = [sock EXCEPT ![NewFd] = r]
      BY <2>2 DEF q
    <3> HIDE DEF r
    <3> QED
      BY <2>2, <3>3, <3>4, NewFdMild
  <2> QED
    BY <2>1, <2>2 DEF AcceptReturns
<1> QED
  BY <1>1, <1>2, <1>3, MissBack

LEMMA AskReturnsMiss ==
  ASSUME IInv, IInv', MissInv, NEW t \in App, AskReturns(t)
  PROVE  MissInv'
<1>1. pc[t] = "ret" /\ Return(t) /\ UNCHANGED <<sock, rpc_queue, stk, owner, served>>
  BY DEF AskReturns, history
<1> QED
  BY <1>1, MildSame, MissBack DEF MissInv

LEMMA KernelSocketMiss ==
  ASSUME IInv, IInv', MissInv, NEW t \in App, KernelSocket(t)
  PROVE  MissInv'
<1>1. /\ pc[t] = "idle" /\ UNCHANGED <<rpc_queue, stk, pc, call, served>>
      /\ FreeFds # {} /\ sock' = [sock EXCEPT ![NewFd] = KernelSock(NewFd)]
  BY DEF KernelSocket, Begins
<1>2. \A d \in served' : owner'[d] # No
  BY <1>1, Consts DEF KernelSocket, MissInv, IInv, TypeOK
<1>3. \A x \in Fd : Mild(x)
  <2>1. NewFd \in Fd
    BY <1>1, NewFdFree
  <2> DEFINE q == KernelSock(NewFd)
  <2>2. q \in SockRec /\ q.state = "CLOSED" /\ q.listen_next = No
    BY <2>1, KernelSockIs
  <2>3. sock' = [sock EXCEPT ![NewFd] = q]
    BY <1>1
  <2> HIDE DEF q
  <2> QED
    BY <1>1, <2>2, <2>3, NewFdMild
<1>4. call[t].op = "none" /\ \A u \in App \ {t} : SameCall(u)
  BY <1>1, Idle DEF SameCall
<1> QED
  BY <1>1, <1>2, <1>3, <1>4, MissOn

LEMMA GetBindStackMiss ==
  ASSUME IInv, IInv', MissInv, NEW t \in App, NEW kind, GetBindStack(t, kind)
  PROVE  MissInv'
<1>1. pc[t] = "idle" /\ UNCHANGED <<sock, rpc_queue, stk, owner, served>>
  BY DEF GetBindStack, Begins, history
<1>2. \/ UNCHANGED <<pc, call>>
      \/ \E k : Counting(t, kind, k)
  BY DEF GetBindStack
<1>3. /\ call'[t].op \in {"none", "socket"} /\ \A u \in App \ {t} : SameCall(u)
  <2>1. CASE UNCHANGED <<pc, call>>
    BY <1>1, <2>1, Idle DEF SameCall
  <2>2. ASSUME NEW k, Counting(t, kind, k)
        PROVE  call'[t].op = "socket" /\ \A u \in App \ {t} : SameCall(u)
    BY <2>2 DEF Counting, IInv, VarShape, SameCall, NoCall
  <2> QED
    BY <1>2, <2>1, <2>2
<1> QED
  BY <1>1, <1>3, MildSame, MissOn DEF MissInv

-----------------------------------------------------------------------------
(* Of the sockets of a list there is a first one. *)
LEMMA FirstOf ==
  ASSUME TypeOK, NEW d \in Fd, NEW M \in SUBSET Reach(d), M # {}
  PROVE  \E x \in M : M \subseteq Reach(x)
<1> SUFFICES ASSUME \A x \in M : ~(M \subseteq Reach(x)) PROVE FALSE
  OBVIOUS
<1> DEFINE S == {y \in Reach(d) : M \subseteq Reach(y)}
<1>1. Reach(d) \subseteq Fd /\ d \in S
  BY ReachSelf
<1>2. ASSUME NEW y \in S PROVE sock[y].listen_next = No \/ sock[y].listen_next \in S
  <2>1. PICK m \in M : m \in Reach(y) /\ m # y
    OBVIOUS
  <2>2. y \in Fd /\ y \notin M
    BY <1>1
  <2>3. sock[y].listen_next \in Fd /\ M \subseteq Reach(sock[y].listen_next)
    BY <2>1, <2>2, ReachStep
  <2>4. sock[y].listen_next \in Reach(d)
    BY <2>3, ReachClosed, Consts DEF Closed
  <2> QED
    BY <2>3, <2>4
<1>3. Reach(d) \subseteq S
  BY <1>1, <1>2, ReachLeast DEF Closed
<1> QED
  BY <1>3

(* get_min_accept_sock finds a socket when a connection is waiting. *)
LEMMA MinAcceptFinds ==
  ASSUME IInv, NEW d \in Fd, Waiting(d)
  PROVE  MinAcceptSock(d) # {}
<1> DEFINE in == {x \in Reach(d) : sock[x].state = "LISTEN" /\ sock[x].queue > 0}
           min == {x \in in : \A y \in in :
                     conn_num[sock[x].stack] <= conn_num[sock[y].stack]}
           T == {conn_num[sock[x].stack] : x \in in}
<1>1. in # {} /\ in \subseteq Fd
  BY ReachSelf DEF Waiting
<1>2. \A x \in in : sock[x].stack \in Stack
  BY <1>1 DEF IInv, SlotShape
<1>3. T \subseteq Nat /\ T # {}
  <2>1. conn_num \in [Stack -> 0..(ConnMod - 1)]
    BY DEF IInv, TypeOK
  <2> QED
    BY <1>1, <1>2, <2>1, SocketsAssumption
<1>4. PICK n \in T : \A m \in T : n <= m
  BY <1>3, NatMin
<1>5. min # {} /\ min \in SUBSET Reach(d)
  BY <1>4
<1>6. PICK x \in min : min \subseteq Reach(x)
  <2> HIDE DEF min
  <2>1. TypeOK
    BY DEF IInv
  <2> QED
    BY <1>5, <2>1, FirstOf
<1> QED
  BY <1>6 DEF MinAcceptSock

LEMMA AcceptMiss ==
  ASSUME IInv, IInv', MissInv, NEW t \in App, NEW d \in Fd, Accept(t, d)
  PROVE  MissInv'
<1>1. pc[t] = "idle" /\ UNCHANGED <<sock, stk, owner, served>> /\ owner[d] # No
  BY DEF Accept, Begins, history, MissInv
<1> DEFINE c == [NoCall EXCEPT !.op = "accept", !.fd = d, !.found = Waiting(d)]
<1>2. /\ c \in CallRec /\ c.op = "accept" /\ c.fd = d /\ c.found = Waiting(d)
  <2>1. Waiting(d) \in BOOLEAN
    BY DEF Waiting
  <2> QED
    BY <2>1, NoCallType, ZenonT(30) DEF CallRec
<1>3. CASE /\ MinAcceptSock(d) = {} /\ UNCHANGED rpc_queue
           /\ call' = [call EXCEPT ![t] = [c EXCEPT !.ret = -1]]
           /\ pc' = [pc EXCEPT ![t] = "ret"]
  <2> HIDE DEF c
  <2>1. ~Waiting(d)
    BY <1>3, MinAcceptFinds
  <2>2. /\ call'[t].op = "accept" /\ ~call'[t].found
        /\ \A u \in App \ {t} : SameCall(u)
    BY <1>2, <1>3, <2>1 DEF IInv, VarShape, CallRec, SameCall
  <2>3. FoundShape(t)'
    BY <2>2 DEF FoundShape
  <2> QED
    BY <1>1, <1>3, <2>2, <2>3, MildSame, MissApp DEF MissInv
<1>4. CASE /\ MinAcceptSock(d) # {}
           /\ CallStack(t, get_protocol_stack_by_fd(CHOOSE y \in MinAcceptSock(d) : TRUE),
                        [c EXCEPT !.f = "accept", !.cur = CHOOSE y \in MinAcceptSock(d) : TRUE])
  <2>1. PICK x \in MinAcceptSock(d) : x = CHOOSE y \in MinAcceptSock(d) : TRUE
    BY <1>4
  <2>2. x \in Reach(d) /\ sock[x].state = "LISTEN" /\ sock[x].queue > 0
    BY DEF MinAcceptSock
  <2>3. /\ x \in Fd /\ sock[x].head = d /\ Live(x)
        /\ \A u \in App : ~Closing(u, x)
    BY <1>1, <2>2, HeldList DEF IInv, SlotShape
  <2>4. PICK k \in Stack : k = get_protocol_stack_by_fd(x) /\ k = sock[x].stack /\ k # No
    BY <2>3, StackOf, Consts
  <2> HIDE DEF c
  <2> DEFINE e == [c EXCEPT !.f = "accept", !.cur = x]
  <2>5. e \in CallRec /\ e.op = "accept" /\ e.fd = d /\ e.cur = x
    BY <1>2, <2>3 DEF CallRec
  <2>6. CallStack(t, k, e)
    BY <1>4, <2>1, <2>4
  <2> HIDE DEF e
  <2>7. /\ call'[t] = e /\ pc'[t] = "sent" /\ \A u \in App \ {t} : SameCall(u)
        /\ rpc_queue' = [rpc_queue EXCEPT ![k] = Append(@, t)]
    BY <2>4, <2>5, <2>6, Asked
  <2>8. \A u \in App : Queued(u) => ~(Closes(u) /\ call[u].cur = x)
    BY <2>3, QueuedIs DEF Closing
  <2>9. Joins(t, k)
    BY <1>1, <2>2, <2>3, <2>4, <2>5, <2>7, <2>8 DEF Joins
  <2>10. FoundShape(t)'
    BY <2>5, <2>7 DEF FoundShape
  <2> QED
    BY <1>1, <2>7, <2>9, <2>10, MildSame, MissApp DEF MissInv
<1> QED
  BY <1>3, <1>4 DEF Accept

LEMMA RecvFromMiss ==
  ASSUME IInv, IInv', MissInv, NEW t \in App, NEW d \in Fd, RecvFrom(t, d)
  PROVE  MissInv'
<1>1. /\ pc[t] = "idle" /\ UNCHANGED <<sock, stk, owner, served, rpc_queue>>
      /\ sock[d].kind = "udp" /\ pc' = [pc EXCEPT ![t] = "walk"]
  BY DEF RecvFrom, Begins, history
<1> DEFINE f == \E x \in Reach(d) : sock[x].queue > 0
           c == [NoCall EXCEPT !.op = "recvfrom", !.fd = d, !.cur = d, !.found = f]
<1>2. call' = [call EXCEPT ![t] = c]
  BY DEF RecvFrom
<1>3. f \in BOOLEAN
  OBVIOUS
<1>4. c.op = "recvfrom" /\ c.fd = d /\ c.cur = d /\ c.found = f
  BY DEF NoCall
<1> HIDE DEF c
<1>5. call'[t] = c /\ pc'[t] = "walk" /\ \A u \in App \ {t} : SameCall(u)
  BY <1>1, <1>2 DEF IInv, VarShape, SameCall
<1>6. Reach(d)' = Reach(d)
  BY <1>1 DEF Reach, Closed
<1>7. FoundShape(t)'
  BY <1>1, <1>4, <1>5, <1>6 DEF FoundShape
<1> QED
  BY <1>1, <1>5, <1>7, MildSame, MissApp DEF MissInv, c

(* What a walk takes from a socket nobody else looks for. *)
LEMMA RecvWalkMiss ==
  ASSUME IInv, IInv', MissInv, NEW t \in App, RecvWalk(t)
  PROVE  MissInv'
<1>1. pc[t] = "walk" /\ UNCHANGED <<rpc_queue, stk, owner, served>>
  BY DEF RecvWalk, history
<1>2. call[t] \in CallRec /\ call[t].op = "recvfrom" /\ FoundShape(t)
  BY <1>1 DEF IInv, VarShape, StageShape, MissInv
<1>3. PICK x \in Fd : x = call[t].cur
  BY <1>1, <1>2, WalkFacts
<1>4. /\ Live(x) /\ sock[x].head = call[t].fd /\ sock[x].state # "LISTEN"
      /\ owner[call[t].fd] = t /\ x \in Reach(x)
      /\ \A u \in App : ~Closing(u, x)
      /\ \A y \in Reach(x) : y \in Fd /\ Live(y)
  BY <1>1, <1>2, <1>3, WalkFacts, ReachSelf
<1>5. CASE /\ sock[x].queue > 0 /\ Return(t)
           /\ sock' = [sock EXCEPT ![x].queue = @ - 1]
  <2>1. /\ sock[x] \in SockRec /\ \A y \in Fd \ {x} : sock'[y] = sock[y]
        /\ sock'[x] = [sock[x] EXCEPT !.queue = @ - 1]
    BY <1>5, SockTypes DEF IInv, TypeOK
  <2>2. /\ sock'[x].type = sock[x].type /\ sock'[x].kind = sock[x].kind
        /\ sock'[x].stack = sock[x].stack /\ sock'[x].head = sock[x].head
        /\ sock'[x].listen_next = sock[x].listen_next /\ sock'[x].state = sock[x].state
    BY <2>1 DEF SockRec
  <2>3. call'[t] = NoCall /\ \A u \in App \ {t} : SameCall(u)
    BY <1>5 DEF IInv, VarShape, Return, SameCall
  <2>4. \A y \in Fd : sock'[y].kind = sock[y].kind /\ sock'[y].state = sock[y].state
                      /\ sock'[y].listen_next = sock[y].listen_next
                      /\ sock'[y].type = sock[y].type /\ sock'[y].stack = sock[y].stack
                      /\ sock'[y].head = sock[y].head
    BY <2>1, <2>2
  <2>5. \A y \in Fd : TcpShape(y)'
    BY <2>4, Consts DEF TcpShape, MissInv, IInv, TypeOK
  <2>6. ASSUME NEW u \in App PROVE FoundShape(u)'
    <3>1. CASE u = t
      BY <3>1, <2>3 DEF FoundShape, NoCall
    <3>2. CASE u # t
      <4>1. \A y \in Fd : owner[sock[y].head] = u => sock'[y] = sock[y]
        BY <1>4, <2>1, <3>2
      <4>2. \A y \in Fd : sock[y].queue \in Int
        BY SocketsAssumption DEF IInv, TypeOK
      <4>3. sock' \in [Fd -> SockRec]
        BY DEF IInv, TypeOK, SockRec
      <4> QED
        BY <2>3, <2>4, <3>2, <4>1, <4>2, <4>3, FoundKept
    <3> QED
      BY <3>1, <3>2
  <2>7. ASSUME NEW u \in App, Queued(u) PROVE Calm(u)
    <3>1. u # t /\ SameCall(u) /\ (Closes(u) \/ call[u].op = "accept" => call[u].cur \in Fd)
      BY <1>1, <2>3, <2>7, QueuedIs
    <3>2. call[u].op = "accept" => sock[call[u].cur].state = "LISTEN"
      BY <2>7 DEF Queued, MissInv, EntriesShape, EntryShape
    <3>3. call[u].op = "accept" => sock'[call[u].cur] = sock[call[u].cur]
      BY <1>4, <2>1, <3>1, <3>2
    <3>4. call[u].op = "accept" => sock[call[u].cur].queue \in Int
      BY <3>1, SocketsAssumption DEF IInv, TypeOK
    <3> QED
      BY <2>4, <3>1, <3>2, <3>3, <3>4 DEF Calm, Live
  <2>8. EntriesShape'
    BY <1>1, <2>7, EntriesSame DEF IInv
  <2> QED
    BY <1>1, <2>5, <2>6, <2>8 DEF MissInv
<1>6. CASE /\ sock[x].queue = 0 /\ sock[x].listen_next # No
           /\ call' = [call EXCEPT ![t].cur = sock[x].listen_next]
           /\ UNCHANGED <<pc, sock>>
  <2>1. /\ call'[t].op = "recvfrom" /\ call'[t].fd = call[t].fd
        /\ call'[t].cur = sock[x].listen_next /\ call'[t].found = call[t].found
        /\ call'[t].ret = call[t].ret
        /\ \A u \in App \ {t} : SameCall(u)
    BY <1>2, <1>6 DEF IInv, VarShape, CallRec, SameCall
  <2>2. PICK n : n = sock[x].listen_next
    OBVIOUS
  <2>3. Reach(n)' = Reach(n)
    BY <1>6 DEF Reach, Closed
  <2>4. call[t].found => \E y \in Reach(n) : sock[y].queue > 0
    <3> SUFFICES ASSUME call[t].found PROVE \E y \in Reach(n) : sock[y].queue > 0
      OBVIOUS
    <3>1. PICK y \in Reach(x) : sock[y].queue > 0
      BY <1>1, <1>2, <1>3 DEF FoundShape
    <3>2. y # x
      BY <3>1, <1>6
    <3>3. y \in Reach(n)
      BY <3>1, <3>2, <2>2, ReachStep DEF IInv
    <3> QED
      BY <3>1, <3>3
  <2>5. FoundShape(t)'
    BY <1>1, <1>2, <1>6, <2>1, <2>2, <2>3, <2>4 DEF FoundShape
  <2> QED
    BY <1>1, <1>6, <2>1, <2>5, MildSame, MissApp DEF MissInv
<1>7. CASE /\ sock[x].queue = 0
           /\ ~(sock[x].listen_next # No /\ get_socket(sock[x].listen_next) # No)
           /\ call' = [call EXCEPT ![t].ret = -1] /\ pc' = [pc EXCEPT ![t] = "ret"]
           /\ UNCHANGED sock
  <2>1. /\ call'[t].op = "recvfrom" /\ call'[t].fd = call[t].fd
        /\ call'[t].found = call[t].found
        /\ \A u \in App \ {t} : SameCall(u)
    BY <1>2, <1>7 DEF IInv, VarShape, CallRec, SameCall
  <2>2. ~call[t].found
    <3> SUFFICES ASSUME call[t].found PROVE FALSE
      OBVIOUS
    <3>1. PICK y \in Reach(x) : sock[y].queue > 0
      BY <1>1, <1>2, <1>3 DEF FoundShape
    <3>2. y # x
      BY <3>1, <1>7
    <3>3. sock[x].listen_next \in Fd
      BY <3>1, <3>2, ReachStep DEF IInv
    <3>4. sock[x].listen_next \in Reach(x)
      BY <1>4, <3>3, ReachClosed, Consts DEF Closed, IInv
    <3>5. Live(sock[x].listen_next)
      BY <1>4, <3>4
    <3> QED
      BY <1>7, <3>3, <3>5, Consts DEF get_socket, Live
  <2>3. FoundShape(t)'
    <3>1. pc'[t] = "ret"
      BY <1>7 DEF IInv, VarShape
    <3> QED
      BY <1>2, <1>7, <2>1, <2>2, <3>1 DEF FoundShape
  <2> QED
    BY <1>1, <1>7, <2>1, <2>3, MildSame, MissApp DEF MissInv
<1> QED
  BY <1>3, <1>5, <1>6, <1>7 DEF RecvWalk

-----------------------------------------------------------------------------
(* The steps of stack threads *)

(* A mild step answers a call that is not an accept in vain. *)
LEMMA MissAnswer ==
  ASSUME IInv, IInv', MissInv, \A x \in Fd : Mild(x), NEW t \in App, NEW k \in Stack,
         rpc_queue[k] # << >>, t = Head(rpc_queue[k]), NEW v \in Int, Reply(k, t, v),
         \A j \in Stack \ {k} : stk'[j] = stk[j], UNCHANGED history,
         call[t].op = "accept" => v >= 0 \/ ~call[t].found
  PROVE  MissInv'
<1>1. pc[t] = "sent" /\ StageShape(t) /\ UseShape(t) /\ call[t] \in CallRec /\ FoundShape(t)
  BY Served DEF MissInv
<1>2. /\ pc'[t] = "ret" /\ call'[t].op = call[t].op /\ call'[t].fd = call[t].fd
      /\ call'[t].ret = v /\ call'[t].found = call[t].found
  BY <1>1 DEF Reply, CallRec, IInv, VarShape
<1>3. call[t].op # "recvfrom"
  BY <1>1 DEF StageShape, Closes
<1>4. /\ call[t].op = "listen" => sock'[call[t].fd].kind = "tcp"
      /\ call[t].op = "connect" => sock'[call[t].fd].state # "LISTEN"
  BY <1>1 DEF UseShape, FoundShape, Mild
<1>5. FoundShape(t)'
  BY <1>2, <1>3, <1>4 DEF FoundShape
<1> QED
  BY <1>5, MissReply

LEMMA StackSocketMiss ==
  ASSUME IInv, IInv', MissInv, NEW k \in Stack, NEW t \in App, StackSocket(k, t)
  PROVE  MissInv'
<1>1. /\ rpc_queue[k] # << >> /\ t = Head(rpc_queue[k])
      /\ call[t].f \in {"tcp", "udp"} /\ call[t].op = "socket" /\ UNCHANGED <<stk, history>>
  BY RunsFor DEF StackSocket
<1>2. CASE Reply(k, t, -1) /\ UNCHANGED sock
  <2>1. -1 \in Int
    OBVIOUS
  <2> QED
    BY <1>1, <1>2, <2>1, MildSame, MissAnswer
<1>3. CASE /\ FreeFds # {} /\ sock' = [sock EXCEPT ![NewFd] = NewSock(call[t].f, k, NewFd)]
           /\ Reply(k, t, NewFd)
  <2>1. NewFd \in Fd /\ NewFd \in Int
    BY <1>3, NewFdFree, Consts
  <2> DEFINE r == NewSock(call[t].f, k, NewFd)
  <2>2. r \in SockRec /\ r.state = "CLOSED" /\ r.listen_next = No
    BY <1>1, <2>1, NewSockIs
  <2>3. sock' = [sock EXCEPT ![NewFd] = r]
    BY <1>3
  <2> HIDE DEF r
  <2>4. \A x \in Fd : Mild(x)
    BY <1>3, <2>2, <2>3, NewFdMild
  <2> QED
    BY <1>1, <1>3, <2>1, <2>4, MissAnswer
<1> QED
  BY <1>2, <1>3 DEF StackSocket

LEMMA StackBindMiss ==
  ASSUME IInv, IInv', MissInv, NEW k \in Stack, NEW t \in App, StackBind(k, t)
  PROVE  MissInv'
<1>1. /\ rpc_queue[k] # << >> /\ t = Head(rpc_queue[k]) /\ pc[t] = "sent"
      /\ call[t].f = "bind" /\ call[t].op = "bind" /\ UNCHANGED <<stk, history>>
  BY RunsFor DEF StackBind
<1>2. PICK d \in Fd : d = call[t].cur /\ Live(d)
  BY <1>1 DEF IInv, UseShape
<1>3. PICK v \in {0, -1} : Reply(k, t, v)
  BY DEF StackBind
<1>4. \A x \in Fd : Mild(x)
  <2>1. CASE sock' = sock
    BY <2>1, MildSame
  <2>2. CASE sock' = [sock EXCEPT ![d].bound = TRUE]
    <3>1. /\ sock[d] \in SockRec /\ \A x \in Fd \ {d} : sock'[x] = sock[x]
          /\ sock'[d] = [sock[d] EXCEPT !.bound = TRUE]
      BY <2>2, SockTypes DEF IInv, TypeOK
    <3>2. /\ sock'[d].queue >= sock[d].queue /\ sock'[d].kind = sock[d].kind
          /\ sock'[d].stack = sock[d].stack /\ sock'[d].head = sock[d].head
          /\ sock'[d].listen_next = sock[d].listen_next /\ sock'[d].state = sock[d].state
      BY <3>1, SocketsAssumption DEF SockRec
    <3> QED
      BY <1>2, <3>1, <3>2, MildSame, MildTouch
  <2> QED
    BY <1>2, <2>1, <2>2 DEF StackBind
<1>5. v \in Int
  OBVIOUS
<1> QED
  BY <1>1, <1>3, <1>4, <1>5, MissAnswer

LEMMA StackConnectMiss ==
  ASSUME IInv, IInv', MissInv, NEW k \in Stack, NEW t \in App, StackConnect(k, t)
  PROVE  MissInv'
<1>1. /\ rpc_queue[k] # << >> /\ t = Head(rpc_queue[k]) /\ pc[t] = "sent"
      /\ call[t].f = "connect" /\ call[t].op = "connect" /\ UNCHANGED <<stk, history>>
      /\ Reply(k, t, -1)
  BY RunsFor DEF StackConnect
<1>2. PICK d \in Fd : d = call[t].cur /\ d = call[t].fd /\ Live(d) /\ sock[d].state # "LISTEN"
  BY <1>1 DEF IInv, UseShape, StageShape, MissInv, FoundShape
<1>3. \A x \in Fd : Mild(x)
  <2>1. CASE sock' = sock
    BY <2>1, MildSame
  <2>2. CASE sock' = [sock EXCEPT ![d].state = "SYN_SENT"]
    <3>1. /\ sock[d] \in SockRec /\ \A x \in Fd \ {d} : sock'[x] = sock[x]
          /\ sock'[d] = [sock[d] EXCEPT !.state = "SYN_SENT"]
      BY <2>2, SockTypes DEF IInv, TypeOK
    <3>2. /\ sock'[d].queue >= sock[d].queue /\ sock'[d].kind = sock[d].kind
          /\ sock'[d].stack = sock[d].stack /\ sock'[d].head = sock[d].head
          /\ sock'[d].listen_next = sock[d].listen_next /\ sock'[d].state = "SYN_SENT"
      BY <3>1, SocketsAssumption DEF SockRec
    <3> QED
      BY <1>2, <3>1, <3>2, MildSame, MildTouch
  <2> QED
    BY <1>2, <2>1, <2>2 DEF StackConnect
<1>4. -1 \in Int
  OBVIOUS
<1> QED
  BY <1>1, <1>3, <1>4, MissAnswer

LEMMA StackQueryMiss ==
  ASSUME IInv, IInv', MissInv, NEW k \in Stack, NEW t \in App, StackQuery(k, t)
  PROVE  MissInv'
<1>1. /\ rpc_queue[k] # << >> /\ t = Head(rpc_queue[k])
      /\ call[t].op \in {"query", "listen"} /\ UNCHANGED <<sock, stk, history>>
  BY RunsFor DEF StackQuery
<1>2. PICK v \in {0, -1} : Reply(k, t, v)
  BY DEF StackQuery
<1>3. v \in Int
  OBVIOUS
<1> QED
  BY <1>1, <1>2, <1>3, MildSame, MissAnswer

LEMMA StackAcceptedMiss ==
  ASSUME IInv, IInv', MissInv, NEW k \in Stack, NEW t \in App, StackAccepted(k, t)
  PROVE  MissInv'
<1>1. /\ stk[k].pc = "accept" /\ t = Head(rpc_queue[k]) /\ Reply(k, t, stk[k].fd)
      /\ UNCHANGED <<sock, history>>
  BY DEF StackAccepted
<1>2. PICK v \in Fd : v = stk[k].fd /\ v \in Int /\ v > 0 /\ rpc_queue[k] # << >>
  BY <1>1, Consts DEF IInv, WorkShape
<1>3. \A j \in Stack \ {k} : stk'[j] = stk[j]
  BY DEF StackAccepted, IInv, VarShape
<1> QED
  BY <1>1, <1>2, <1>3, MildSame, MissAnswer

(* gazelle_clean_sock and close_fn work on a slot without a socket. *)
LEMMA CleanSockMiss ==
  ASSUME IInv, IInv', MissInv, NEW k \in Stack, CleanSock(k)
  PROVE  MissInv'
<1>1. stk[k].pc = "clean" /\ UNCHANGED <<rpc_queue, pc, call, history>>
  BY DEF CleanSock
<1>2. PICK d \in Fd : d = stk[k].fd /\ ~Live(d) /\ sock[d].open
  BY <1>1, CleansFor
<1>3. /\ \A x \in Fd \ {d} : sock'[x] = sock[x]
      /\ sock'[d] = [FreeSock EXCEPT !.open = sock[d].open, !.type = sock[d].type]
  BY <1>2, ZenonT(30) DEF CleanSock, IInv, TypeOK
<1>4. sock'[d].state = "CLOSED" /\ sock'[d].listen_next = No /\ sock'[d].type = "none"
  BY <1>2, <1>3 DEF FreeSock, Live
<1>5. \A x \in Fd : Mild(x)
  BY <1>2, <1>3, <1>4, MildSame, MildSlot
<1>6. /\ \A u \in App : SameCall(u)
      /\ \A j \in Stack : stk[j].pc = "accept" => stk'[j].pc = "accept"
  BY <1>1 DEF SameCall, CleanSock, IInv, VarShape
<1> QED
  BY <1>1, <1>5, <1>6, MissSilent

LEMMA CloseFnMiss ==
  ASSUME IInv, IInv', MissInv, NEW k \in Stack, NEW t \in App, CloseFn(k, t)
  PROVE  MissInv'
<1>1. /\ stk[k].pc = "close_fn" /\ t = Head(rpc_queue[k]) /\ Reply(k, t, 0)
      /\ UNCHANGED history
  BY DEF CloseFn
<1>2. PICK d \in Fd : /\ d = stk[k].fd /\ ~Live(d) /\ Closing(t, d)
                      /\ rpc_queue[k] # << >>
  BY <1>1, CleansFor
<1>3. sock[d] = [FreeSock EXCEPT !.open = TRUE]
  BY <1>1, <1>2 DEF IInv, WorkShape
<1>4. /\ \A x \in Fd \ {d} : sock'[x] = sock[x]
      /\ sock'[d] = [sock[d] EXCEPT !.open = FALSE]
  BY <1>2 DEF CloseFn, IInv, TypeOK
<1>5. sock'[d].state = "CLOSED" /\ sock'[d].listen_next = No /\ sock'[d].type = "none"
  BY <1>3, <1>4 DEF FreeSock
<1>6. \A x \in Fd : Mild(x)
  BY <1>2, <1>4, <1>5, MildSame, MildSlot
<1>7. call[t].op # "accept" /\ 0 \in Int /\ \A j \in Stack \ {k} : stk'[j] = stk[j]
  BY <1>2 DEF Closing, Closes, CloseFn, IInv, VarShape
<1> QED
  BY <1>1, <1>2, <1>6, <1>7, MissAnswer

(* The network *)

LEMMA NetMiss ==
  ASSUME IInv, IInv', MissInv, NEW d \in Fd, Arrives(d) \/ Connected(d) \/ PeerLeaves(d)
  PROVE  MissInv'
<1>1. UNCHANGED <<rpc_queue, stk, pc, call, history>>
  BY DEF Arrives, Connected, PeerLeaves
<1>2. Live(d)
  BY DEF Arrives, Connected, PeerLeaves, IInv, SlotShape, Live
<1>3. sock[d] \in SockRec /\ \A x \in Fd \ {d} : sock'[x] = sock[x]
  BY SockTypes DEF Arrives, Connected, PeerLeaves, IInv, TypeOK
<1>4. \/ sock'[d] = [sock[d] EXCEPT !.queue = @ + 1]
      \/ /\ sock[d].state = "SYN_SENT"
         /\ sock'[d] = [sock[d] EXCEPT !.state = "ESTABLISHED", !.type = "LIBOS",
                                       !.kernel = FALSE]
      \/ /\ sock[d].state = "SYN_SENT"
         /\ sock'[d] = [sock[d] EXCEPT !.state = "CLOSED"]
      \/ /\ sock[d].state = "ESTABLISHED"
         /\ sock'[d] = [sock[d] EXCEPT !.state = "CLOSE_WAIT"]
  BY DEF Arrives, Connected, PeerLeaves, IInv, TypeOK
<1>5. /\ sock'[d].queue >= sock[d].queue /\ sock'[d].kind = sock[d].kind
      /\ sock'[d].stack = sock[d].stack /\ sock'[d].head = sock[d].head
      /\ sock'[d].listen_next = sock[d].listen_next
      /\ sock'[d].state = "LISTEN" <=> sock[d].state = "LISTEN"
  <2>1. sock[d].queue \in Int
    BY <1>3, SocketsAssumption DEF SockRec
  <2>2. CASE sock'[d] = [sock[d] EXCEPT !.queue = @ + 1]
    BY <1>3, <2>1, <2>2 DEF SockRec
  <2>3. CASE sock'[d] # [sock[d] EXCEPT !.queue = @ + 1]
    <3>1. /\ sock'[d].queue = sock[d].queue /\ sock'[d].kind = sock[d].kind
          /\ sock'[d].stack = sock[d].stack /\ sock'[d].head = sock[d].head
          /\ sock'[d].listen_next = sock[d].listen_next
          /\ sock'[d].state # "LISTEN" /\ sock[d].state # "LISTEN"
      BY <1>3, <1>4, <2>3 DEF SockRec
    <3> QED
      BY <2>1, <3>1
  <2> QED
    BY <2>2, <2>3
<1>6. \A x \in Fd : Mild(x)
  BY <1>2, <1>3, <1>5, MildSame, MildTouch
<1>7. \A u \in App : SameCall(u)
  BY <1>1 DEF SameCall
<1> QED
  BY <1>1, <1>6, <1>7, MissSilent

LEMMA StackListenMiss ==
  ASSUME IInv, IInv', MissInv, NEW k \in Stack, NEW t \in App, StackListen(k, t)
  PROVE  MissInv'
<1>1. /\ rpc_queue[k] # << >> /\ t = Head(rpc_queue[k]) /\ pc[t] = "sent"
      /\ call[t].f = "listen" /\ call[t].op = "listen" /\ UNCHANGED <<stk, owner, served>>
  BY RunsFor DEF StackListen, history
<1>2. PICK h \in Fd : h = call[t].fd /\ owner[h] = t /\ call[t].cur \in Reach(h)
  BY <1>1 DEF IInv, UseShape
<1>3. PICK d \in Fd : d = call[t].cur /\ sock[d].kind = "tcp" /\ owner[d] \in {t, No}
  <2>1. call[t].cur \in Fd /\ sock[call[t].cur].head = h
    BY <1>2, HeldList, Consts
  <2>2. sock[h].kind = "tcp"
    BY <1>1, <1>2 DEF MissInv, FoundShape
  <2>3. sock[call[t].cur].kind = "tcp"
    BY <1>2, <2>2, ListKind
  <2>4. owner[call[t].cur] \in {t, No}
    BY <1>2, <2>1 DEF IInv, RoleShape
  <2> QED
    BY <2>1, <2>3, <2>4
<1>4. CASE Reply(k, t, -1) /\ UNCHANGED sock
  <2>1. -1 \in Int
    OBVIOUS
  <2> QED
    BY <1>1, <1>4, <2>1, MildSame, MissAnswer DEF history
<1>5. CASE sock' = [sock EXCEPT ![d].state = "LISTEN", ![d].bound = TRUE] /\ Reply(k, t, 0)
  <2>1. /\ sock[d] \in SockRec /\ \A x \in Fd \ {d} : sock'[x] = sock[x]
        /\ sock'[d] = [sock[d] EXCEPT !.state = "LISTEN", !.bound = TRUE]
    BY <1>5, SockTypes DEF IInv, TypeOK
  <2>2. sock'[d].state = "LISTEN"
    BY <2>1 DEF SockRec
  <2>3. \A x \in Fd : /\ sock'[x].queue = sock[x].queue /\ sock'[x].kind = sock[x].kind
                      /\ sock'[x].stack = sock[x].stack /\ sock'[x].head = sock[x].head
                      /\ sock'[x].listen_next = sock[x].listen_next
                      /\ sock'[x].type = sock[x].type /\ sock[x].queue \in Int
    <3>1. /\ sock'[d].queue = sock[d].queue /\ sock'[d].kind = sock[d].kind
          /\ sock'[d].stack = sock[d].stack /\ sock'[d].head = sock[d].head
          /\ sock'[d].listen_next = sock[d].listen_next /\ sock'[d].type = sock[d].type
      BY <2>1 DEF SockRec
    <3>2. \A x \in Fd : sock[x].queue \in Int
      BY SocketsAssumption DEF IInv, TypeOK
    <3> QED
      BY <2>1, <3>1, <3>2
  <2>4. /\ \A u \in App \ {t} : SameCall(u)
        /\ pc'[t] = "ret" /\ call'[t].op = "listen"
        /\ call'[t].fd = call[t].fd /\ rpc_queue' = [rpc_queue EXCEPT ![k] = Tail(@)]
    <3>1. 0 \in Int
      OBVIOUS
    <3>2. pc \in [App -> Pcs]
      BY DEF IInv, VarShape, Pcs
    <3> QED
      BY <1>1, <1>5, <3>1, <3>2, Replied DEF Answered
  <2>5. ASSUME NEW x \in Fd PROVE TcpShape(x)'
    <3>1. sock'[x].state = "LISTEN" => sock'[x].kind = "tcp"
      BY <1>3, <2>1, <2>3 DEF MissInv, TcpShape
    <3>2. sock[x].listen_next # No => sock[x].listen_next \in Fd
      BY DEF IInv, TypeOK
    <3> QED
      BY <2>3, <3>1, <3>2 DEF MissInv, TcpShape
  <2>6. ASSUME NEW u \in App PROVE FoundShape(u)'
    <3>1. CASE u = t
      <4>1. sock[call[t].fd].kind = "tcp"
        BY <1>1 DEF FoundShape, MissInv
      <4> QED
        BY <3>1, <1>1, <1>2, <2>3, <2>4, <4>1 DEF FoundShape
    <3>2. CASE u # t
      <4>1. sock' \in [Fd -> SockRec]
        BY DEF IInv, TypeOK, SockRec
      <4>2. \A x \in Fd : owner[x] = u => sock'[x].state = sock[x].state
        BY <1>3, <2>1, <3>2, Consts
      <4>3. \A x \in Fd : sock'[x].queue >= sock[x].queue
        BY <2>3
      <4> QED
        BY <2>3, <2>4, <3>2, <4>1, <4>2, <4>3, FoundKept
    <3> QED
      BY <3>1, <3>2
  <2>7. ASSUME NEW u \in App \ {t}, Queued(u) PROVE Calm(u)
    <3>1. SameCall(u) /\ (Closes(u) \/ call[u].op = "accept" => call[u].cur \in Fd)
      BY <2>4, <2>7, QueuedIs
    <3>2. call[u].op = "accept" => sock[call[u].cur].state = "LISTEN"
      BY <2>7 DEF Queued, MissInv, EntriesShape, EntryShape
    <3>3. call[u].op = "accept" => sock'[call[u].cur].state = "LISTEN"
      BY <2>1, <2>2, <3>1, <3>2
    <3> QED
      BY <2>3, <3>1, <3>3 DEF Calm, Live
  <2>8. EntriesShape'
    BY <1>1, <2>4, <2>7, EntriesLess DEF IInv
  <2> QED
    BY <1>1, <2>5, <2>6, <2>8 DEF MissInv
<1> QED
  BY <1>3, <1>4, <1>5 DEF StackListen

(* stack_accept: who takes the connection is the only one to have it; the   *)
(* other accepts of the descriptor are no longer owed one.                  *)
LEMMA StackAcceptMiss ==
  ASSUME IInv, IInv', MissInv, NEW k \in Stack, NEW t \in App, StackAccept(k, t)
  PROVE  MissInv'
<1>1. /\ stk[k] = NoWork /\ rpc_queue[k] # << >> /\ t = Head(rpc_queue[k])
      /\ call[t].op = "accept" /\ pc[t] = "sent" /\ call[t] \in CallRec
      /\ UNCHANGED <<owner, served>>
  BY RunsFor DEF StackAccept, history
<1>2. PICK d \in Fd : d = call[t].cur
  BY <1>1 DEF IInv, StageShape
<1>3. rpc_queue[k] \in Seq(App) /\ 1 \in DOMAIN rpc_queue[k] /\ rpc_queue[k][1] = t
  BY <1>1 DEF IInv, VarShape
<1>4. /\ sock[d].state = "LISTEN" /\ sock[d].head = call[t].fd /\ sock[d].stack = k
      /\ (call[t].found => sock[d].queue > 0)
  <2>1. EntryShape(k, 1)
    BY <1>3 DEF MissInv, EntriesShape
  <2> QED
    BY <2>1, <1>1, <1>2, <1>3 DEF EntryShape, NoWork
<1>5. /\ Live(d) /\ sock[d].kind = "tcp" /\ sock[d] \in SockRec
  BY <1>4, SockTypes DEF IInv, SlotShape, MissInv, TcpShape
<1> DEFINE others == [u \in App |-> IF u # t /\ call[u].fd = call[t].fd
                                    THEN [call[u] EXCEPT !.found = FALSE] ELSE call[u]]
<1>6. CASE sock[d].queue = 0 /\ Reply(k, t, -1) /\ UNCHANGED <<sock, stk>>
  <2>1. -1 \in Int /\ ~call[t].found
    BY <1>4, <1>6
  <2> QED
    BY <1>1, <1>6, <2>1, MildSame, MissAnswer DEF history
(* What both ways to take a connection have in common. *)
<1>7. ASSUME \A u \in App \ {t} : SameCall(u) /\ (call'[u].found => call[u].fd # call[t].fd),
             sock'[d] = [sock[d] EXCEPT !.queue = @ - 1],
             \A x \in Fd \ {d} : sock'[x] = sock[x]
                                 \/ /\ ~sock[x].open /\ sock'[x].state # "LISTEN"
                                    /\ sock'[x].listen_next = No
      PROVE  /\ \A x \in Fd : TcpShape(x)'
             /\ \A u \in App \ {t} : FoundShape(u)' /\ (Queued(u) => Calm(u))
  <2>1. /\ sock'[d].kind = sock[d].kind /\ sock'[d].stack = k /\ sock'[d].head = sock[d].head
        /\ sock'[d].listen_next = sock[d].listen_next /\ sock'[d].state = "LISTEN"
        /\ sock'[d].type = sock[d].type
    BY <1>4, <1>5, <1>7 DEF SockRec
  <2>2. \A x \in Fd \ {d} : Live(x) => sock'[x] = sock[x]
    BY <1>7, FreeFd
  <2>3. ASSUME NEW x \in Fd PROVE TcpShape(x)'
    <3>1. TcpShape(x) /\ LinkShape(x) /\ (sock[x].listen_next # No => sock[x].listen_next \in Fd)
      BY DEF MissInv, IInv, TypeOK
    <3>2. sock'[x].state = "LISTEN" => sock'[x].kind = "tcp"
      BY <1>5, <1>7, <2>1, <3>1 DEF TcpShape
    <3>3. ASSUME sock'[x].listen_next # No
          PROVE  sock'[sock'[x].listen_next].kind = sock'[x].kind
      <4>1. sock'[x].listen_next = sock[x].listen_next /\ sock'[x].kind = sock[x].kind
        BY <1>7, <2>1, <3>3
      <4>2. Live(sock[x].listen_next) /\ sock[x].listen_next \in Fd
        BY <3>1, <3>3, <4>1 DEF LinkShape
      <4>3. sock'[sock[x].listen_next].kind = sock[sock[x].listen_next].kind
        BY <2>1, <2>2, <4>2
      <4> QED
        BY <3>1, <3>3, <4>1, <4>3 DEF TcpShape
    <3> QED
      BY <3>2, <3>3 DEF TcpShape
  <2>4. ASSUME NEW u \in App \ {t} PROVE FoundShape(u)'
    <3>1. sock' \in [Fd -> SockRec]
      BY DEF IInv, TypeOK, SockRec
    <3>2. \A x \in Fd : Live(x) => sock'[x].kind = sock[x].kind /\ sock'[x].state = sock[x].state
      BY <1>4, <2>1, <2>2
    <3>3. \A x \in Fd : Live(x) /\ sock[x].state # "LISTEN" =>
            sock'[x].queue >= sock[x].queue /\ sock'[x].listen_next = sock[x].listen_next
      <4>1. \A x \in Fd : sock[x].queue \in Int
        BY SocketsAssumption DEF IInv, TypeOK
      <4> QED
        BY <1>4, <2>2, <4>1
    <3> QED
      BY <1>7, <3>1, <3>2, <3>3, FoundKept
  <2>5. ASSUME NEW u \in App \ {t}, Queued(u) PROVE Calm(u)
    <3>1. SameCall(u) /\ (Closes(u) \/ call[u].op = "accept" => call[u].cur \in Fd)
          /\ (Closes(u) => Closing(u, call[u].cur))
      BY <1>7, <2>5, QueuedIs DEF Closing
    <3>2. CASE Closes(u)
      <4>1. PICK x \in Fd : x = call[u].cur /\ sock[x].open
        BY <3>1, <3>2 DEF IInv, RoleShape
      <4>2. sock'[x].type = sock[x].type /\ sock'[x].stack = sock[x].stack
        BY <1>4, <1>7, <2>1, <4>1
      <4> QED
        BY <3>1, <3>2, <4>1, <4>2 DEF Calm, Live, Closes
    <3>3. CASE call[u].op = "accept"
      <4>1. PICK x \in Fd : x = call[u].cur
        BY <3>1, <3>3
      <4>2. sock[x].state = "LISTEN" /\ sock[x].head = call[u].fd
        BY <2>5, <3>3, <4>1 DEF Queued, MissInv, EntriesShape, EntryShape
      <4>3. Live(x) /\ sock[x].queue \in Int
        BY <4>2, SocketsAssumption DEF IInv, SlotShape, TypeOK
      <4>4. /\ sock'[x].state = "LISTEN" /\ sock'[x].stack = sock[x].stack
            /\ sock'[x].head = sock[x].head
        BY <1>4, <2>1, <2>2, <4>2, <4>3
      <4>5. call'[u].found => x # d
        BY <1>4, <1>7, <4>2
      <4>6. call'[u].found => sock'[x].queue >= sock[x].queue
        BY <2>2, <4>3, <4>5
      <4> QED
        BY <3>1, <3>3, <4>1, <4>4, <4>6 DEF Calm, Closes
    <3> QED
      BY <3>1, <3>2, <3>3 DEF Calm
  <2> QED
    BY <2>3, <2>4, <2>5
<1>8. \A u \in App \ {t} :
        /\ \/ others[u] = call[u]
           \/ call[u].fd # No /\ others[u] = [call[u] EXCEPT !.found = FALSE]
        /\ others[u].found => call[u].fd # call[t].fd
  <2>1. call[t].fd # No
    BY <1>1, Consts DEF IInv, StageShape
  <2>2. \A u \in App : call[u] \in CallRec
    BY DEF IInv, VarShape
  <2>3. \A u \in App : [call[u] EXCEPT !.found = FALSE].found = FALSE
    BY <2>2 DEF CallRec
  <2> QED
    BY <2>1, <2>3
<1>9. others[t] = call[t] /\ DOMAIN others = App
  OBVIOUS
<1> HIDE DEF others
<1>10. CASE /\ sock' = [sock EXCEPT ![d].queue = @ - 1]
            /\ call' = [others EXCEPT ![t].ret = -1, ![t].found = FALSE]
            /\ pc' = [pc EXCEPT ![t] = "ret"]
            /\ rpc_queue' = [rpc_queue EXCEPT ![k] = Tail(@)]
            /\ UNCHANGED stk
  <2>1. /\ call'[t].op = "accept" /\ ~call'[t].found
        /\ \A u \in App \ {t} : call'[u] = others[u] /\ pc'[u] = pc[u]
    <3>1. call'[t] = [others[t] EXCEPT !.ret = -1, !.found = FALSE]
      BY <1>1, <1>9, <1>10
    <3>2. call[t] \in CallRec
      BY DEF IInv, VarShape
    <3>3. call'[t].op = call[t].op /\ ~call'[t].found
      BY <1>9, <3>1, <3>2 DEF CallRec
    <3>4. \A u \in App \ {t} : call'[u] = others[u]
      BY <1>9, <1>10
    <3>5. \A u \in App \ {t} : pc'[u] = pc[u]
      BY <1>10 DEF IInv, TypeOK
    <3> QED
      BY <1>1, <3>3, <3>4, <3>5
  <2>2. /\ sock'[d] = [sock[d] EXCEPT !.queue = @ - 1]
        /\ \A x \in Fd \ {d} : sock'[x] = sock[x]
    BY <1>10 DEF IInv, TypeOK
  <2>3. \A u \in App \ {t} : SameCall(u) /\ (call'[u].found => call[u].fd # call[t].fd)
    BY <1>8, <2>1 DEF SameCall
  <2>4. /\ \A x \in Fd : TcpShape(x)'
        /\ \A u \in App \ {t} : FoundShape(u)' /\ (Queued(u) => Calm(u))
    BY <1>7, <2>2, <2>3
  <2>5. EntriesShape'
    BY <1>1, <1>10, <2>4, EntriesLess DEF IInv
  <2>6. FoundShape(t)'
    BY <2>1 DEF FoundShape
  <2> QED
    BY <1>1, <2>4, <2>5, <2>6 DEF MissInv
<1>11. CASE /\ FreeFds # {}
            /\ sock' = [sock EXCEPT ![d].queue = @ - 1,
                          ![NewFd] = [NewSock("tcp", k, NewFd) EXCEPT
                                       !.type = "LIBOS", !.state = "ESTABLISHED"]]
            /\ stk' = [stk EXCEPT ![k] = [pc |-> "accept", fd |-> NewFd, tmp |-> conn_num[k]]]
            /\ call' = others /\ UNCHANGED <<pc, rpc_queue>>
  <2>1. PICK n \in Fd : n = NewFd /\ ~sock[n].open /\ n # d
    BY <1>5, <1>11, NewFdFree, FreeFd
  <2> DEFINE r == [NewSock("tcp", k, n) EXCEPT !.type = "LIBOS", !.state = "ESTABLISHED"]
  <2>2. r.state = "ESTABLISHED" /\ r.listen_next = No
    BY DEF NewSock, FreeSock
  <2>3. sock' = [sock EXCEPT ![d].queue = @ - 1, ![n] = r]
    BY <1>11, <2>1
  <2> HIDE DEF r
  <2>4. /\ sock'[d] = [sock[d] EXCEPT !.queue = @ - 1] /\ sock'[n] = r
        /\ \A x \in Fd \ {d, n} : sock'[x] = sock[x]
    BY <2>1, <2>3 DEF IInv, TypeOK
  <2>5. /\ call'[t] = call[t]
        /\ \A u \in App \ {t} : SameCall(u) /\ (call'[u].found => call[u].fd # call[t].fd)
    BY <1>8, <1>9, <1>11 DEF SameCall
  <2>6. /\ \A x \in Fd : TcpShape(x)'
        /\ \A u \in App \ {t} : FoundShape(u)' /\ (Queued(u) => Calm(u))
    <3>1. \A x \in Fd \ {d} : sock'[x] = sock[x]
                              \/ /\ ~sock[x].open /\ sock'[x].state # "LISTEN"
                                 /\ sock'[x].listen_next = No
      BY <2>1, <2>2, <2>4
    <3> QED
      BY <1>7, <2>4, <2>5, <3>1
  <2>7. FoundShape(t)'
    BY <1>1, <1>11, <2>5 DEF FoundShape
  <2>8. ASSUME NEW l \in Stack, NEW i \in DOMAIN rpc_queue[l] PROVE EntryShape(l, i)'
    <3>1. rpc_queue[l] \in Seq(App) /\ DOMAIN rpc_queue[l] = 1..Len(rpc_queue[l])
      BY DEF IInv, VarShape
    <3>2. CASE l = k /\ i = 1
      <4>1. /\ stk'[k].pc = "accept" /\ rpc_queue'[k][1] = t
            /\ call'[t] = call[t]
        BY <1>3, <1>11, <2>5 DEF IInv, VarShape
      <4>2. ~Closes(t)'
        BY <1>1, <4>1 DEF Closes
      <4>3. sock'[d].state = "LISTEN" /\ sock'[d].stack = k /\ sock'[d].head = call[t].fd
        BY <1>4, <1>5, <2>4 DEF SockRec
      <4>4. 1..(1 - 1) = {}
        OBVIOUS
      <4> QED
        BY <1>2, <3>2, <4>1, <4>2, <4>3, <4>4 DEF EntryShape
    <3>3. CASE ~(l = k /\ i = 1)
      <4>1. rpc_queue[l][i] # t /\ rpc_queue[l][i] \in App
        BY <1>3, <3>1, <3>3 DEF IInv, QueueShape
      <4>2. Calm(rpc_queue[l][i + 0])
        BY <2>6, <3>1, <4>1 DEF Queued
      <4>3. i \in Nat \ {0} /\ i + 0 \in DOMAIN rpc_queue[l]
        BY <3>1
      <4>4. ASSUME NEW j \in 1..i
            PROVE  rpc_queue'[l][j] = rpc_queue[l][j + 0] /\ SameCall(rpc_queue[l][j + 0])
        <5>1. j + 0 = j /\ rpc_queue[l][j] \in App
          BY <3>1
        <5>2. SameCall(t)
          BY <1>11, <2>5 DEF SameCall
        <5> QED
          BY <1>11, <2>5, <5>1, <5>2
      <4>5. stk[l].pc = "accept" => stk'[l].pc = "accept"
        BY <1>11 DEF IInv, VarShape
      <4>6. TypeOK' /\ 0 \in {0, 1}
        BY DEF IInv
      <4> QED
        BY <4>2, <4>3, <4>4, <4>5, <4>6, EntryKept
    <3> QED
      BY <3>2, <3>3
  <2>9. EntriesShape'
    BY <1>11, <2>8 DEF EntriesShape
  <2> QED
    BY <1>1, <2>6, <2>7, <2>9 DEF MissInv
<1> QED
  BY <1>2, <1>6, <1>10, <1>11 DEF StackAccept, others

(* stack_close: an accept of the socket that waits in a queue is in front   *)
(* of the close, so the one that is served is not of a socket that an       *)
(* accept waits for.                                                        *)
LEMMA StackCloseMiss ==
  ASSUME IInv, IInv', MissInv, NEW k \in Stack, NEW t \in App, StackClose(k, t)
  PROVE  MissInv'
<1>1. /\ stk[k] = NoWork /\ rpc_queue[k] # << >> /\ t = Head(rpc_queue[k])
      /\ Closes(t) /\ pc[t] = "sent" /\ UNCHANGED <<rpc_queue, pc, call, owner, served>>
  BY RunsFor DEF StackClose, history
<1>2. PICK d \in Fd : d = call[t].cur /\ Closing(t, d)
  BY <1>1 DEF IInv, StageShape, Closing
<1>3. rpc_queue[k] \in Seq(App) /\ 1 \in DOMAIN rpc_queue[k] /\ rpc_queue[k][1] = t
  BY <1>1 DEF IInv, VarShape
<1>4. Live(d) => sock[d].stack = k
  <2>1. EntryShape(k, 1)
    BY <1>3 DEF MissInv, EntriesShape
  <2> QED
    BY <2>1, <1>1, <1>2, <1>3 DEF EntryShape
<1>5. /\ sock[d] \in SockRec /\ \A x \in Fd \ {d} : sock'[x] = sock[x]
      /\ sock'[d] = [sock[d] EXCEPT !.type = "none", !.state = "CLOSED",
                                    !.queue = 0, !.kernel = FALSE]
  <2>1. sock' = [sock EXCEPT ![d].type = "none", ![d].state = "CLOSED",
                             ![d].queue = 0, ![d].kernel = FALSE]
    BY <1>2 DEF StackClose
  <2>2. sock \in [Fd -> SockRec]
    BY DEF IInv, TypeOK, SockRec
  <2> QED
    BY <2>1, <2>2
<1>6. /\ sock'[d].type = "none" /\ sock'[d].state = "CLOSED" /\ sock'[d].kind = sock[d].kind
      /\ sock'[d].listen_next = sock[d].listen_next
  BY <1>5 DEF SockRec
<1>7. owner[d] = No
  BY <1>2, ClosingAlone
<1>8. \A u \in App : SameCall(u)
  BY <1>1 DEF SameCall
<1>9. ASSUME NEW x \in Fd PROVE TcpShape(x)'
  <2>1. TcpShape(x) /\ (sock[x].listen_next # No => sock[x].listen_next \in Fd)
    BY DEF MissInv, IInv, TypeOK
  <2>2. \A y \in Fd : sock'[y].kind = sock[y].kind /\ sock'[y].listen_next = sock[y].listen_next
                      /\ sock'[y].state \in {"CLOSED", sock[y].state}
    BY <1>5, <1>6
  <2> QED
    BY <2>1, <2>2 DEF TcpShape
<1>10. ASSUME NEW u \in App PROVE FoundShape(u)'
  <2>1. \A x \in Fd : sock[x].queue \in Int
    BY SocketsAssumption DEF IInv, TypeOK
  <2>2. sock' \in [Fd -> SockRec]
    BY DEF IInv, TypeOK, SockRec
  <2>3. \A x \in Fd : owner[x] = u => sock'[x] = sock[x]
    BY <1>5, <1>7, Consts
  <2>4. \A x \in Fd : ~Closing(t, x) => /\ sock'[x].queue >= sock[x].queue
                                        /\ sock'[x].listen_next = sock[x].listen_next
    BY <1>2, <1>5, <2>1
  <2> QED
    BY <1>8, <2>2, <2>3, <2>4, FoundKept
<1>11. ASSUME NEW u \in App, Queued(u) PROVE Calm(u)
  <2>1. Closes(u) \/ call[u].op = "accept" => call[u].cur \in Fd
    BY <1>11, QueuedIs
  <2>2. Closes(u) => (sock'[call[u].cur].type # "none" =>
                        Live(call[u].cur) /\ sock'[call[u].cur].stack = sock[call[u].cur].stack)
    BY <1>5, <1>6, <2>1 DEF Live
  <2>3. ASSUME call[u].op = "accept" PROVE call[u].cur # d
    <3> SUFFICES ASSUME call[u].cur = d PROVE FALSE
      OBVIOUS
    <3>1. PICK j \in Stack : \E i \in DOMAIN rpc_queue[j] : rpc_queue[j][i] = u
      BY <1>11 DEF Queued
    <3>0. PICK i \in DOMAIN rpc_queue[j] : rpc_queue[j][i] = u
      BY <3>1
    <3>2. EntryShape(j, i)
      BY DEF MissInv, EntriesShape
    <3>3. sock[d].state = "LISTEN" /\ sock[d].stack = j
      BY <2>3, <3>0, <3>2 DEF EntryShape
    <3>4. j = k
      BY <1>4, <3>3 DEF IInv, SlotShape
    <3>5. i # 1
      BY <1>1, <1>3, <2>3, <3>0, <3>4 DEF Closes
    <3>6. 1 \in 1..(i - 1)
      BY <1>3, <3>4, <3>5
    <3> QED
      BY <1>1, <1>2, <1>3, <2>3, <3>0, <3>2, <3>4, <3>6 DEF EntryShape
  <2>4. call[u].op = "accept" => /\ sock'[call[u].cur] = sock[call[u].cur]
                                 /\ sock[call[u].cur].state = "LISTEN"
                                 /\ sock[call[u].cur].queue \in Int
    <3>1. call[u].op = "accept" => sock[call[u].cur].state = "LISTEN"
      BY <1>11 DEF Queued, MissInv, EntriesShape, EntryShape
    <3> QED
      BY <1>5, <2>1, <2>3, <3>1, SocketsAssumption DEF IInv, TypeOK
  <2> QED
    BY <1>8, <2>2, <2>4 DEF Calm
<1>12. \A j \in Stack : stk[j].pc = "accept" => stk'[j].pc = "accept"
  <2>1. stk[k].pc = "poll"
    BY <1>1 DEF NoWork
  <2>2. \A j \in Stack \ {k} : stk'[j] = stk[j]
    BY DEF StackClose, IInv, VarShape
  <2> QED
    BY <2>1, <2>2
<1>13. EntriesShape'
  BY <1>1, <1>11, <1>12, EntriesSame, SMTT(30) DEF IInv
<1> QED
  BY <1>1, <1>9, <1>10, <1>13 DEF MissInv

(* create_shadow_fd: the list gets longer, a walk along it too. *)
LEMMA CreateShadowFdMiss ==
  ASSUME IInv, IInv', MissInv, NEW k \in Stack, NEW t \in App, CreateShadowFd(k, t)
  PROVE  MissInv'
<1>1. /\ rpc_queue[k] # << >> /\ t = Head(rpc_queue[k]) /\ pc[t] = "sent"
      /\ call[t].f = "shadow" /\ call[t].op \in {"bind", "listen"}
      /\ UNCHANGED <<stk, owner, served>>
  BY RunsFor DEF CreateShadowFd, history
<1>2. PICK d \in Fd : d = call[t].cur /\ d = call[t].fd /\ owner[d] = t /\ Live(d)
  BY <1>1 DEF IInv, UseShape
<1>3. PICK e \in Reach(d) : e = LastOf(d) /\ sock[e].listen_next = No
  BY <1>2, Consts DEF IInv, ListShape, LastOf
<1>4. CASE Reply(k, t, -1) /\ UNCHANGED sock
  <2>1. -1 \in Int
    OBVIOUS
  <2> QED
    BY <1>1, <1>4, <2>1, MildSame, MissAnswer DEF history
<1>5. ASSUME NEW b \in BOOLEAN, NEW v \in Int, FreeFds # {},
             sock' = [sock EXCEPT ![NewFd] = [NewSock(sock[d].kind, k, d) EXCEPT !.bound = b],
                                  ![LastOf(d)].listen_next = NewFd],
             Reply(k, t, v)
      PROVE  MissInv'
  <2>1. PICK n \in Fd : n = NewFd /\ ~sock[n].open
    BY <1>5, NewFdFree
  <2>2. e \in Fd /\ Live(e) /\ e # n /\ sock[e].kind = sock[d].kind
    <3>1. e \in Fd /\ sock[e].open /\ (e # d => Live(e))
      BY <1>2, <1>3, HeldList, Consts
    <3> QED
      BY <3>1, <2>1, <1>2, <1>3, ListKind
  <2> DEFINE r == [NewSock(sock[d].kind, k, d) EXCEPT !.bound = b]
  <2>3. r.kind = sock[d].kind /\ r.state = "CLOSED" /\ r.listen_next = No
    BY DEF NewSock, FreeSock
  <2>4. sock' = [sock EXCEPT ![n] = r, ![e].listen_next = n]
    BY <1>3, <1>5, <2>1
  <2> HIDE DEF r
  <2>5. /\ sock'[n] = r /\ sock'[e] = [sock[e] EXCEPT !.listen_next = n]
        /\ \A x \in Fd \ {e, n} : sock'[x] = sock[x]
    BY <2>1, <2>2, <2>4 DEF IInv, TypeOK
  <2>6. /\ sock'[e].kind = sock[e].kind /\ sock'[e].state = sock[e].state
        /\ sock'[e].stack = sock[e].stack /\ sock'[e].head = sock[e].head
        /\ sock'[e].queue = sock[e].queue /\ sock'[e].type = sock[e].type
        /\ sock'[e].listen_next = n
    <3>1. sock[e] \in SockRec
      BY <2>2, SockTypes
    <3> QED
      BY <2>5, <3>1 DEF SockRec
  <2>7. \A x \in Fd \ {n} :
          /\ sock'[x].kind = sock[x].kind /\ sock'[x].state = sock[x].state
          /\ sock'[x].stack = sock[x].stack /\ sock'[x].head = sock[x].head
          /\ sock'[x].queue = sock[x].queue /\ sock'[x].type = sock[x].type
          /\ sock[x].listen_next \in {No, sock'[x].listen_next}
    BY <1>3, <2>5, <2>6
  <2>8. ~Live(n) /\ \A x \in Fd : sock[x].listen_next # n
    BY <2>1, FreeFd
  <2>9. ASSUME NEW x \in Fd PROVE TcpShape(x)'
    <3>1. TcpShape(x) /\ (sock[x].listen_next # No => sock[x].listen_next \in Fd)
      BY DEF MissInv, IInv, TypeOK
    <3>2. CASE x = n
      BY <3>2, <2>3, <2>5 DEF TcpShape
    <3>3. CASE x = e
      BY <3>1, <3>3, <2>2, <2>3, <2>5, <2>6 DEF TcpShape
    <3>4. CASE x \notin {e, n}
      BY <3>1, <3>4, <2>5, <2>7, <2>8, SMTT(30) DEF TcpShape
    <3> QED
      BY <3>2, <3>3, <3>4
  <2>10. /\ \A u \in App \ {t} : SameCall(u)
         /\ pc'[t] = "ret" /\ call'[t].op = call[t].op /\ call'[t].fd = d
         /\ rpc_queue' = [rpc_queue EXCEPT ![k] = Tail(@)]
    <3>1. pc \in [App -> Pcs]
      BY DEF IInv, VarShape, Pcs
    <3> QED
      BY <1>1, <1>2, <1>5, <3>1, Replied, ZenonT(30) DEF Answered
  <2>11. ASSUME NEW u \in App PROVE FoundShape(u)'
    <3>1. CASE u = t
      BY <3>1, <1>1, <1>2, <2>7, <2>8, <2>10 DEF FoundShape, MissInv
    <3>2. CASE u # t
      <4>1. sock' \in [Fd -> SockRec]
        BY DEF IInv, TypeOK, SockRec
      <4>2. \A x \in Fd : Live(x) => x # n /\ sock'[x].queue >= sock[x].queue
        <5>1. \A x \in Fd : sock[x].queue \in Int
          BY SocketsAssumption DEF IInv, TypeOK
        <5> QED
          BY <2>7, <2>8, <5>1
      <4> QED
        BY <2>7, <2>10, <3>2, <4>1, <4>2, FoundKept
    <3> QED
      BY <3>1, <3>2
  <2>12. ASSUME NEW u \in App \ {t}, Queued(u) PROVE Calm(u)
    <3>1. SameCall(u) /\ (Closes(u) \/ call[u].op = "accept" => call[u].cur \in Fd)
          /\ (Closes(u) => Closing(u, call[u].cur))
      BY <2>10, <2>12, QueuedIs DEF Closing
    <3>2. Closes(u) \/ call[u].op = "accept" => call[u].cur \in Fd \ {n}
      <4>1. Closes(u) => sock[call[u].cur].open
        BY <3>1 DEF IInv, RoleShape
      <4>2. call[u].op = "accept" => sock[call[u].cur].state = "LISTEN"
        BY <2>12 DEF Queued, MissInv, EntriesShape, EntryShape
      <4>3. sock[n].state # "LISTEN"
        BY <2>8 DEF IInv, SlotShape
      <4> QED
        BY <2>1, <3>1, <4>1, <4>2, <4>3
    <3>3. \A x \in Fd : sock[x].queue \in Int
      BY SocketsAssumption DEF IInv, TypeOK
    <3>4. call[u].op = "accept" => sock[call[u].cur].state = "LISTEN"
      BY <2>12 DEF Queued, MissInv, EntriesShape, EntryShape
    <3> QED
      BY <2>7, <3>1, <3>2, <3>3, <3>4 DEF Calm, Live
  <2>13. EntriesShape'
    BY <1>1, <2>10, <2>12, EntriesLess, Zenon DEF IInv
  <2> QED
    BY <1>1, <2>9, <2>11, <2>13 DEF MissInv
<1>6. CASE FreeFds # {}
  <2>1. NewFd \in Int /\ -1 \in Int
    BY <1>6, NewFdFree, Consts
  <2> QED
    BY <1>2, <1>4, <1>5, <1>6, <2>1, Zenon DEF CreateShadowFd
<1> QED
  BY <1>4, <1>6, SMTT(30) DEF CreateShadowFd

-----------------------------------------------------------------------------
LEMMA InitMiss == Init => MissInv
<1> SUFFICES ASSUME Init PROVE MissInv
  OBVIOUS
<1>1. /\ NoCall.op = "none" /\ FreeSock.state = "CLOSED" /\ FreeSock.listen_next = No
      /\ DOMAIN << >> = {}
  BY DEF NoCall, FreeSock
<1>2. EntriesShape
  BY <1>1 DEF Init, EntriesShape
<1>3. \A d \in Fd : TcpShape(d)
  BY <1>1 DEF Init, TcpShape
<1>4. \A t \in App : FoundShape(t)
  BY <1>1 DEF Init, FoundShape
<1> QED
  BY <1>2, <1>3, <1>4 DEF Init, MissInv

LEMMA StepMiss == IInv /\ IInv' /\ MissInv /\ [Next]_vars => MissInv'
<1> SUFFICES ASSUME IInv, IInv', MissInv, [Next]_vars PROVE MissInv'
  OBVIOUS
<1>1. ASSUME NEW t \in App, AppStep(t) PROVE MissInv'
  BY <1>1, CountSocketMiss, SocketReturnsMiss, CloseKernelMiss, CloseNextMiss,
     CloseReturnsMiss, BindReturnsMiss, NameReturnsMiss, BroadcastMiss, ShadowReturnsMiss,
     ListenReturnsMiss, BroadcastDoneMiss, AcceptReturnsMiss, ConnectReturnsMiss,
     RecvWalkMiss, AskReturnsMiss DEF AppStep
<1>2. ASSUME NEW t \in App, AppCall(t) PROVE MissInv'
  BY <1>2, KernelSocketMiss, GetBindStackMiss, CloseMiss, BindMiss, ListenMiss, AcceptMiss,
     ConnectMiss, RecvFromMiss, QueryMiss DEF AppCall
<1>3. ASSUME NEW k \in Stack, StackStep(k) PROVE MissInv'
  BY <1>3, StackSocketMiss, StackBindMiss, CreateShadowFdMiss, StackListenMiss,
     StackConnectMiss, StackQueryMiss, StackAcceptMiss, StackAcceptedMiss, StackCloseMiss,
     CloseFnMiss, CleanSockMiss DEF StackStep
<1>4. CASE Network
  BY <1>4, NetMiss DEF Network
<1>5. CASE UNCHANGED vars
  <2>1. /\ UNCHANGED <<sock, rpc_queue, stk, history>> /\ \A u \in App : SameCall(u)
    BY <1>5 DEF vars, history, SameCall
  <2> QED
    BY <2>1, MildSame, MissSilent
<1> QED
  BY <1>1, <1>2, <1>3, <1>4, <1>5 DEF Next

(* accept and recvfrom do not answer EAGAIN when a connection or a datagram *)
(* was at one of the sockets of the list all the while: the choice of       *)
(* get_min_accept_sock always finds one, what it finds stays until the call *)
(* is served or another accept takes it, and the walk of udp_recvfrom has   *)
(* what it is after still before it.                                        *)
THEOREM NothingMissedCorrect == Spec => []NothingMissed
<1>1. Init => IInv /\ MissInv
  BY InitInv, InitMiss
<1>2. IInv /\ MissInv /\ [Next]_vars => (IInv /\ MissInv)'
  BY StepInv, StepMiss
<1>3. MissInv => NothingMissed
  BY DEF MissInv, FoundShape, NothingMissed
<1> QED
  BY <1>1, <1>2, <1>3, PTL DEF Spec

-----------------------------------------------------------------------------
(* Every receiving stack listens, and one socket is the master.  A listen   *)
(* call comes to the receiving stacks one after the other, and on those it  *)
(* has been to there is one listener: stack_listen refuses a second one.    *)
(* It finds the stack of the master as it comes to the stack that it chose  *)
(* at its start.  listen on a socket that listens already is refused by     *)
(* the first other receiving stack, and then everything is closed.          *)
On(d, k)      == {x \in Reach(d) : sock[x].stack = k /\ sock[x].state = "LISTEN"}
Masters(d)    == {x \in Reach(d) : sock[x].master}
Covered(d, k) == \E x \in Fd : On(d, k) = {x}
OneMaster(d)  == \E x \in Fd : Masters(d) = {x}

Listens(t) == call[t].op = "listen"
Asks(t)    == pc[t] \in {"sent", "ret"}

(* The call is on its way to stack c.i, or back, with the socket that is to *)
(* listen there; its clone was made before.                                 *)
TurnShape(t) ==
  LET c == call[t] IN
  /\ Asks(t) /\ c.f \in {"shadow", "listen"} => c.i \in RecvStack
  /\ Asks(t) /\ c.f = "shadow" =>
       /\ c.i # c.k
       /\ pc[t] = "ret" /\ c.ret # -1 =>
            sock[c.ret].stack = c.i /\ sock[c.ret].state # "LISTEN"
  /\ Asks(t) /\ c.f = "listen" =>
       /\ sock[c.cur].stack = c.i
       /\ c.cur = c.fd <=> c.i = c.k
       /\ c.cur # c.fd /\ pc[t] = "sent" => sock[c.cur].state # "LISTEN"

(* The stacks that listen now, and the master.                              *)
Listening(t, k) ==
  LET c == call[t] IN
  k < c.i \/ (k = c.i /\ c.f = "listen" /\ pc[t] = "ret" /\ c.ret = 0)
MasterSet(t) ==
  LET c == call[t] IN
  c.tmp < c.i \/ (c.tmp = c.i /\ c.f = "listen" /\ Asks(t))

PastShape(t) ==
  LET c == call[t] IN
  /\ \A k \in RecvStack : Listening(t, k) => Covered(c.fd, k)
  /\ c.fd \notin served =>
       IF MasterSet(t) THEN \E x \in Fd : Masters(c.fd) = {x} /\ sock[x].stack = c.tmp
                       ELSE Masters(c.fd) = {}

(* A socket that listens already: no other stack lets the call pass.        *)
AgainShape(t) ==
  LET c == call[t] IN
  c.fd \in served =>
    /\ \A k \in RecvStack : k < c.i => k = c.k
    /\ c.f = "listen" /\ pc[t] = "ret" /\ c.cur # c.fd => c.ret # 0
    /\ RecvStack = {c.k} \/ (c.f = "getsockname" /\ Asks(t)) => OneMaster(c.fd)

ListenShape(t) ==
  Listens(t) =>
    /\ call[t].k = sock[call[t].fd].stack /\ call[t].tmp \in RecvStack
    /\ call[t].f = "getsockname" /\ Asks(t) => call[t].i = 0
    /\ TurnShape(t) /\ PastShape(t) /\ AgainShape(t)

(* bind makes clones only of UDP sockets, with the listen shadow.           *)
BindShape(t) ==
  call[t].op = "bind" /\ (pc[t] = "loop" \/ call[t].f = "shadow") =>
    Spread /\ sock[call[t].fd].kind = "udp"

(* A socket of the application.                                             *)
CoverShape(d) ==
  /\ d \in served => sock[d].kind = "tcp"
  /\ owner[d] # No /\ sock[d].kind = "tcp" =>
    /\ RecvStack = {sock[d].stack} => sock[d].listen_next = No
    /\ d \in served => \A k \in RecvStack : Covered(d, k)
    /\ (\A t \in App : Listens(t) => call[t].fd # d) =>
         IF d \in served THEN OneMaster(d) ELSE Masters(d) = {}

(* One that is about to be the application's.                               *)
FreshShape(d) ==
  (\E t \in App : Given(t, d)) \/ (\E k \in Stack : Accepting(k, d)) => ~sock[d].master

(* Where the calls that make a clone or a listener wait.                    *)
Waits(t, k) == \E i \in DOMAIN rpc_queue[k] : rpc_queue[k][i] = t
PlaceShape(t, k) ==
  Listens(t) /\ Waits(t, k) =>
    /\ call[t].f = "shadow" => call[t].i = k
    /\ call[t].f = "listen" => sock[call[t].cur].stack = k

(* With a single stack for every thread there is nothing to be spread.      *)
SingleShape(t) ==
  /\ Listens(t) =>
       /\ Asks(t) /\ call[t].f = "listen" /\ call[t].cur = call[t].fd
       /\ pc[t] = "ret" /\ call[t].ret = 0 => sock[call[t].fd].state = "LISTEN"
  /\ call[t].op = "bind" => pc[t] # "loop" /\ call[t].f # "shadow"

CoverInv ==
  /\ Spread =>
       /\ \A d \in Fd : CoverShape(d) /\ FreshShape(d)
       /\ \A t \in App : ListenShape(t) /\ BindShape(t)
       /\ \A t \in App, k \in Stack : PlaceShape(t, k)
  /\ ~Spread =>
       /\ \A d \in served : sock[d].state = "LISTEN"
       /\ \A t \in App : SingleShape(t)

(* What is said of the list of a socket that the application holds changes  *)
(* only with the sockets of the list.                                       *)
Steady(x) ==
  /\ sock'[x].stack = sock[x].stack /\ sock'[x].master = sock[x].master
  /\ sock'[x].listen_next = sock[x].listen_next /\ sock'[x].kind = sock[x].kind
  /\ sock'[x].state = "LISTEN" <=> sock[x].state = "LISTEN"
Out(x) == ~sock[x].open \/ \E u \in App : Closing(u, x)

LEMMA SteadySame ==
  ASSUME NEW x, sock'[x] = sock[x]
  PROVE  Steady(x)
  BY DEF Steady

LEMMA ListSame ==
  ASSUME IInv, NEW d \in Fd, owner[d] # No,
         \A x \in Fd : Steady(x) \/ Out(x) \/ sock[x].head # d
  PROVE  /\ \A x \in Reach(d) : x \in Fd /\ Steady(x)
         /\ Steady(d) /\ Reach(d)' = Reach(d)
         /\ Masters(d)' = Masters(d) /\ \A k : On(d, k)' = On(d, k)
         /\ OneMaster(d)' <=> OneMaster(d)
         /\ \A k : Covered(d, k)' <=> Covered(d, k)
<1>1. \A x \in Reach(d) : x \in Fd /\ Steady(x)
  BY HeldList DEF Out
<1>2. Steady(d)
  BY <1>1, ReachSelf
<1>3. Reach(d)' = Reach(d)
  BY <1>1, ReachSame DEF IInv, Steady
<1>4. Masters(d)' = Masters(d) /\ \A k : On(d, k)' = On(d, k)
  BY <1>1, <1>3 DEF Masters, On, Steady
<1> QED
  BY <1>1, <1>2, <1>3, <1>4 DEF OneMaster, Covered

LEMMA CoverKept ==
  ASSUME IInv, NEW d \in Fd, owner[d] # No, cfg' = cfg, CoverShape(d),
         \A x \in Fd : Steady(x) \/ Out(x) \/ sock[x].head # d,
         d \in served' <=> d \in served,
         \A u \in App : Listens(u) /\ call[u].fd = d => Listens(u)' /\ call'[u].fd = d
  PROVE  CoverShape(d)'
<1>1. /\ Steady(d) /\ Masters(d)' = Masters(d) /\ (OneMaster(d)' <=> OneMaster(d))
      /\ \A k : Covered(d, k)' <=> Covered(d, k)
  BY ListSame
<1>2. RecvStack' = RecvStack
  BY DEF RecvStack
<1> SUFFICES ASSUME owner[d] # No /\ sock[d].kind = "tcp"
             PROVE  CoverShape(d)'
  BY <1>1 DEF CoverShape, Steady
<1>3. RecvStack' = {sock'[d].stack} => sock'[d].listen_next = No
  BY <1>1, <1>2 DEF CoverShape, Steady
<1>4. d \in served' => \A k \in RecvStack' : Covered(d, k)'
  BY <1>1, <1>2 DEF CoverShape
<1>5. (\A u \in App : Listens(u)' => call'[u].fd # d) =>
        IF d \in served' THEN OneMaster(d)' ELSE Masters(d)' = {}
  <2>1. (\A u \in App : Listens(u)' => call'[u].fd # d) =>
          \A u \in App : Listens(u) => call[u].fd # d
    OBVIOUS
  <2> QED
    BY <1>1, <2>1 DEF CoverShape
<1> QED
  BY <1>1, <1>3, <1>4, <1>5 DEF CoverShape, Steady

LEMMA ListenKept ==
  ASSUME IInv, NEW t \in App, cfg' = cfg, ListenShape(t), SameCall(t), Listens(t),
         \A x \in Fd : Steady(x) \/ Out(x) \/ sock[x].head # call[t].fd,
         call[t].fd \in served' <=> call[t].fd \in served
  PROVE  ListenShape(t)'
<1>1. PICK d \in Fd : d = call[t].fd /\ owner[d] # No
  BY Consts DEF IInv, UseShape, Listens
<1>2. /\ \A x \in Reach(d) : Steady(x)
      /\ Steady(d) /\ Masters(d)' = Masters(d) /\ (OneMaster(d)' <=> OneMaster(d))
      /\ \A k : Covered(d, k)' <=> Covered(d, k)
  BY <1>1, ListSame
<1>3. RecvStack' = RecvStack
  BY DEF RecvStack
<1>4. /\ pc'[t] = pc[t] /\ call'[t].op = call[t].op /\ call'[t].fd = d
      /\ call'[t].f = call[t].f /\ call'[t].cur = call[t].cur
      /\ call'[t].i = call[t].i /\ call'[t].k = call[t].k
      /\ call'[t].ret = call[t].ret /\ call'[t].tmp = call[t].tmp
  BY <1>1, SameFields
<1>5. UseShape(t) /\ TurnShape(t) /\ PastShape(t) /\ AgainShape(t)
  BY DEF IInv, ListenShape
<1>6. TurnShape(t)'
  <2>1. Asks(t) => Steady(call[t].cur)
    BY <1>1, <1>2, <1>5 DEF UseShape, Asks, Listens
  <2>2. pc[t] = "ret" /\ call[t].f = "shadow" /\ call[t].ret # -1 => Steady(call[t].ret)
    BY <1>1, <1>2, <1>5 DEF UseShape, Asks, Listens
  <2> QED
    BY <1>1, <1>3, <1>4, <1>5, <2>1, <2>2 DEF TurnShape, Asks, Steady
<1>7. PastShape(t)'
  <2>1. \A k : Listening(t, k)' <=> Listening(t, k)
    BY <1>4 DEF Listening
  <2>2. MasterSet(t)' <=> MasterSet(t)
    BY <1>4 DEF MasterSet, Asks
  <2>3. \A x \in Fd : Masters(d) = {x} => sock'[x].stack = sock[x].stack
    <3>1. \A x \in Fd : Masters(d) = {x} => x \in Reach(d)
      BY DEF Masters
    <3> QED
      BY <1>2, <3>1 DEF Steady
  <2> QED
    BY <1>1, <1>2, <1>3, <1>4, <1>5, <2>1, <2>2, <2>3 DEF PastShape
<1>8. AgainShape(t)'
  BY <1>1, <1>2, <1>3, <1>4, <1>5 DEF AgainShape, Asks
<1> QED
  BY <1>1, <1>2, <1>3, <1>4, <1>6, <1>7, <1>8 DEF ListenShape, Asks, Steady

(* Who waits where. *)
LEMMA WaitsSent ==
  ASSUME IInv, NEW t \in App, NEW k \in Stack, Waits(t, k)
  PROVE  pc[t] = "sent"
  BY DEF IInv, QueueShape, Waits

Moved(t) ==
  \/ rpc_queue' = rpc_queue
  \/ \E k \in Stack : rpc_queue' = [rpc_queue EXCEPT ![k] = Append(@, t)]
  \/ \E k \in Stack : /\ rpc_queue[k] # << >>
                      /\ rpc_queue' = [rpc_queue EXCEPT ![k] = Tail(@)]

LEMMA WaitsOthers ==
  ASSUME IInv, NEW t, Moved(t), NEW u \in App, u # t, NEW j \in Stack, Waits(u, j)'
  PROVE  Waits(u, j)
<1>1. rpc_queue \in [Stack -> Seq(App)]
  BY DEF IInv, VarShape
<1>2. CASE rpc_queue' = rpc_queue
  BY <1>2 DEF Waits
<1>3. ASSUME NEW k \in Stack, rpc_queue' = [rpc_queue EXCEPT ![k] = Append(@, t)]
      PROVE  Waits(u, j)
  <2>1. PICK i \in DOMAIN rpc_queue'[j] : rpc_queue'[j][i] = u
    BY DEF Waits
  <2>2. CASE j # k
    BY <1>1, <1>3, <2>1, <2>2 DEF Waits
  <2>3. CASE j = k
    <3>1. PICK q \in Seq(App) : q = rpc_queue[j]
      BY <1>1
    <3>2. rpc_queue'[j] = Append(q, t)
      BY <1>1, <1>3, <2>3, <3>1
    <3>3. i \in DOMAIN q /\ q[i] = u
      BY <2>1, <3>2
    <3> QED
      BY <3>1, <3>3 DEF Waits
  <2> QED
    BY <2>2, <2>3
<1>4. ASSUME NEW k \in Stack, rpc_queue[k] # << >>,
             rpc_queue' = [rpc_queue EXCEPT ![k] = Tail(@)]
      PROVE  Waits(u, j)
  <2>1. PICK i \in DOMAIN rpc_queue'[j] : rpc_queue'[j][i] = u
    BY DEF Waits
  <2>2. CASE j # k
    BY <1>1, <1>4, <2>1, <2>2 DEF Waits
  <2>3. CASE j = k
    <3>1. PICK q \in Seq(App) : q = rpc_queue[j] /\ q # << >>
      BY <1>1, <1>4, <2>3
    <3>2. rpc_queue'[j] = Tail(q)
      BY <1>1, <1>4, <2>3, <3>1
    <3>3. i + 1 \in DOMAIN q /\ q[i + 1] = u
      BY <2>1, <3>1, <3>2
    <3> QED
      BY <3>1, <3>3 DEF Waits
  <2> QED
    BY <2>2, <2>3
<1> QED
  BY <1>2, <1>3, <1>4 DEF Moved

LEMMA WaitsOwn ==
  ASSUME IInv, NEW t \in App, pc[t] # "sent", NEW k \in Stack,
         rpc_queue' = [rpc_queue EXCEPT ![k] = Append(@, t)], NEW j \in Stack, Waits(t, j)'
  PROVE  j = k
<1>1. rpc_queue \in [Stack -> Seq(App)] /\ ~Waits(t, j)
  BY WaitsSent DEF IInv, VarShape
<1> QED
  BY <1>1 DEF Waits

(* A step of the thread t, or of nobody, that touches no list but that of   *)
(* the socket D, which t works on: what is known of the others stays.       *)
Elsewhere(t, D) ==
  /\ cfg' = cfg /\ Moved(t)
  /\ D \in Fd => t \in App /\ owner[D] = t
  /\ \A x \in Fd : Steady(x) \/ Out(x) \/ sock[x].head = D
  /\ \A u \in App \ {t} : SameCall(u)
  /\ \A d \in Fd \ {D} : owner'[d] # No =>
       /\ owner'[d] = owner[d] \/ (t \in App /\ Given(t, d)) \/ sock'[d].kind = "kernel"
       /\ d \in served' <=> d \in served
  /\ \A d \in Fd : (t \in App /\ Given(t, d)') \/ (\E k \in Stack : Accepting(k, d)') =>
       \/ t \in App /\ Given(t, d)
       \/ \E k \in Stack : Accepting(k, d)
       \/ ~sock'[d].master

LEMMA OthersKept ==
  ASSUME IInv, IInv', MissInv, MissInv', CoverInv, Spread, NEW t \in App \cup {No}, NEW D \in Fd \cup {No},
         Elsewhere(t, D),
         t \in App /\ Listens(t) => call[t].fd = D,
         t \in App /\ Listens(t)' => call'[t].fd = D
  PROVE  /\ \A d \in Fd \ {D} : CoverShape(d)'
         /\ \A d \in Fd : FreshShape(d)'
         /\ \A u \in App \ {t} : ListenShape(u)' /\ BindShape(u)'
         /\ \A u \in App \ {t}, k \in Stack : PlaceShape(u, k)'
<1>1. \A x \in Fd, d \in Fd \ {D} :
        sock[x].head = d => Steady(x) \/ Out(x)
  BY DEF Elsewhere
<1>2. \A d \in Fd \ {D} : owner[d] # No =>
        \A x \in Fd : Steady(x) \/ Out(x) \/ sock[x].head # d
  BY <1>1
<1>3. \A u \in App \ {t} : pc'[u] = pc[u] /\ SameCall(u) /\ call'[u].op = call[u].op
                           /\ call'[u].fd = call[u].fd /\ call'[u].f = call[u].f
                           /\ call'[u].cur = call[u].cur /\ call'[u].i = call[u].i
                           /\ call'[u].ret = call[u].ret
  BY SameFields DEF Elsewhere
<1>4. ASSUME NEW u \in App \ {t}, call[u].op \in {"bind", "listen"}
      PROVE  call[u].fd \in Fd \ {D} /\ owner[call[u].fd] = u
  BY <1>4, Consts DEF Elsewhere, IInv, UseShape
<1>5. ASSUME NEW d \in Fd, \/ \E u \in App : Given(u, d)
                           \/ \E k \in Stack : Accepting(k, d)
      PROVE  owner[d] = No /\ Steady(d) /\ sock[d].listen_next = No
  <2>1. /\ owner[d] = No /\ Live(d) /\ sock[d].head = d /\ sock[d].listen_next = No
        /\ \A u \in App : ~Closing(u, d)
    BY <1>5 DEF IInv, RoleShape
  <2>2. d # D /\ ~Out(d)
    <3>1. sock[d].open
      BY <2>1 DEF IInv, SlotShape
    <3>2. D # d
      BY <2>1, Consts DEF Elsewhere
    <3> QED
      BY <2>1, <3>1, <3>2 DEF Out
  <2> QED
    BY <1>1, <2>1, <2>2
<1>6. ASSUME NEW d \in Fd \ {D} PROVE CoverShape(d)'
  <2>1. CoverShape(d) /\ FreshShape(d)
    BY DEF CoverInv
  <2>2. CASE owner[d] # No /\ owner'[d] # No
    <3>1. d \in served' <=> d \in served
      BY <2>2 DEF Elsewhere
    <3>2. \A u \in App : Listens(u) /\ call[u].fd = d => Listens(u)' /\ call'[u].fd = d
      BY <1>3 DEF Listens
    <3>3. cfg' = cfg
      BY DEF Elsewhere
    <3> QED
      BY <1>2, <2>1, <2>2, <3>1, <3>2, <3>3, CoverKept
  <2>3. CASE owner[d] = No /\ owner'[d] # No /\ sock'[d].kind # "kernel"
    <3>1. t \in App /\ Given(t, d) /\ (d \in served' <=> d \in served)
      BY <2>3 DEF Elsewhere
    <3>2. Steady(d) /\ sock'[d].listen_next = No /\ ~sock'[d].master
      BY <1>5, <2>1, <3>1 DEF FreshShape, Steady
    <3>3. d \notin served'
      BY <2>3, <3>1 DEF MissInv
    <3>4. Reach(d)' \subseteq {d}
      <4>1. Closed({d})'
        BY <3>2 DEF Closed
      <4>2. {d} \in SUBSET Fd
        OBVIOUS
      <4> QED
        BY <4>1, <4>2 DEF Reach
    <3>5. Masters(d)' = {}
      BY <3>2, <3>4 DEF Masters
    <3> QED
      BY <3>2, <3>3, <3>5 DEF CoverShape
  <2>4. CASE owner'[d] = No
    BY <2>4 DEF CoverShape, MissInv
  <2>5. CASE owner[d] = No /\ owner'[d] # No /\ sock'[d].kind = "kernel"
    BY <2>5 DEF CoverShape, MissInv, Elsewhere
  <2> QED
    BY <2>2, <2>3, <2>4, <2>5
<1>7. ASSUME NEW d \in Fd PROVE FreshShape(d)'
  <2>1. \A u \in App \ {t} : Given(u, d)' <=> Given(u, d)
    BY <1>3 DEF Given
  <2>2. SUFFICES ASSUME (\E u \in App : Given(u, d)') \/ (\E k \in Stack : Accepting(k, d)')
                 PROVE  ~sock'[d].master
    BY DEF FreshShape
  <2>3. \/ \E u \in App : Given(u, d)
        \/ \E k \in Stack : Accepting(k, d)
        \/ ~sock'[d].master
    BY <2>1, <2>2 DEF Elsewhere
  <2>4. FreshShape(d)
    BY DEF CoverInv
  <2> QED
    BY <1>5, <2>3, <2>4 DEF FreshShape, Steady
<1>8. ASSUME NEW u \in App \ {t} PROVE ListenShape(u)'
  <2>1. CASE ~Listens(u)
    BY <1>3, <2>1 DEF ListenShape, Listens
  <2>2. CASE Listens(u)
    <3>1. PICK d \in Fd \ {D} : d = call[u].fd /\ owner[d] = u
      BY <1>4, <2>2 DEF Listens
    <3>2. \A x \in Fd : Steady(x) \/ Out(x) \/ sock[x].head # d
      BY <1>2, <3>1, Consts
    <3>3. d \in served' <=> d \in served
      <4>1. owner'[d] # No
        <5>1. call'[u].fd = d /\ call'[u].op = "listen"
          BY <1>3, <2>2, <3>1 DEF Listens
        <5>2. owner'[d] = u
          BY <5>1 DEF IInv, UseShape
        <5> QED
          BY <5>2, Consts
      <4> QED
        BY <4>1 DEF Elsewhere
    <3>4. ListenShape(u) /\ cfg' = cfg
      BY DEF CoverInv, Elsewhere
    <3> QED
      BY <1>3, <2>2, <3>1, <3>2, <3>3, <3>4, ListenKept
  <2> QED
    BY <2>1, <2>2
<1>9. ASSUME NEW u \in App \ {t} PROVE BindShape(u)'
  <2>1. CASE call[u].op # "bind"
    BY <1>3, <2>1 DEF BindShape
  <2>2. CASE call[u].op = "bind"
    <3>1. PICK d \in Fd \ {D} : d = call[u].fd /\ owner[d] = u
      BY <1>4, <2>2
    <3>2. Steady(d)
      BY <1>2, <3>1, ListSame, Consts
    <3>3. BindShape(u)
      BY DEF CoverInv
    <3>4. Spread'
      BY DEF Elsewhere, Spread
    <3> QED
      BY <1>3, <3>1, <3>2, <3>3, <3>4 DEF BindShape, Steady
  <2> QED
    BY <2>1, <2>2
<1>10. ASSUME NEW u \in App \ {t}, NEW k \in Stack PROVE PlaceShape(u, k)'
  <2>1. SUFFICES ASSUME Listens(u)', Waits(u, k)'
                 PROVE  /\ call'[u].f = "shadow" => call'[u].i = k
                        /\ call'[u].f = "listen" => sock'[call'[u].cur].stack = k
    BY DEF PlaceShape
  <2>2. Listens(u) /\ Waits(u, k) /\ pc[u] = "sent" /\ PlaceShape(u, k)
    <3>1. Waits(u, k)
      BY <2>1, WaitsOthers DEF Elsewhere
    <3> QED
      BY <1>3, <2>1, <3>1, WaitsSent DEF Listens, CoverInv
  <2>3. PICK d \in Fd \ {D} : d = call[u].fd /\ owner[d] = u
    BY <1>4, <2>2 DEF Listens
  <2>4. call[u].cur \in Reach(d)
    BY <2>2, <2>3 DEF IInv, UseShape, Listens
  <2>5. Steady(call[u].cur)
    BY <1>2, <2>3, <2>4, ListSame, Consts
  <2> QED
    BY <1>3, <2>2, <2>5 DEF PlaceShape, Steady
<1> QED
  BY <1>6, <1>7, <1>8, <1>9, <1>10

LEMMA CoverStep ==
  ASSUME IInv, IInv', MissInv, MissInv', CoverInv,
         NEW t \in App \cup {No}, NEW D \in Fd \cup {No}, Elsewhere(t, D),
         t \in App /\ Listens(t) => call[t].fd = D,
         t \in App /\ Listens(t)' => call'[t].fd = D,
         Spread /\ D \in Fd => CoverShape(D)',
         Spread /\ t \in App =>
           ListenShape(t)' /\ BindShape(t)' /\ \A k \in Stack : PlaceShape(t, k)',
         ~Spread /\ t \in App => SingleShape(t)',
         ~Spread /\ D \in served' => sock'[D].state = "LISTEN"
  PROVE  CoverInv'
<1>1. Spread' <=> Spread
  BY DEF Elsewhere, Spread
<1>2. CASE Spread
  <2>1. /\ \A d \in Fd \ {D} : CoverShape(d)'
        /\ \A d \in Fd : FreshShape(d)'
        /\ \A u \in App \ {t} : ListenShape(u)' /\ BindShape(u)'
        /\ \A u \in App \ {t}, k \in Stack : PlaceShape(u, k)'
    BY <1>2, OthersKept
  <2>2. \A d \in Fd : CoverShape(d)'
    BY <1>2, <2>1
  <2>3. \A u \in App : ListenShape(u)' /\ BindShape(u)'
    BY <1>2, <2>1
  <2>4. \A u \in App, k \in Stack : PlaceShape(u, k)'
    BY <1>2, <2>1
  <2> QED
    BY <1>1, <1>2, <2>1, <2>2, <2>3, <2>4 DEF CoverInv
<1>3. CASE ~Spread
  <2>1. \A d \in Fd \ {D} : owner[d] # No => Steady(d)
    <3> SUFFICES ASSUME NEW d \in Fd \ {D}, owner[d] # No PROVE Steady(d)
      OBVIOUS
    <3>1. sock[d].head = d /\ sock[d].open /\ \A u \in App : ~Closing(u, d)
      BY DEF IInv, RoleShape
    <3> QED
      BY <3>1 DEF Elsewhere, Out
  <2>2. ASSUME NEW d \in served' PROVE sock'[d].state = "LISTEN"
    <3>1. CASE d # D
      <4>1. d \in Fd /\ owner'[d] # No
        BY DEF MissInv, IInv, TypeOK
      <4>2. d \in served
        BY <3>1, <4>1 DEF Elsewhere
      <4>3. owner[d] # No /\ sock[d].state = "LISTEN"
        BY <1>3, <4>2 DEF MissInv, CoverInv
      <4> QED
        BY <2>1, <3>1, <4>1, <4>3 DEF Steady
    <3> QED
      BY <1>3, <3>1
  <2>3. ASSUME NEW u \in App \ {t} PROVE SingleShape(u)'
    <3>1. /\ pc'[u] = pc[u] /\ call'[u].op = call[u].op /\ call'[u].fd = call[u].fd
          /\ call'[u].f = call[u].f /\ call'[u].cur = call[u].cur
          /\ call'[u].ret = call[u].ret
      BY SameFields DEF Elsewhere
    <3>2. Listens(u) => call[u].fd \in Fd \ {D} /\ owner[call[u].fd] # No
      BY Consts DEF Elsewhere, IInv, UseShape, Listens
    <3>3. SingleShape(u)
      BY <1>3 DEF CoverInv
    <3> QED
      BY <2>1, <3>1, <3>2, <3>3 DEF SingleShape, Listens, Asks, Steady
  <2>4. \A u \in App : SingleShape(u)'
    BY <1>3, <2>3
  <2> QED
    BY <1>1, <1>3, <2>2, <2>4 DEF CoverInv
<1> QED
  BY <1>2, <1>3

(* The thread is not in a listen call when the step is over. *)
LEMMA CoverQuiet ==
  ASSUME IInv, IInv', MissInv, MissInv', CoverInv,
         NEW t \in App \cup {No}, NEW D \in Fd \cup {No}, Elsewhere(t, D),
         t \in App => ~Listens(t)' /\ BindShape(t)',
         t \in App /\ Listens(t) => call[t].fd = D,
         D \in Fd => owner'[D] = No \/ (Spread /\ sock'[D].kind # "tcp" /\ D \notin served')
  PROVE  CoverInv'
<1>1. D \in Fd /\ Spread => CoverShape(D)'
  BY DEF CoverShape, MissInv
<1>2. ~Spread /\ D \in served' => sock'[D].state = "LISTEN"
  BY DEF MissInv, IInv, TypeOK
<1>3. t \in App => ListenShape(t)' /\ (\A k \in Stack : PlaceShape(t, k)') /\ (~Spread => SingleShape(t)')
  BY DEF ListenShape, PlaceShape, SingleShape, BindShape, Elsewhere, Spread
<1> QED
  BY <1>1, <1>2, <1>3, CoverStep

(* A step that touches no list. *)
LEMMA CoverPlain ==
  ASSUME IInv, IInv', MissInv, MissInv', CoverInv,
         NEW t \in App \cup {No}, Elsewhere(t, No),
         t \in App => ~Listens(t) /\ ~Listens(t)' /\ BindShape(t)'
  PROVE  CoverInv'
<1>1. No \notin Fd
  BY Consts
<1> QED
  BY <1>1, CoverQuiet

-----------------------------------------------------------------------------
(* The threads that are not in a listen call. *)

LEMMA CoverCalls ==
  ASSUME IInv, IInv', MissInv, MissInv', CoverInv, NEW t \in App,
         UNCHANGED <<cfg, sock, stk, owner, served>>, \A u \in App \ {t} : SameCall(u), Moved(t),
         ~Listens(t), ~Listens(t)', BindShape(t)',
         \/ pc'[t] # "ret"
         \/ call'[t].op \notin {"socket", "accept"}
         \/ call'[t].ret \notin Fd
  PROVE  CoverInv'
<1>1. \A d \in Fd : ~Given(t, d)'
  BY DEF Given
<1>2. \A d \in Fd, k \in Stack : Accepting(k, d)' <=> Accepting(k, d)
  BY DEF Accepting
<1>3. Elsewhere(t, No)
  BY <1>1, <1>2, Consts, SteadySame DEF Elsewhere
<1> QED
  BY <1>3, CoverPlain

LEMMA Back ==
  ASSUME IInv, NEW t \in App, Return(t)
  PROVE  /\ pc'[t] = "idle" /\ call'[t].op = "none" /\ ~Listens(t)' /\ BindShape(t)'
         /\ \A u \in App \ {t} : SameCall(u)
<1>1. call'[t] = NoCall /\ pc'[t] = "idle" /\ \A u \in App \ {t} : SameCall(u)
  BY DEF IInv, VarShape, Return, SameCall
<1> QED
  BY <1>1 DEF NoCall, Listens, BindShape

LEMMA CoverBack ==
  ASSUME IInv, IInv', MissInv, MissInv', CoverInv, NEW t \in App,
         UNCHANGED <<cfg, sock, stk, owner, served>>, ~Listens(t), Return(t), Moved(t)
  PROVE  CoverInv'
  BY Back, CoverCalls

(* A thread asks a stack something else. *)
LEMMA CoverAsks ==
  ASSUME IInv, IInv', MissInv, MissInv', CoverInv, NEW t \in App,
         UNCHANGED <<cfg, sock, stk, owner, served>>, ~Listens(t),
         NEW k \in Stack \cup {No}, NEW c \in CallRec, CallStack(t, k, c),
         c.op # "listen", c.op = "bind" => c.f # "shadow", c.op = "socket" => k # No
  PROVE  CoverInv'
<1>1. /\ call'[t].op = c.op /\ pc'[t] \in {"sent", "ret"} /\ \A u \in App \ {t} : SameCall(u)
      /\ (k # No => pc'[t] = "sent") /\ Moved(t)
  BY Asked DEF Moved
<1>2. call'[t].f = c.f /\ (k = No => call'[t].ret = -1)
  BY DEF CallStack, CallRec, IInv, VarShape
<1>3. -1 \notin Fd
  BY DEF Fd
<1> QED
  BY <1>1, <1>2, <1>3, CoverCalls DEF Listens, BindShape

(* Everything is closed. *)
LEMMA CoverCloses ==
  ASSUME IInv, IInv', MissInv, MissInv', CoverInv, NEW t \in App, NEW d \in Fd, owner[d] = t,
         owner' = [owner EXCEPT ![d] = No], served' = served \ {d},
         UNCHANGED <<cfg, sock, rpc_queue, stk>>, \A u \in App \ {t} : SameCall(u),
         call'[t].op \in {"close", "failed"}, Listens(t) => call[t].fd = d
  PROVE  CoverInv'
<1>1. /\ \A x \in Fd : ~Given(t, x)'
      /\ \A x \in Fd, k \in Stack : Accepting(k, x)' <=> Accepting(k, x)
  BY DEF Given, Accepting
<1>2. owner'[d] = No /\ \A x \in Fd \ {d} : owner'[x] = owner[x]
  BY DEF IInv, TypeOK
<1>3. Elsewhere(t, d)
  BY <1>1, <1>2, Consts, SteadySame DEF Elsewhere, Moved
<1>4. ~Listens(t)' /\ BindShape(t)'
  BY DEF Listens, BindShape
<1> QED
  BY <1>2, <1>3, <1>4, CoverQuiet

LEMMA CloseAllCover ==
  ASSUME IInv, IInv', MissInv, MissInv', CoverInv, NEW t \in App, pc[t] = "ret",
         call[t].op \in {"bind", "listen"}, CloseAll(t),
         UNCHANGED <<cfg, sock, rpc_queue, stk>>
  PROVE  CoverInv'
<1>1. call[t].fd \in Fd /\ owner[call[t].fd] = t
  BY DEF IInv, UseShape
<1>2. /\ call'[t].op = "failed" /\ \A u \in App \ {t} : SameCall(u)
  BY DEF CloseAll, IInv, VarShape, SameCall, NoCall
<1> QED
  BY <1>1, <1>2, CoverCloses DEF CloseAll

LEMMA CloseCover ==
  ASSUME IInv, IInv', MissInv, MissInv', CoverInv, NEW t \in App, NEW d \in Fd, Close(t, d)
  PROVE  CoverInv'
<1>1. /\ pc[t] = "idle" /\ owner[d] = t /\ UNCHANGED <<cfg, sock, rpc_queue, stk>>
      /\ owner' = [owner EXCEPT ![d] = No] /\ served' = served \ {d}
  BY DEF Close, Begins
<1>2. call'[t].op = "close" /\ \A u \in App \ {t} : SameCall(u)
  BY DEF Close, IInv, VarShape, SameCall, NoCall
<1>3. ~Listens(t)
  BY <1>1, Idle DEF Listens
<1> QED
  BY <1>1, <1>2, <1>3, CoverCloses

LEMMA CountSocketCover ==
  ASSUME IInv, IInv', MissInv, MissInv', CoverInv, NEW t \in App, CountSocket(t)
  PROVE  CoverInv'
<1>1. pc[t] = "count" /\ UNCHANGED <<cfg, sock, stk, owner, served>>
  BY DEF CountSocket, history
<1>2. call[t] \in CallRec /\ call[t].op = "socket" /\ call[t].k \in Stack /\ call[t].k # No
  BY <1>1, Consts DEF IInv, VarShape, StageShape
<1> DEFINE c == [call[t] EXCEPT !.tmp = 0]
<1>3. c \in CallRec /\ c.op = "socket" /\ CallStack(t, call[t].k, c)
  BY <1>2, SocketsAssumption DEF CallRec, CountSocket
<1> HIDE DEF c
<1> QED
  BY <1>1, <1>2, <1>3, CoverAsks DEF Listens

(* A socket is the application's now. *)
LEMMA CoverTakes ==
  ASSUME IInv, IInv', MissInv, MissInv', CoverInv, NEW t \in App, NEW n \in Fd, Given(t, n),
         owner' = [owner EXCEPT ![n] = t], Return(t),
         UNCHANGED <<cfg, sock, rpc_queue, stk, served>>
  PROVE  CoverInv'
<1>1. /\ \A x \in Fd \ {n} : owner'[x] = owner[x]
      /\ owner'[n] = t /\ ~Listens(t)
  BY DEF IInv, TypeOK, Given, Listens
<1>2. /\ ~Listens(t)' /\ BindShape(t)' /\ \A u \in App \ {t} : SameCall(u)
      /\ \A x \in Fd : ~Given(t, x)'
      /\ \A x \in Fd, k \in Stack : Accepting(k, x)' <=> Accepting(k, x)
  BY Back DEF Given, Accepting
<1>3. Elsewhere(t, No)
  BY <1>1, <1>2, Consts, SteadySame DEF Elsewhere, Moved
<1> QED
  BY <1>1, <1>2, <1>3, CoverPlain

LEMMA SocketReturnsCover ==
  ASSUME IInv, IInv', MissInv, MissInv', CoverInv, NEW t \in App, SocketReturns(t)
  PROVE  CoverInv'
<1>1. /\ pc[t] = "ret" /\ call[t].op = "socket" /\ Return(t)
      /\ UNCHANGED <<cfg, sock, stk, rpc_queue, served>>
      /\ owner' = IF call[t].ret > 0 THEN [owner EXCEPT ![call[t].ret] = t] ELSE owner
  BY DEF SocketReturns, counts
<1>2. call[t].ret \in Fd \cup {-1}
  BY <1>1 DEF IInv, StageShape
<1>3. CASE call[t].ret \in Fd
  BY <1>1, <1>3, CoverTakes, Consts DEF Given
<1>4. CASE call[t].ret = -1
  BY <1>1, <1>4, CoverBack DEF Moved, Listens
<1> QED
  BY <1>2, <1>3, <1>4

(* A slot that nobody holds is handed out. *)
LEMMA NewFdSteady ==
  ASSUME IInv, FreeFds # {}, NEW r, sock' = [sock EXCEPT ![NewFd] = r]
  PROVE  /\ NewFd \in Fd /\ Out(NewFd) /\ sock'[NewFd] = r /\ owner[NewFd] = No
         /\ \A x \in Fd \ {NewFd} : Steady(x)
<1>1. NewFd \in Fd /\ ~sock[NewFd].open
  BY NewFdFree
<1>2. sock'[NewFd] = r /\ \A x \in Fd \ {NewFd} : sock'[x] = sock[x]
  BY <1>1 DEF IInv, TypeOK
<1> QED
  BY <1>1, <1>2, SteadySame, FreeFd DEF Out

LEMMA KernelCover ==
  ASSUME IInv, IInv', MissInv, MissInv', CoverInv, NEW t \in App, FreeFds # {},
         ~Listens(t), ~Listens(t)', BindShape(t)', \A x \in Fd : ~Given(t, x)',
         \A u \in App \ {t} : SameCall(u), NEW r, r.kind = "kernel",
         sock' = [sock EXCEPT ![NewFd] = r], owner' = [owner EXCEPT ![NewFd] = t],
         UNCHANGED <<cfg, rpc_queue, stk, served>>
  PROVE  CoverInv'
<1>1. /\ NewFd \in Fd /\ Out(NewFd) /\ sock'[NewFd] = r
      /\ \A x \in Fd \ {NewFd} : Steady(x)
  BY NewFdSteady
<1>2. \A x \in Fd \ {NewFd} : owner'[x] = owner[x]
  BY <1>1 DEF IInv, TypeOK
<1>3. \A x \in Fd, k \in Stack : Accepting(k, x)' <=> Accepting(k, x)
  BY DEF Accepting
<1>4. Elsewhere(t, No)
  BY <1>1, <1>2, <1>3, Consts DEF Elsewhere, Moved
<1> QED
  BY <1>4, CoverPlain

LEMMA KernelSocketCover ==
  ASSUME IInv, IInv', MissInv, MissInv', CoverInv, NEW t \in App, KernelSocket(t)
  PROVE  CoverInv'
<1>1. /\ pc[t] = "idle" /\ UNCHANGED <<cfg, rpc_queue, stk, pc, call, served>>
      /\ FreeFds # {} /\ sock' = [sock EXCEPT ![NewFd] = KernelSock(NewFd)]
      /\ owner' = [owner EXCEPT ![NewFd] = t]
  BY DEF KernelSocket, Begins
<1>2. call[t].op = "none" /\ \A u \in App \ {t} : SameCall(u)
  BY <1>1, Idle DEF SameCall
<1>3. KernelSock(NewFd).kind = "kernel"
  BY DEF KernelSock, FreeSock
<1>4. /\ ~Listens(t) /\ ~Listens(t)' /\ BindShape(t)' /\ \A x \in Fd : ~Given(t, x)'
  BY <1>1, <1>2 DEF Listens, BindShape, Given
<1> QED
  BY <1>1, <1>2, <1>3, <1>4, KernelCover

LEMMA AcceptReturnsCover ==
  ASSUME IInv, IInv', MissInv, MissInv', CoverInv, NEW t \in App, AcceptReturns(t)
  PROVE  CoverInv'
<1>1. /\ pc[t] = "ret" /\ call[t].op = "accept" /\ Return(t)
      /\ UNCHANGED <<cfg, rpc_queue, stk, served>>
  BY DEF AcceptReturns
<1>2. call[t].ret \in Fd \cup {-1}
  BY <1>1 DEF IInv, StageShape
<1>3. CASE call[t].ret > 0 /\ owner' = [owner EXCEPT ![call[t].ret] = t] /\ UNCHANGED sock
  <2>1. call[t].ret \in Fd
    BY <1>2, <1>3
  <2> QED
    BY <1>1, <1>3, <2>1, CoverTakes DEF Given
<1>4. CASE UNCHANGED <<owner, sock>>
  BY <1>1, <1>4, CoverBack DEF Moved, Listens
<1>5. CASE /\ FreeFds # {} /\ owner' = [owner EXCEPT ![NewFd] = t]
           /\ sock' = [sock EXCEPT ![NewFd] = [KernelSock(NewFd) EXCEPT !.kernel = TRUE]]
  <2>1. [KernelSock(NewFd) EXCEPT !.kernel = TRUE].kind = "kernel"
    BY DEF KernelSock, FreeSock
  <2>2. /\ ~Listens(t) /\ ~Listens(t)' /\ BindShape(t)' /\ \A x \in Fd : ~Given(t, x)'
        /\ \A u \in App \ {t} : SameCall(u)
    BY <1>1, Back DEF Listens, Given
  <2> QED
    BY <1>1, <1>5, <2>1, <2>2, KernelCover
<1> QED
  BY <1>3, <1>4, <1>5 DEF AcceptReturns

(* A step that leaves every socket of a list what it is. *)
LEMMA CoverTouch ==
  ASSUME IInv, IInv', MissInv, MissInv', CoverInv, NEW t \in App,
         \A x \in Fd : Steady(x) \/ Out(x), UNCHANGED <<cfg, stk, owner, served>>,
         \A u \in App \ {t} : SameCall(u), Moved(t), ~Listens(t), ~Listens(t)', BindShape(t)',
         call'[t].op \notin {"socket", "accept"}
  PROVE  CoverInv'
<1>1. \A d \in Fd : ~Given(t, d)'
  BY DEF Given
<1>2. \A d \in Fd, k \in Stack : Accepting(k, d)' <=> Accepting(k, d)
  BY DEF Accepting
<1>3. Elsewhere(t, No)
  BY <1>1, <1>2, Consts DEF Elsewhere
<1> QED
  BY <1>3, CoverPlain

LEMMA CloseKernelCover ==
  ASSUME IInv, IInv', MissInv, MissInv', CoverInv, NEW t \in App, CloseKernel(t)
  PROVE  CoverInv'
<1>1. /\ pc[t] = "close" /\ Return(t) /\ UNCHANGED <<cfg, stk, rpc_queue, owner, served>>
      /\ sock' = [sock EXCEPT ![call[t].cur] = FreeSock] /\ call[t].op = "close"
  BY DEF CloseKernel, history
<1>2. PICK d \in Fd : d = call[t].cur
  BY <1>1 DEF IInv, StageShape, Closes
<1>3. Out(d)
  BY <1>1, <1>2 DEF Out, Closing, Closes
<1>4. \A x \in Fd \ {d} : Steady(x)
  <2>1. \A x \in Fd \ {d} : sock'[x] = sock[x]
    BY <1>1, <1>2
  <2> QED
    BY <2>1, SteadySame
<1> QED
  BY <1>1, <1>3, <1>4, Back, CoverTouch DEF Moved, Listens

LEMMA CloseNextCover ==
  ASSUME IInv, IInv', MissInv, MissInv', CoverInv, NEW t \in App, CloseNext(t)
  PROVE  CoverInv'
<1>1. pc[t] = "close" /\ UNCHANGED <<cfg, sock, stk, owner, served>>
  BY DEF CloseNext, history
<1>2. call[t] \in CallRec /\ Closes(t)
  BY <1>1 DEF IInv, VarShape, StageShape
<1>3. PICK d \in Fd : d = call[t].cur
  BY <1>1, <1>2 DEF IInv, StageShape
<1> DEFINE c == [call[t] EXCEPT !.f = "close", !.next = sock[call[t].cur].listen_next]
<1>4. /\ c \in CallRec /\ c.op = call[t].op
      /\ CallStack(t, get_protocol_stack_by_fd(d), c)
  <2>1. sock[d].listen_next \in Fd \cup {No}
    BY DEF IInv, TypeOK
  <2> QED
    BY <1>2, <1>3, <2>1 DEF CallRec, CloseNext
<1> HIDE DEF c
<1>5. get_protocol_stack_by_fd(d) \in Stack \cup {No}
  BY FdStack
<1> QED
  BY <1>1, <1>2, <1>4, <1>5, CoverAsks DEF Closes, Listens

LEMMA CloseReturnsCover ==
  ASSUME IInv, IInv', MissInv, MissInv', CoverInv, NEW t \in App, CloseReturns(t)
  PROVE  CoverInv'
<1>1. /\ pc[t] = "ret" /\ call[t].f = "close"
      /\ UNCHANGED <<cfg, sock, stk, rpc_queue, owner, served>>
  BY DEF CloseReturns, history
<1>2. call[t] \in CallRec /\ Closes(t)
  BY <1>1 DEF IInv, VarShape, StageShape
<1>3. CASE Return(t)
  BY <1>1, <1>2, <1>3, CoverBack DEF Moved, Listens, Closes
<1>4. CASE call' = [call EXCEPT ![t].cur = call[t].next, ![t].next = No]
           /\ pc' = [pc EXCEPT ![t] = "close"]
  <2>1. call'[t].op = call[t].op /\ \A u \in App \ {t} : SameCall(u)
    BY <1>2, <1>4 DEF IInv, VarShape, CallRec, SameCall
  <2> QED
    BY <1>1, <1>2, <2>1, CoverCalls DEF Closes, Moved, Listens, BindShape
<1> QED
  BY <1>3, <1>4 DEF CloseReturns

LEMMA GetBindStackCover ==
  ASSUME IInv, IInv', MissInv, MissInv', CoverInv, NEW t \in App, NEW kind,
         GetBindStack(t, kind)
  PROVE  CoverInv'
<1>1. pc[t] = "idle" /\ UNCHANGED <<cfg, sock, rpc_queue, stk, owner, served>>
  BY DEF GetBindStack, Begins, history
<1>2. \/ UNCHANGED <<pc, call>>
      \/ \E k : Counting(t, kind, k)
  BY DEF GetBindStack
<1>3. /\ call'[t].op \in {"none", "socket"} /\ pc'[t] \in {"idle", "count"}
      /\ \A u \in App \ {t} : SameCall(u)
  <2>1. CASE UNCHANGED <<pc, call>>
    BY <1>1, <2>1, Idle DEF SameCall
  <2>2. ASSUME NEW k, Counting(t, kind, k)
        PROVE  /\ call'[t].op = "socket" /\ pc'[t] = "count"
               /\ \A u \in App \ {t} : SameCall(u)
    BY <2>2 DEF Counting, IInv, VarShape, SameCall, NoCall
  <2> QED
    BY <1>2, <2>1, <2>2
<1> QED
  BY <1>1, <1>3, Idle, CoverCalls DEF Moved, Listens, BindShape

(* A thread asks the stack of one of its sockets. *)
LEMMA CoverAsksOf ==
  ASSUME IInv, IInv', MissInv, MissInv', CoverInv, NEW t \in App, pc[t] = "idle",
         UNCHANGED <<cfg, sock, stk, owner, served>>, NEW d \in Fd, NEW c \in CallRec,
         CallStack(t, get_protocol_stack_by_fd(d), c),
         c.op \notin {"listen", "socket"}, c.op = "bind" => c.f # "shadow"
  PROVE  CoverInv'
<1>1. get_protocol_stack_by_fd(d) \in Stack \cup {No}
  BY FdStack
<1>2. ~Listens(t)
  BY Idle DEF Listens
<1> QED
  BY <1>1, <1>2, CoverAsks

LEMMA BindCover ==
  ASSUME IInv, IInv', MissInv, MissInv', CoverInv, NEW t \in App, NEW d \in Fd, Bind(t, d)
  PROVE  CoverInv'
<1>1. pc[t] = "idle" /\ UNCHANGED <<cfg, sock, stk, owner, served>>
  BY DEF Bind, Begins, history
<1> DEFINE c == [NoCall EXCEPT !.op = "bind", !.fd = d, !.f = "bind", !.cur = d,
                               !.k = get_protocol_stack_by_fd(d)]
<1>2. c \in CallRec /\ c.op = "bind" /\ c.f = "bind"
  BY NoCallType, FdStack DEF CallRec
<1>3. CallStack(t, get_protocol_stack_by_fd(d), c)
  BY DEF Bind
<1> HIDE DEF c
<1> QED
  BY <1>1, <1>2, <1>3, CoverAsksOf

LEMMA QueryCover ==
  ASSUME IInv, IInv', MissInv, MissInv', CoverInv, NEW t \in App, NEW d \in Fd, NEW set,
         Query(t, d, set)
  PROVE  CoverInv'
<1>1. pc[t] = "idle" /\ UNCHANGED <<cfg, sock, stk, owner, served>>
  BY DEF Query, Begins, history
<1> DEFINE c == [NoCall EXCEPT !.op = "query", !.fd = d, !.f = "query", !.cur = d]
<1>2. c \in CallRec /\ c.op = "query"
  BY NoCallType DEF CallRec
<1>3. CallStack(t, get_protocol_stack_by_fd(d), c)
  BY DEF Query
<1> HIDE DEF c
<1> QED
  BY <1>1, <1>2, <1>3, CoverAsksOf

LEMMA AcceptCover ==
  ASSUME IInv, IInv', MissInv, MissInv', CoverInv, NEW t \in App, NEW d \in Fd, Accept(t, d)
  PROVE  CoverInv'
<1>1. pc[t] = "idle" /\ UNCHANGED <<cfg, sock, stk, owner, served>> /\ owner[d] # No
  BY DEF Accept, Begins, history, MissInv
<1> DEFINE c == [NoCall EXCEPT !.op = "accept", !.fd = d, !.found = Waiting(d)]
<1>2. /\ c \in CallRec /\ c.op = "accept"
  <2>1. Waiting(d) \in BOOLEAN
    BY DEF Waiting
  <2> QED
    BY <2>1, NoCallType, ZenonT(30) DEF CallRec
<1>3. CASE /\ MinAcceptSock(d) = {} /\ UNCHANGED rpc_queue
           /\ call' = [call EXCEPT ![t] = [c EXCEPT !.ret = -1]]
           /\ pc' = [pc EXCEPT ![t] = "ret"]
  <2> HIDE DEF c
  <2>1. /\ call'[t].op = "accept" /\ call'[t].ret = -1
        /\ \A u \in App \ {t} : SameCall(u)
    BY <1>2, <1>3 DEF IInv, VarShape, CallRec, SameCall
  <2>2. -1 \notin Fd
    BY DEF Fd
  <2>3. ~Listens(t)
    BY <1>1, Idle DEF Listens
  <2> QED
    BY <1>1, <1>3, <2>1, <2>2, <2>3, CoverCalls DEF Moved, Listens, BindShape
<1>4. CASE /\ MinAcceptSock(d) # {}
           /\ CallStack(t, get_protocol_stack_by_fd(CHOOSE y \in MinAcceptSock(d) : TRUE),
                        [c EXCEPT !.f = "accept", !.cur = CHOOSE y \in MinAcceptSock(d) : TRUE])
  <2>1. PICK x \in MinAcceptSock(d) : x = CHOOSE y \in MinAcceptSock(d) : TRUE
    BY <1>4
  <2>2. x \in Fd
    BY ReachSelf DEF MinAcceptSock
  <2> HIDE DEF c
  <2> DEFINE e == [c EXCEPT !.f = "accept", !.cur = x]
  <2>3. e \in CallRec /\ e.op = "accept"
    BY <1>2, <2>2 DEF CallRec
  <2>4. CallStack(t, get_protocol_stack_by_fd(x), e)
    BY <1>4, <2>1
  <2> HIDE DEF e
  <2> QED
    BY <1>1, <2>2, <2>3, <2>4, CoverAsksOf
<1> QED
  BY <1>3, <1>4 DEF Accept

LEMMA ConnectCover ==
  ASSUME IInv, IInv', MissInv, MissInv', CoverInv, NEW t \in App, NEW d \in Fd, NEW local,
         Connect(t, d, local)
  PROVE  CoverInv'
<1>1. pc[t] = "idle" /\ UNCHANGED <<cfg, stk, owner, served>>
  BY DEF Connect, Begins, history
<1> DEFINE c == [NoCall EXCEPT !.op = "connect", !.fd = d, !.cur = d]
<1>2. c \in CallRec /\ c.op = "connect" /\ c.fd = d
  BY NoCallType DEF CallRec
<1>3. \/ /\ sock' = [sock EXCEPT ![d].kernel = TRUE]
         /\ call' = [call EXCEPT ![t] = [c EXCEPT !.f = "local"]]
         /\ UNCHANGED rpc_queue
      \/ CallStack(t, get_protocol_stack_by_fd(d), [c EXCEPT !.f = "connect"]) /\ UNCHANGED sock
  BY DEF Connect
<1> HIDE DEF c
<1>4. CASE /\ sock' = [sock EXCEPT ![d].kernel = TRUE]
           /\ call' = [call EXCEPT ![t] = [c EXCEPT !.f = "local"]]
           /\ UNCHANGED rpc_queue
  <2>1. /\ sock[d] \in SockRec /\ \A x \in Fd \ {d} : sock'[x] = sock[x]
        /\ sock'[d] = [sock[d] EXCEPT !.kernel = TRUE]
    BY <1>4, SockTypes DEF IInv, TypeOK
  <2>2. \A x \in Fd : Steady(x)
    BY <2>1, SteadySame DEF SockRec, Steady
  <2>3. call'[t].op = "connect" /\ \A u \in App \ {t} : SameCall(u)
    <3>1. call'[t].op = "connect" /\ \A u \in App \ {t} : call'[u] = call[u]
      BY <1>2, <1>4 DEF IInv, VarShape, CallRec
    <3>2. \A u \in App \ {t} : pc'[u] = pc[u]
      BY DEF Connect, CallStack, IInv, VarShape
    <3> QED
      BY <3>1, <3>2 DEF SameCall
  <2> QED
    BY <1>1, <1>4, <2>2, <2>3, Idle, CoverTouch DEF Moved, Listens, BindShape
<1>5. CASE CallStack(t, get_protocol_stack_by_fd(d), [c EXCEPT !.f = "connect"]) /\ UNCHANGED sock
  <2>1. [c EXCEPT !.f = "connect"] \in CallRec /\ [c EXCEPT !.f = "connect"].op = "connect"
    BY <1>2 DEF CallRec
  <2> QED
    BY <1>1, <1>5, <2>1, CoverAsksOf
<1> QED
  BY <1>3, <1>4, <1>5

LEMMA ConnectReturnsCover ==
  ASSUME IInv, IInv', MissInv, MissInv', CoverInv, NEW t \in App, ConnectReturns(t)
  PROVE  CoverInv'
<1>1. /\ pc[t] = "ret" /\ call[t].op = "connect" /\ Return(t)
      /\ UNCHANGED <<cfg, stk, rpc_queue, owner, served>>
      /\ sock' = [sock EXCEPT ![call[t].fd].type =
                    IF call[t].f = "local" THEN "HOST" ELSE "LIBOS"]
  BY DEF ConnectReturns, history
<1>2. PICK d \in Fd : d = call[t].fd
  BY <1>1 DEF IInv, UseShape
<1>3. /\ sock[d] \in SockRec /\ \A x \in Fd \ {d} : sock'[x] = sock[x]
      /\ sock'[d] = [sock[d] EXCEPT !.type = IF call[t].f = "local" THEN "HOST" ELSE "LIBOS"]
  BY <1>1, <1>2, SockTypes DEF IInv, TypeOK
<1>4. \A x \in Fd : Steady(x)
  BY <1>3, SteadySame DEF SockRec, Steady
<1> QED
  BY <1>1, <1>4, Back, CoverTouch DEF Moved, Listens

LEMMA RecvFromCover ==
  ASSUME IInv, IInv', MissInv, MissInv', CoverInv, NEW t \in App, NEW d \in Fd, RecvFrom(t, d)
  PROVE  CoverInv'
<1>1. pc[t] = "idle" /\ UNCHANGED <<cfg, sock, stk, owner, served, rpc_queue>>
  BY DEF RecvFrom, Begins, history
<1>2. call'[t].op = "recvfrom" /\ \A u \in App \ {t} : SameCall(u)
  BY DEF RecvFrom, IInv, VarShape, SameCall, NoCall
<1> QED
  BY <1>1, <1>2, Idle, CoverCalls DEF Moved, Listens, BindShape

LEMMA RecvWalkCover ==
  ASSUME IInv, IInv', MissInv, MissInv', CoverInv, NEW t \in App, RecvWalk(t)
  PROVE  CoverInv'
<1>1. pc[t] = "walk" /\ UNCHANGED <<cfg, rpc_queue, stk, owner, served>>
  BY DEF RecvWalk, history
<1>2. call[t] \in CallRec /\ call[t].op = "recvfrom"
  BY <1>1 DEF IInv, VarShape, StageShape
<1>3. PICK x \in Fd : x = call[t].cur
  BY <1>1, <1>2, WalkFacts
<1>4. CASE Return(t) /\ sock' = [sock EXCEPT ![x].queue = @ - 1]
  <2>1. /\ sock[x] \in SockRec /\ \A y \in Fd \ {x} : sock'[y] = sock[y]
        /\ sock'[x] = [sock[x] EXCEPT !.queue = @ - 1]
    BY <1>4, SockTypes DEF IInv, TypeOK
  <2>2. \A y \in Fd : Steady(y)
    BY <2>1, SteadySame DEF SockRec, Steady
  <2> QED
    BY <1>1, <1>2, <1>4, <2>2, Back, CoverTouch DEF Moved, Listens
<1>5. CASE /\ \/ call' = [call EXCEPT ![t].cur = sock[x].listen_next] /\ UNCHANGED pc
              \/ call' = [call EXCEPT ![t].ret = -1] /\ pc' = [pc EXCEPT ![t] = "ret"]
           /\ UNCHANGED sock
  <2>1. call'[t].op = "recvfrom" /\ \A u \in App \ {t} : SameCall(u)
    BY <1>2, <1>5 DEF IInv, VarShape, CallRec, SameCall
  <2> QED
    BY <1>1, <1>2, <1>5, <2>1, CoverCalls DEF Moved, Listens, BindShape
<1> QED
  BY <1>3, <1>4, <1>5 DEF RecvWalk

LEMMA AskReturnsCover ==
  ASSUME IInv, IInv', MissInv, MissInv', CoverInv, NEW t \in App, AskReturns(t)
  PROVE  CoverInv'
<1>1. /\ Return(t) /\ UNCHANGED <<cfg, sock, rpc_queue, stk, owner, served>>
      /\ call[t].op \in {"query", "recvfrom"}
  BY DEF AskReturns, history
<1> QED
  BY <1>1, CoverBack DEF Moved, Listens

-----------------------------------------------------------------------------
(* The stack threads, and the network. *)

(* A stack answers, and leaves every socket of a list what it is. *)
LEMMA CoverAnswer ==
  ASSUME IInv, IInv', MissInv, MissInv', CoverInv, NEW k \in Stack, NEW t \in App,
         rpc_queue[k] # << >>, t = Head(rpc_queue[k]), NEW v \in Int, Reply(k, t, v),
         \A x \in Fd : Steady(x) \/ Out(x), UNCHANGED <<cfg, owner, served>>,
         call[t].op # "listen", call[t].op = "bind" => call[t].f = "bind",
         \A d \in Fd : Given(t, d)' \/ (\E j \in Stack : Accepting(j, d)') =>
           (\E j \in Stack : Accepting(j, d)) \/ ~sock'[d].master
  PROVE  CoverInv'
<1>1. /\ Answered(t, v) /\ pc' = [pc EXCEPT ![t] = "ret"]
      /\ \A u \in App \ {t} : SameCall(u)
      /\ rpc_queue' = [rpc_queue EXCEPT ![k] = Tail(@)]
  BY Replied
<1>2. pc'[t] = "ret"
  BY <1>1 DEF IInv, VarShape
<1>3. Elsewhere(t, No)
  BY <1>1, Consts DEF Elsewhere, Moved
<1> QED
  BY <1>1, <1>2, <1>3, CoverPlain DEF Answered, Listens, BindShape

LEMMA StackSocketCover ==
  ASSUME IInv, IInv', MissInv, MissInv', CoverInv, NEW k \in Stack, NEW t \in App,
         StackSocket(k, t)
  PROVE  CoverInv'
<1>1. /\ rpc_queue[k] # << >> /\ t = Head(rpc_queue[k])
      /\ call[t].f \in {"tcp", "udp"} /\ call[t].op = "socket"
      /\ UNCHANGED <<cfg, stk, owner, served>>
  BY RunsFor DEF StackSocket, history
<1>2. \A d \in Fd, j \in Stack : Accepting(j, d)' <=> Accepting(j, d)
  BY <1>1 DEF Accepting
<1>3. ASSUME NEW v \in Int, Reply(k, t, v) PROVE \A d \in Fd : Given(t, d)' => d = v
  BY <1>1, <1>3, Replied DEF Answered, Given
<1>4. CASE Reply(k, t, -1) /\ UNCHANGED sock
  <2>1. -1 \in Int /\ -1 \notin Fd
    BY DEF Fd
  <2> QED
    BY <1>1, <1>2, <1>3, <1>4, <2>1, SteadySame, CoverAnswer
<1>5. CASE /\ FreeFds # {} /\ sock' = [sock EXCEPT ![NewFd] = NewSock(call[t].f, k, NewFd)]
           /\ Reply(k, t, NewFd)
  <2>1. NewFd \in Fd /\ NewFd \in Int
    BY <1>5, NewFdFree, Consts
  <2> DEFINE r == NewSock(call[t].f, k, NewFd)
  <2>2. ~r.master
    BY <1>1, <2>1, NewSockIs
  <2>3. sock' = [sock EXCEPT ![NewFd] = r]
    BY <1>5
  <2> HIDE DEF r
  <2>4. Out(NewFd) /\ sock'[NewFd] = r /\ \A x \in Fd \ {NewFd} : Steady(x)
    BY <1>5, <2>3, NewFdSteady
  <2> QED
    BY <1>1, <1>2, <1>3, <1>5, <2>1, <2>2, <2>4, CoverAnswer
<1> QED
  BY <1>4, <1>5 DEF StackSocket

LEMMA StackBindCover ==
  ASSUME IInv, IInv', MissInv, MissInv', CoverInv, NEW k \in Stack, NEW t \in App,
         StackBind(k, t)
  PROVE  CoverInv'
<1>1. /\ rpc_queue[k] # << >> /\ t = Head(rpc_queue[k]) /\ pc[t] = "sent"
      /\ call[t].f = "bind" /\ call[t].op = "bind" /\ UNCHANGED <<cfg, stk, owner, served>>
  BY RunsFor DEF StackBind, history
<1>2. PICK d \in Fd : d = call[t].cur
  BY <1>1 DEF IInv, UseShape
<1>3. PICK v \in {0, -1} : Reply(k, t, v)
  BY DEF StackBind
<1>4. \A x \in Fd : Steady(x)
  <2>1. CASE sock' = sock
    BY <2>1, SteadySame
  <2>2. CASE sock' = [sock EXCEPT ![d].bound = TRUE]
    <3>1. /\ sock[d] \in SockRec /\ \A x \in Fd \ {d} : sock'[x] = sock[x]
          /\ sock'[d] = [sock[d] EXCEPT !.bound = TRUE]
      BY <2>2, SockTypes DEF IInv, TypeOK
    <3> QED
      BY <3>1, SteadySame DEF SockRec, Steady
  <2> QED
    BY <1>2, <2>1, <2>2 DEF StackBind
<1>5. v \in Int
  OBVIOUS
<1>6. \A x \in Fd : ~Given(t, x)' /\ \A j \in Stack : Accepting(j, x)' <=> Accepting(j, x)
  BY <1>1, <1>3, <1>5, Replied DEF Answered, Given, Accepting
<1> QED
  BY <1>1, <1>3, <1>4, <1>5, <1>6, CoverAnswer

LEMMA StackConnectCover ==
  ASSUME IInv, IInv', MissInv, MissInv', CoverInv, NEW k \in Stack, NEW t \in App,
         StackConnect(k, t)
  PROVE  CoverInv'
<1>1. /\ rpc_queue[k] # << >> /\ t = Head(rpc_queue[k]) /\ pc[t] = "sent"
      /\ call[t].f = "connect" /\ call[t].op = "connect" /\ UNCHANGED <<cfg, stk, owner, served>>
      /\ Reply(k, t, -1)
  BY RunsFor DEF StackConnect, history
<1>2. PICK d \in Fd : d = call[t].cur /\ d = call[t].fd /\ sock[d].state # "LISTEN"
  BY <1>1 DEF IInv, UseShape, StageShape, MissInv, FoundShape
<1>3. \A x \in Fd : Steady(x)
  <2>1. CASE sock' = sock
    BY <2>1, SteadySame
  <2>2. CASE sock' = [sock EXCEPT ![d].state = "SYN_SENT"]
    <3>1. /\ sock[d] \in SockRec /\ \A x \in Fd \ {d} : sock'[x] = sock[x]
          /\ sock'[d] = [sock[d] EXCEPT !.state = "SYN_SENT"]
      BY <2>2, SockTypes DEF IInv, TypeOK
    <3> QED
      BY <1>2, <3>1, SteadySame DEF SockRec, Steady
  <2> QED
    BY <1>2, <2>1, <2>2 DEF StackConnect
<1>4. -1 \in Int
  OBVIOUS
<1>5. \A x \in Fd : ~Given(t, x)' /\ \A j \in Stack : Accepting(j, x)' <=> Accepting(j, x)
  BY <1>1, <1>4, Replied DEF Answered, Given, Accepting
<1> QED
  BY <1>1, <1>3, <1>4, <1>5, CoverAnswer

LEMMA StackAcceptedCover ==
  ASSUME IInv, IInv', MissInv, MissInv', CoverInv, NEW k \in Stack, NEW t \in App,
         StackAccepted(k, t)
  PROVE  CoverInv'
<1>1. /\ stk[k].pc = "accept" /\ t = Head(rpc_queue[k]) /\ Reply(k, t, stk[k].fd)
      /\ UNCHANGED <<cfg, sock, owner, served>> /\ stk' = [stk EXCEPT ![k] = NoWork]
  BY DEF StackAccepted, history
<1>2. PICK v \in Fd : v = stk[k].fd /\ v \in Int /\ rpc_queue[k] # << >>
  BY <1>1, Consts DEF IInv, WorkShape
<1>3. call[t].op = "accept"
  BY <1>1 DEF IInv, WorkShape
<1>4. \A x \in Fd : Given(t, x)' => x = v
  BY <1>1, <1>2, Replied DEF Answered, Given
<1>5. \A x \in Fd, j \in Stack : Accepting(j, x)' => Accepting(j, x)
  BY <1>1 DEF Accepting, NoWork, IInv, VarShape
<1>6. Accepting(k, v)
  BY <1>1, <1>2 DEF Accepting
<1> QED
  BY <1>1, <1>2, <1>3, <1>4, <1>5, <1>6, SteadySame, CoverAnswer

LEMMA StackQueryCover ==
  ASSUME IInv, IInv', MissInv, MissInv', CoverInv, NEW k \in Stack, NEW t \in App,
         StackQuery(k, t), call[t].op # "listen"
  PROVE  CoverInv'
<1>1. /\ rpc_queue[k] # << >> /\ t = Head(rpc_queue[k]) /\ pc[t] = "sent"
      /\ call[t].op = "query" /\ UNCHANGED <<cfg, sock, stk, owner, served>>
  BY RunsFor DEF StackQuery, history
<1>2. PICK v \in {0, -1} : Reply(k, t, v)
  BY DEF StackQuery
<1>3. v \in Int
  OBVIOUS
<1>4. \A x \in Fd : ~Given(t, x)' /\ \A j \in Stack : Accepting(j, x)' <=> Accepting(j, x)
  BY <1>1, <1>2, <1>3, Replied DEF Answered, Given, Accepting
<1> QED
  BY <1>1, <1>2, <1>3, <1>4, SteadySame, CoverAnswer

LEMMA CloseFnCover ==
  ASSUME IInv, IInv', MissInv, MissInv', CoverInv, NEW k \in Stack, NEW t \in App,
         CloseFn(k, t)
  PROVE  CoverInv'
<1>1. /\ stk[k].pc = "close_fn" /\ t = Head(rpc_queue[k]) /\ Reply(k, t, 0)
      /\ UNCHANGED <<cfg, owner, served>> /\ stk' = [stk EXCEPT ![k] = NoWork]
  BY DEF CloseFn, history
<1>2. PICK d \in Fd : d = stk[k].fd /\ Closing(t, d) /\ rpc_queue[k] # << >>
  BY <1>1, CleansFor
<1>3. /\ \A x \in Fd \ {d} : sock'[x] = sock[x]
  BY <1>2 DEF CloseFn, IInv, TypeOK
<1>4. \A x \in Fd : Steady(x) \/ Out(x)
  BY <1>2, <1>3, SteadySame DEF Out
<1>5. call[t].op \in {"close", "failed"} /\ 0 \in Int
  BY <1>2 DEF Closing, Closes
<1>6. \A x \in Fd : ~Given(t, x)'
  BY <1>1, <1>2, <1>5, Replied DEF Answered, Given
<1>7. \A x \in Fd, j \in Stack : Accepting(j, x)' => Accepting(j, x)
  BY <1>1 DEF Accepting, NoWork, IInv, VarShape
<1> QED
  BY <1>1, <1>2, <1>4, <1>5, <1>6, <1>7, CoverAnswer

(* Steps of a stack, or of the network, that answer nobody. *)
LEMMA CoverSilent ==
  ASSUME IInv, IInv', MissInv, MissInv', CoverInv,
         \A x \in Fd : Steady(x) \/ Out(x), UNCHANGED <<cfg, owner, served, rpc_queue>>,
         \A u \in App : SameCall(u),
         \A d \in Fd : (\E j \in Stack : Accepting(j, d)') =>
           (\E j \in Stack : Accepting(j, d)) \/ ~sock'[d].master
  PROVE  CoverInv'
<1>1. No \notin App /\ No \notin Fd
  BY Consts
<1>2. Elsewhere(No, No)
  BY <1>1 DEF Elsewhere, Moved
<1> QED
  BY <1>1, <1>2, CoverPlain

LEMMA StackCloseCover ==
  ASSUME IInv, IInv', MissInv, MissInv', CoverInv, NEW k \in Stack, NEW t \in App,
         StackClose(k, t)
  PROVE  CoverInv'
<1>1. /\ pc[t] = "sent" /\ Closes(t) /\ UNCHANGED <<cfg, rpc_queue, pc, call, owner, served>>
      /\ stk[k] = NoWork
  BY RunsFor DEF StackClose, history
<1>2. PICK d \in Fd : d = call[t].cur /\ Out(d)
  BY <1>1, SMTT(30) DEF IInv, StageShape, Out, Closing
<1>3. \A x \in Fd \ {d} : sock'[x] = sock[x]
  BY <1>2, Zenon DEF StackClose, IInv, TypeOK
<1>4. stk' = [stk EXCEPT ![k] = [pc |-> "clean", fd |-> d, tmp |-> conn_num[k]]]
  BY <1>2 DEF StackClose
<1>5. \A x \in Fd, j \in Stack : Accepting(j, x)' => Accepting(j, x)
  BY <1>4 DEF Accepting, IInv, VarShape
<1>6. \A u \in App : SameCall(u)
  BY <1>1 DEF SameCall
<1> QED
  BY <1>1, <1>2, <1>3, <1>5, <1>6, SteadySame, CoverSilent

LEMMA CleanSockCover ==
  ASSUME IInv, IInv', MissInv, MissInv', CoverInv, NEW k \in Stack, CleanSock(k)
  PROVE  CoverInv'
<1>1. /\ stk[k].pc = "clean" /\ UNCHANGED <<cfg, rpc_queue, pc, call, owner, served>>
      /\ stk' = [stk EXCEPT ![k].pc = "close_fn", ![k].tmp = 0]
  BY DEF CleanSock, history
<1>2. PICK d \in Fd : d = stk[k].fd /\ Out(d)
  BY <1>1, CleansFor DEF Out
<1>3. \A x \in Fd \ {d} : sock'[x] = sock[x]
  BY <1>2 DEF CleanSock, IInv, TypeOK
<1>4. \A x \in Fd, j \in Stack : Accepting(j, x)' => Accepting(j, x)
  BY <1>1 DEF Accepting, IInv, VarShape
<1>5. \A u \in App : SameCall(u)
  BY <1>1 DEF SameCall
<1> QED
  BY <1>1, <1>2, <1>3, <1>4, <1>5, SteadySame, CoverSilent

LEMMA NetCover ==
  ASSUME IInv, IInv', MissInv, MissInv', CoverInv, NEW d \in Fd,
         Arrives(d) \/ Connected(d) \/ PeerLeaves(d)
  PROVE  CoverInv'
<1>1. UNCHANGED <<cfg, rpc_queue, stk, pc, call, owner, served>>
  BY DEF Arrives, Connected, PeerLeaves, history
<1>2. sock[d] \in SockRec /\ \A x \in Fd \ {d} : sock'[x] = sock[x]
  BY SockTypes DEF Arrives, Connected, PeerLeaves, IInv, TypeOK
<1>3. \/ sock'[d] = [sock[d] EXCEPT !.queue = @ + 1]
      \/ /\ sock[d].state = "SYN_SENT"
         /\ sock'[d] = [sock[d] EXCEPT !.state = "ESTABLISHED", !.type = "LIBOS",
                                       !.kernel = FALSE]
      \/ /\ sock[d].state = "SYN_SENT"
         /\ sock'[d] = [sock[d] EXCEPT !.state = "CLOSED"]
      \/ /\ sock[d].state = "ESTABLISHED"
         /\ sock'[d] = [sock[d] EXCEPT !.state = "CLOSE_WAIT"]
  BY DEF Arrives, Connected, PeerLeaves, IInv, TypeOK
<1>4. Steady(d)
  BY <1>2, <1>3 DEF SockRec, Steady
<1>5. \A u \in App : SameCall(u)
  BY <1>1 DEF SameCall
<1>6. \A x \in Fd, j \in Stack : Accepting(j, x)' => Accepting(j, x)
  BY <1>1 DEF Accepting
<1> QED
  BY <1>1, <1>2, <1>4, <1>5, <1>6, SteadySame, CoverSilent

LEMMA StackAcceptCover ==
  ASSUME IInv, IInv', MissInv, MissInv', CoverInv, NEW k \in Stack, NEW t \in App,
         StackAccept(k, t)
  PROVE  CoverInv'
<1>1. /\ rpc_queue[k] # << >> /\ t = Head(rpc_queue[k]) /\ pc[t] = "sent"
      /\ call[t].f = "accept" /\ call[t].op = "accept" /\ UNCHANGED <<cfg, owner, served>>
      /\ call[t] \in CallRec /\ call \in [App -> CallRec] /\ pc \in [App -> Pcs]
      /\ stk[k] = NoWork
  BY RunsFor DEF StackAccept, history, IInv, VarShape, Pcs
<1>2. PICK d \in Fd : d = call[t].cur /\ sock[d] \in SockRec /\ sock \in [Fd -> SockRec]
  BY <1>1, SockTypes DEF IInv, StageShape, TypeOK, SockRec
<1> DEFINE others == [u \in App |-> IF u # t /\ call[u].fd = call[t].fd
                                    THEN [call[u] EXCEPT !.found = FALSE] ELSE call[u]]
<1>3. call[t].fd # No
  BY <1>1, Consts DEF IInv, StageShape
<1>4. \A u \in App \ {t} :
        \/ others[u] = call[u]
        \/ call[u].fd # No /\ others[u] = [call[u] EXCEPT !.found = FALSE]
  BY <1>3
<1>5. CASE Reply(k, t, -1) /\ UNCHANGED <<sock, stk>>
  <2>1. -1 \in Int /\ -1 \notin Fd
    BY DEF Fd
  <2>2. \A x \in Fd : ~Given(t, x)' /\ \A j \in Stack : Accepting(j, x)' <=> Accepting(j, x)
    BY <1>1, <1>5, <2>1, Replied DEF Answered, Given, Accepting
  <2> QED
    BY <1>1, <1>5, <2>1, <2>2, SteadySame, CoverAnswer
<1>6. CASE /\ FreeFds # {} /\ call' = others /\ UNCHANGED <<pc, rpc_queue>>
           /\ sock' = [sock EXCEPT ![d].queue = @ - 1,
                         ![NewFd] = [NewSock("tcp", k, NewFd) EXCEPT
                                      !.type = "LIBOS", !.state = "ESTABLISHED"]]
           /\ stk' = [stk EXCEPT ![k] = [pc |-> "accept", fd |-> NewFd, tmp |-> conn_num[k]]]
  <2>1. PICK n \in Fd : n = NewFd /\ Out(n)
    BY <1>6, NewFdFree DEF Out
  <2> DEFINE m == NewSock("tcp", k, n)
  <2>2. m \in SockRec /\ ~m.master
    BY NewSockIs
  <2> HIDE DEF m
  <2> DEFINE r == [m EXCEPT !.type = "LIBOS", !.state = "ESTABLISHED"]
             q == [sock[d] EXCEPT !.queue = @ - 1]
  <2>3. ~r.master
    BY <2>2 DEF SockRec
  <2>4. /\ q.stack = sock[d].stack /\ q.master = sock[d].master /\ q.kind = sock[d].kind
        /\ q.listen_next = sock[d].listen_next /\ q.state = sock[d].state
    BY <1>2 DEF SockRec
  <2>5. sock' = [sock EXCEPT ![d] = q, ![n] = r]
    BY <1>2, <1>6, <2>1 DEF m
  <2> HIDE DEF r, q
  <2>6. /\ sock'[n] = r /\ \A x \in Fd \ {n} : x = d \/ sock'[x] = sock[x]
        /\ d # n => sock'[d] = q
    BY <1>2, <2>5
  <2>7. \A x \in Fd \ {n} : Steady(x)
    BY <2>4, <2>6, SteadySame DEF Steady
  <2>8. \A u \in App \ {t} : SameCall(u)
    BY <1>4, <1>6 DEF SameCall
  <2>9. SameCall(t)
    BY <1>6 DEF SameCall
  <2>10. \A x \in Fd, j \in Stack : Accepting(j, x)' => Accepting(j, x) \/ x = n
    BY <1>6, <2>1 DEF Accepting, IInv, VarShape
  <2>11. \A u \in App : SameCall(u)
    BY <2>8, <2>9
  <2>12. \A x \in Fd : (\E j \in Stack : Accepting(j, x)') =>
           (\E j \in Stack : Accepting(j, x)) \/ ~sock'[x].master
    BY <2>3, <2>6, <2>10
  <2> QED
    BY <1>1, <1>6, <2>1, <2>7, <2>11, <2>12, CoverSilent
<1>7. CASE /\ sock' = [sock EXCEPT ![d].queue = @ - 1]
           /\ call' = [others EXCEPT ![t].ret = -1, ![t].found = FALSE]
           /\ pc' = [pc EXCEPT ![t] = "ret"]
           /\ rpc_queue' = [rpc_queue EXCEPT ![k] = Tail(@)]
           /\ UNCHANGED stk
  <2>1. \A u \in App \ {t} : SameCall(u)
    BY <1>1, <1>4, <1>7, ZenonT(30) DEF SameCall
  <2>2. call'[t].op = "accept" /\ call'[t].ret = -1
    BY <1>1, <1>7, Zenon DEF CallRec
  <2>3. /\ \A x \in Fd \ {d} : sock'[x] = sock[x]
        /\ sock'[d] = [sock[d] EXCEPT !.queue = @ - 1]
    BY <1>2, <1>7
  <2>4. \A x \in Fd : Steady(x)
    BY <1>2, <2>3, SteadySame DEF SockRec, Steady
  <2>5. -1 \notin Fd
    BY DEF Fd
  <2>6. \A x \in Fd : ~Given(t, x)' /\ \A j \in Stack : Accepting(j, x)' <=> Accepting(j, x)
    BY <1>7, <2>2, <2>5, SMTT(30) DEF Given, Accepting
  <2>7. Elsewhere(t, No)
    BY <1>1, <1>7, <2>1, <2>4, <2>6, Consts DEF Elsewhere, Moved
  <2> QED
    BY <1>1, <2>2, <2>7, CoverPlain, SMTT(30) DEF Listens, BindShape
<1> QED
  BY <1>2, <1>5, <1>6, <1>7 DEF StackAccept

-----------------------------------------------------------------------------
(* bind over all stacks *)

LEMMA BindSpreads ==
  ASSUME IInv, CoverInv, NEW t \in App, call[t].op = "bind",
         pc[t] = "loop" \/ call[t].f = "shadow"
  PROVE  Spread /\ sock[call[t].fd].kind = "udp" /\ ~Listens(t)
<1>1. Spread
  BY DEF CoverInv, SingleShape
<1> QED
  BY <1>1 DEF CoverInv, BindShape, Listens

LEMMA CoverBinds ==
  ASSUME IInv, IInv', MissInv, MissInv', CoverInv, NEW t \in App, call[t].op = "bind",
         UNCHANGED <<cfg, sock, stk, owner, served>>, Moved(t), \A u \in App \ {t} : SameCall(u),
         Spread, sock[call[t].fd].kind = "udp", call'[t].op = "bind", call'[t].fd = call[t].fd
  PROVE  CoverInv'
<1>1. ~Listens(t) /\ ~Listens(t)' /\ BindShape(t)'
  BY DEF Listens, BindShape, Spread
<1> QED
  BY <1>1, CoverCalls

LEMMA BindReturnsCover ==
  ASSUME IInv, IInv', MissInv, MissInv', CoverInv, NEW t \in App, BindReturns(t)
  PROVE  CoverInv'
<1>1. pc[t] = "ret" /\ call[t].f = "bind" /\ UNCHANGED <<cfg, sock, stk, rpc_queue>>
  BY DEF BindReturns
<1>2. call[t].op = "bind"
  BY <1>1, RetOp
<1>3. CASE Return(t) /\ UNCHANGED history
  BY <1>1, <1>2, <1>3, CoverBack DEF Moved, Listens, history
<1>4. CASE CloseAll(t)
  BY <1>1, <1>2, <1>4, CloseAllCover
<1>5. CASE /\ cfg.listen_shadow /\ sock[call[t].fd].kind = "udp"
           /\ pc' = [pc EXCEPT ![t] = "loop"] /\ UNCHANGED <<call, history>>
  <2>1. \A u \in App \ {t} : SameCall(u)
    BY <1>5 DEF SameCall, IInv, VarShape
  <2> QED
    BY <1>1, <1>2, <1>5, <2>1, CoverBinds DEF Moved, Spread, history
<1> QED
  BY <1>3, <1>4, <1>5 DEF BindReturns

LEMMA BindBroadcastCover ==
  ASSUME IInv, IInv', MissInv, MissInv', CoverInv, NEW t \in App, Broadcast(t),
         call[t].op = "bind"
  PROVE  CoverInv'
<1>1. pc[t] = "loop" /\ call[t].i < StackNum /\ UNCHANGED <<cfg, stk, owner, served>>
  BY DEF Broadcast, history
<1>2. call[t] \in CallRec /\ Spread /\ sock[call[t].fd].kind = "udp"
  BY <1>1, BindSpreads DEF IInv, VarShape
<1>3. call[t].i \in Stack
  BY <1>1, <1>2, SocketsAssumption DEF CallRec, Stack
<1>4. CASE call' = [call EXCEPT ![t].i = @ + 1] /\ UNCHANGED <<pc, rpc_queue, sock>>
  <2>1. /\ call'[t].op = "bind" /\ call'[t].fd = call[t].fd
        /\ \A u \in App \ {t} : SameCall(u)
    BY <1>2, <1>4 DEF IInv, VarShape, CallRec, SameCall
  <2> QED
    BY <1>1, <1>2, <1>4, <2>1, CoverBinds DEF Moved
<1>5. CASE CallStack(t, call[t].i, [call[t] EXCEPT !.f = "shadow", !.cur = call[t].fd])
           /\ UNCHANGED sock
  <2> DEFINE c == [call[t] EXCEPT !.f = "shadow", !.cur = call[t].fd]
  <2>1. c \in CallRec /\ c.op = "bind" /\ c.fd = call[t].fd
    BY <1>2 DEF CallRec
  <2>2. CallStack(t, call[t].i, c)
    BY <1>5
  <2> HIDE DEF c
  <2>3. /\ call'[t].op = "bind" /\ call'[t].fd = call[t].fd
        /\ \A u \in App \ {t} : SameCall(u) /\ Moved(t)
    BY <1>3, <2>1, <2>2, Asked DEF Moved
  <2>4. Moved(t)
    BY <1>3, <2>1, <2>2, Asked DEF Moved
  <2> QED
    BY <1>1, <1>2, <1>5, <2>3, <2>4, CoverBinds
<1> QED
  BY <1>4, <1>5 DEF Broadcast

LEMMA BindShadowReturnsCover ==
  ASSUME IInv, IInv', MissInv, MissInv', CoverInv, NEW t \in App, ShadowReturns(t),
         call[t].op = "bind"
  PROVE  CoverInv'
<1>1. pc[t] = "ret" /\ call[t].f = "shadow" /\ UNCHANGED <<cfg, stk, sock, rpc_queue>>
  BY DEF ShadowReturns
<1>2. call[t] \in CallRec /\ Spread /\ sock[call[t].fd].kind = "udp"
  BY <1>1, BindSpreads DEF IInv, VarShape
<1>3. CASE CloseAll(t)
  BY <1>1, <1>3, CloseAllCover
<1>4. CASE /\ call' = [call EXCEPT ![t].i = @ + 1, ![t].ret = 0]
           /\ pc' = [pc EXCEPT ![t] = "loop"] /\ UNCHANGED history
  <2>1. /\ call'[t].op = "bind" /\ call'[t].fd = call[t].fd
        /\ \A u \in App \ {t} : SameCall(u)
    BY <1>2, <1>4 DEF IInv, VarShape, CallRec, SameCall
  <2> QED
    BY <1>1, <1>2, <1>4, <2>1, CoverBinds DEF Moved, history
<1> QED
  BY <1>3, <1>4 DEF ShadowReturns

LEMMA BindDoneCover ==
  ASSUME IInv, IInv', MissInv, MissInv', CoverInv, NEW t \in App, BroadcastDone(t),
         call[t].op = "bind"
  PROVE  CoverInv'
<1>1. Return(t) /\ UNCHANGED <<cfg, stk, sock, rpc_queue, owner, served>>
  BY DEF BroadcastDone
<1> QED
  BY <1>1, CoverBack DEF Moved, Listens

(* What create_shadow_fd does to the list of d: a clone n behind e, or nothing. *)
Clones(k, t, d, e, n) ==
  /\ \E v \in {-1, n} : Reply(k, t, v)
  /\ n # e /\ n # d /\ ~sock[n].open /\ n \notin Reach(d)
  /\ sock[e].listen_next = No /\ sock[e].head = d
  /\ sock'[n].stack = k /\ sock'[n].state = "CLOSED" /\ ~sock'[n].master
  /\ sock'[n].kind = sock[d].kind /\ sock'[n].head = d
  /\ sock'[e].stack = sock[e].stack /\ sock'[e].master = sock[e].master
  /\ sock'[e].kind = sock[e].kind /\ sock'[e].state = sock[e].state
  /\ \A x \in Fd \ {e, n} : sock'[x] = sock[x]
  /\ Reach(d)' = Reach(d) \cup {n}

LEMMA ShadowMade ==
  ASSUME IInv, NEW k \in Stack, NEW t \in App, CreateShadowFd(k, t)
  PROVE  /\ call[t].op \in {"bind", "listen"} /\ call[t].f = "shadow"
         /\ call[t].fd \in Fd /\ owner[call[t].fd] = t /\ Live(call[t].fd)
         /\ pc[t] = "sent" /\ rpc_queue[k] # << >> /\ t = Head(rpc_queue[k])
         /\ call[t].cur = call[t].fd
         /\ \/ Reply(k, t, -1) /\ UNCHANGED sock
            \/ \E e \in Reach(call[t].fd), n \in Fd : Clones(k, t, call[t].fd, e, n)
<1>1. /\ stk[k] = NoWork /\ rpc_queue[k] # << >> /\ t = Head(rpc_queue[k])
      /\ pc[t] = "sent" /\ call[t].f = "shadow" /\ call[t].op \in {"bind", "listen"}
  BY RunsFor DEF CreateShadowFd
<1>2. PICK d \in Fd : d = call[t].cur /\ d = call[t].fd /\ owner[d] = t /\ Live(d)
  BY <1>1 DEF IInv, UseShape
<1>3. PICK e \in Reach(d) : e = LastOf(d) /\ sock[e].listen_next = No
  BY <1>2, Consts DEF IInv, ListShape, LastOf
<1>4. ASSUME NEW b \in BOOLEAN, NEW v, FreeFds # {}, v = -1 \/ v = NewFd,
             sock' = [sock EXCEPT ![NewFd] = [NewSock(sock[d].kind, k, d) EXCEPT !.bound = b],
                                  ![LastOf(d)].listen_next = NewFd],
             Reply(k, t, v)
      PROVE  \E n \in Fd : Clones(k, t, d, e, n)
  <2>1. PICK n \in Fd : n = NewFd /\ ~sock[n].open
    BY <1>4, NewFdFree
  <2>2. e \in Fd /\ sock[e].open /\ sock[e].head = d /\ \A x \in Reach(d) : sock[x].open
    BY <1>2, <1>3, HeldList, Consts
  <2>3. d \in Reach(d) /\ n \notin Reach(d) /\ n # e /\ n # d
    BY <2>1, <2>2, ReachSelf
  <2> DEFINE m == NewSock(sock[d].kind, k, d)
             r == [m EXCEPT !.bound = b]
             q == [sock[e] EXCEPT !.listen_next = n]
  <2>4. /\ m \in SockRec /\ m.state = "CLOSED" /\ m.stack = k /\ m.listen_next = No
        /\ m.head = d /\ ~m.master /\ m.kind = sock[d].kind
    <3>1. sock[d].kind \in {"tcp", "udp"}
      BY <1>2 DEF IInv, SlotShape, TypeOK
    <3> QED
      BY <3>1, NewSockIs
  <2>5. /\ q.listen_next = n /\ q.kind = sock[e].kind /\ q.state = sock[e].state
        /\ q.stack = sock[e].stack /\ q.master = sock[e].master
    BY <2>2, SockTypes DEF SockRec
  <2>6. sock \in [Fd -> SockRec]
    BY DEF IInv, TypeOK, SockRec
  <2>7. sock' = [sock EXCEPT ![n] = r, ![e] = q]
    <3>1. sock' = [sock EXCEPT ![n] = r, ![e].listen_next = n]
      BY <1>3, <1>4, <2>1
    <3>2. [sock EXCEPT ![n] = r][e] = sock[e]
      BY <2>2, <2>3, <2>6
    <3> HIDE DEF r
    <3> QED
      BY <3>1, <3>2, <2>2, <2>6
  <2> HIDE DEF m
  <2>8. /\ r.state = "CLOSED" /\ r.stack = k /\ r.listen_next = No
        /\ r.head = d /\ ~r.master /\ r.kind = sock[d].kind
    BY <2>4 DEF SockRec
  <2> HIDE DEF r, q
  <2>9. sock'[n] = r /\ sock'[e] = q /\ \A x \in Fd \ {e, n} : sock'[x] = sock[x]
    BY <2>2, <2>3, <2>6, <2>7
  <2>10. Reach(d)' = Reach(d) \cup {n}
    <3>1. sock[n].listen_next = No
      BY <2>1, FreeFd
    <3>2. Reach(d) \subseteq Reach(d)' /\ Reach(d)' \subseteq Reach(d) \cup {n}
          /\ n \in Reach(d)'
      BY <1>3, <2>2, <2>3, <2>5, <2>8, <2>9, <3>1, ReachGrows DEF IInv
    <3> QED
      BY <3>2
  <2>11. \E w \in {-1, n} : Reply(k, t, w)
    BY <1>4, <2>1
  <2>12. /\ sock'[n].stack = k /\ sock'[n].state = "CLOSED" /\ ~sock'[n].master
         /\ sock'[n].kind = sock[d].kind /\ sock'[n].head = d
         /\ sock'[e].stack = sock[e].stack /\ sock'[e].master = sock[e].master
         /\ sock'[e].kind = sock[e].kind /\ sock'[e].state = sock[e].state
    BY <2>5, <2>8, <2>9
  <2>13. Clones(k, t, d, e, n)
    BY <1>3, <2>1, <2>2, <2>3, <2>9, <2>10, <2>11, <2>12, SMTT(30) DEF Clones
  <2> QED
    BY <2>13
<1>5. \/ Reply(k, t, -1) /\ UNCHANGED sock
      \/ \E n \in Fd : Clones(k, t, d, e, n)
  BY <1>2, <1>4, Zenon DEF CreateShadowFd
<1> QED
  BY <1>1, <1>2, <1>5, SMTT(30)

(* Nothing but the list of d is touched. *)
LEMMA ShadowElsewhere ==
  ASSUME IInv, NEW k \in Stack, NEW t \in App, CreateShadowFd(k, t)
  PROVE  Elsewhere(t, call[t].fd)
<1>1. /\ call[t].op \in {"bind", "listen"} /\ pc[t] = "sent" /\ rpc_queue[k] # << >>
      /\ call[t].fd \in Fd /\ owner[call[t].fd] = t
      /\ \/ Reply(k, t, -1) /\ UNCHANGED sock
         \/ \E e \in Reach(call[t].fd), n \in Fd : Clones(k, t, call[t].fd, e, n)
  BY ShadowMade
<1>2. PICK d \in Fd : d = call[t].fd /\ owner[d] = t
  BY <1>1
<1>3. UNCHANGED <<cfg, stk, owner, served>>
  BY DEF CreateShadowFd, history
<1>4. PICK v \in Int : Reply(k, t, v)
  <2>1. -1 \in Int /\ \A n \in Fd : n \in Int
    BY Consts
  <2> QED
    BY <1>1, <2>1 DEF Clones
<1>5. /\ \A u \in App \ {t} : SameCall(u)
      /\ rpc_queue' = [rpc_queue EXCEPT ![k] = Tail(@)] /\ Answered(t, v)
  BY <1>1, <1>4, Replied
<1>6. \A x \in Fd : Steady(x) \/ Out(x) \/ sock[x].head = d
  <2>1. CASE UNCHANGED sock
    BY <2>1, SteadySame
  <2>2. CASE \E e \in Reach(d), n \in Fd : Clones(k, t, d, e, n)
    <3>1. PICK e \in Reach(d), n \in Fd : Clones(k, t, d, e, n)
      BY <2>2
    <3>2. Out(n) /\ sock[e].head = d /\ \A x \in Fd \ {e, n} : Steady(x)
      BY <3>1, SteadySame DEF Clones, Out
    <3> QED
      BY <3>2
  <2> QED
    BY <1>1, <1>2, <2>1, <2>2
<1>7. \A x \in Fd : ~Given(t, x)' /\ \A j \in Stack : Accepting(j, x)' <=> Accepting(j, x)
  BY <1>1, <1>3, <1>5 DEF Answered, Given, Accepting
<1> QED
  BY <1>1, <1>2, <1>3, <1>5, <1>6, <1>7 DEF Elsewhere, Moved

LEMMA BindShadowCover ==
  ASSUME IInv, IInv', MissInv, MissInv', CoverInv, NEW k \in Stack, NEW t \in App,
         CreateShadowFd(k, t), call[t].op = "bind"
  PROVE  CoverInv'
<1>1. /\ pc[t] = "sent" /\ rpc_queue[k] # << >> /\ call[t].f = "shadow"
      /\ call[t].fd \in Fd /\ owner[call[t].fd] = t
      /\ \/ Reply(k, t, -1) /\ UNCHANGED sock
         \/ \E e \in Reach(call[t].fd), n \in Fd : Clones(k, t, call[t].fd, e, n)
  BY ShadowMade
<1>2. PICK d \in Fd : d = call[t].fd
  BY <1>1
<1>3. Spread /\ sock[d].kind = "udp" /\ ~Listens(t)
  BY <1>1, <1>2, BindSpreads
<1>4. sock'[d].kind = "udp"
  <2>1. CASE \E e \in Reach(d), n \in Fd : Clones(k, t, d, e, n)
    <3>1. PICK e \in Reach(d), n \in Fd : Clones(k, t, d, e, n)
      BY <2>1
    <3> QED
      BY <1>3, <3>1 DEF Clones
  <2> QED
    BY <1>1, <1>2, <1>3, <2>1
<1>5. PICK v \in Int : Reply(k, t, v)
  <2>1. -1 \in Int /\ \A n \in Fd : n \in Int
    BY Consts
  <2> QED
    BY <1>1, <2>1 DEF Clones
<1>6. call'[t].op = "bind" /\ call'[t].fd = d
  BY <1>1, <1>2, <1>5, Replied, SMTT(30) DEF Answered
<1>7. d \notin served' /\ Spread'
  BY <1>3 DEF CoverInv, CoverShape, CreateShadowFd, history, Spread
<1>8. ~Listens(t)' /\ BindShape(t)'
  BY <1>4, <1>6, <1>7 DEF Listens, BindShape
<1>9. Elsewhere(t, d)
  BY <1>2, ShadowElsewhere
<1> QED
  BY <1>3, <1>4, <1>7, <1>8, <1>9, CoverQuiet

-----------------------------------------------------------------------------
(* listen over all stacks *)

LEMMA WaitsSentNext ==
  ASSUME IInv', NEW t \in App, NEW k \in Stack, Waits(t, k)'
  PROVE  pc'[t] = "sent"
  BY DEF IInv, QueueShape, Waits

LEMMA Receives ==
  /\ 0 \in RecvStack /\ RecvStack \subseteq Stack
  /\ \A k \in RecvStack : k \in Nat /\ k < StackNum
  BY Consts, SocketsAssumption DEF RecvStack, IsSendThread, Stack

LEMMA MinReceives ==
  MinConnStack \in RecvStack
  BY Receives DEF MinConnStack, Least

(* The thread, the socket, and its call. *)
LEMMA ListenFacts ==
  ASSUME IInv, MissInv, CoverInv, NEW t \in App, Listens(t)
  PROVE  /\ call[t] \in CallRec /\ call[t].fd \in Fd /\ owner[call[t].fd] = t
         /\ Live(call[t].fd) /\ sock[call[t].fd].kind = "tcp"
         /\ pc[t] \in {"loop", "sent", "ret"}
         /\ Spread => /\ ListenShape(t) /\ TurnShape(t) /\ PastShape(t) /\ AgainShape(t)
                      /\ CoverShape(call[t].fd)
                      /\ call[t].k = sock[call[t].fd].stack /\ call[t].tmp \in RecvStack
         /\ ~Spread => SingleShape(t)
<1>1. /\ call[t] \in CallRec /\ call[t].fd \in Fd /\ owner[call[t].fd] = t
      /\ Live(call[t].fd) /\ sock[call[t].fd].kind = "tcp"
      /\ pc[t] \in {"loop", "sent", "ret"}
  BY DEF IInv, VarShape, StageShape, UseShape, MissInv, FoundShape, Listens
<1> QED
  BY <1>1 DEF CoverInv, ListenShape

LEMMA ListenElsewhere ==
  ASSUME IInv, NEW t \in App, NEW d \in Fd, owner[d] = t, UNCHANGED <<cfg, stk, owner, served>>,
         \A x \in Fd : Steady(x) \/ sock[x].head = d, \A u \in App \ {t} : SameCall(u),
         Moved(t), call'[t].op \notin {"socket", "accept"}
  PROVE  Elsewhere(t, d)
<1>1. \A x \in Fd : ~Given(t, x)' /\ \A k \in Stack : Accepting(k, x)' <=> Accepting(k, x)
  BY DEF Given, Accepting
<1> QED
  BY <1>1 DEF Elsewhere

LEMMA CoverListens ==
  ASSUME IInv, IInv', MissInv, MissInv', CoverInv, NEW t \in App, NEW d \in Fd, owner[d] = t,
         Elsewhere(t, d), UNCHANGED <<owner, served>>,
         Listens(t) => call[t].fd = d, Listens(t)', call'[t].fd = d,
         sock[d].kind = "tcp", sock'[d].kind = "tcp", sock'[d].stack = sock[d].stack,
         Spread => /\ RecvStack = {sock[d].stack} => sock'[d].listen_next = No
                   /\ d \in served => \A k \in RecvStack : Covered(d, k)'
                   /\ ListenShape(t)' /\ \A k \in Stack : PlaceShape(t, k)',
         ~Spread => SingleShape(t)' /\ (d \in served => sock'[d].state = "LISTEN")
  PROVE  CoverInv'
<1>1. RecvStack' = RecvStack
  BY DEF Elsewhere, RecvStack
<1>2. Spread => CoverShape(d)'
  BY <1>1 DEF CoverShape
<1>3. BindShape(t)'
  BY DEF BindShape, Listens
<1> QED
  BY <1>2, <1>3, CoverStep

LEMMA SameLists ==
  ASSUME UNCHANGED <<cfg, sock>>
  PROVE  /\ RecvStack' = RecvStack /\ (Spread' <=> Spread)
         /\ \A d \in Fd : /\ Reach(d)' = Reach(d) /\ Masters(d)' = Masters(d)
                          /\ OneMaster(d)' <=> OneMaster(d)
                          /\ \A k : Covered(d, k)' <=> Covered(d, k)
<1>1. RecvStack' = RecvStack /\ (Spread' <=> Spread)
  BY DEF RecvStack, Spread
<1>2. \A d \in Fd : Reach(d)' = Reach(d)
  BY DEF Reach, Closed
<1>3. \A d \in Fd : Masters(d)' = Masters(d) /\ \A k : On(d, k)' = On(d, k)
  BY <1>2 DEF Masters, On
<1> QED
  BY <1>1, <1>2, <1>3 DEF OneMaster, Covered

(* No socket changes. *)
LEMMA CoverAsksOn ==
  ASSUME IInv, IInv', MissInv, MissInv', CoverInv, NEW t \in App, NEW d \in Fd, owner[d] = t,
         UNCHANGED <<cfg, sock, stk, owner, served>>, Moved(t), \A u \in App \ {t} : SameCall(u),
         Listens(t) => call[t].fd = d, Listens(t)', call'[t].fd = d, sock[d].kind = "tcp",
         Spread => ListenShape(t)' /\ \A k \in Stack : PlaceShape(t, k)',
         ~Spread => SingleShape(t)'
  PROVE  CoverInv'
<1>1. \A k : Covered(d, k)' <=> Covered(d, k)
  BY SameLists
<1>2. Spread => CoverShape(d)
  BY DEF CoverInv
<1>3. ~Spread => (d \in served => sock[d].state = "LISTEN")
  BY DEF CoverInv
<1>4. Elsewhere(t, d)
  BY SteadySame, ListenElsewhere DEF Listens
<1>5. Spread => /\ RecvStack = {sock[d].stack} => sock'[d].listen_next = No
                /\ d \in served => \A k \in RecvStack : Covered(d, k)'
  BY <1>1, <1>2, Consts DEF CoverShape
<1> QED
  BY <1>3, <1>4, <1>5, CoverListens

(* The call of a socket is over. *)
LEMMA CoverEnds ==
  ASSUME IInv, IInv', MissInv, MissInv', CoverInv, NEW t \in App, Listens(t), Return(t),
         UNCHANGED <<cfg, sock, stk, owner, rpc_queue>>, NEW d \in Fd, d = call[t].fd,
         served' \in {served, served \cup {d}},
         Spread /\ d \in served' => OneMaster(d) /\ \A k \in RecvStack : Covered(d, k),
         Spread /\ d \notin served' => Masters(d) = {},
         ~Spread /\ d \in served' => sock[d].state = "LISTEN"
  PROVE  CoverInv'
<1>1. owner[d] = t /\ sock[d].kind = "tcp" /\ (Spread => CoverShape(d))
  BY ListenFacts
<1>2. /\ ~Listens(t)' /\ BindShape(t)' /\ call'[t].op = "none"
      /\ \A u \in App \ {t} : SameCall(u)
  BY Back
<1>3. /\ RecvStack' = RecvStack /\ (Spread' <=> Spread) /\ Masters(d)' = Masters(d)
      /\ OneMaster(d)' <=> OneMaster(d)
      /\ \A k : Covered(d, k)' <=> Covered(d, k)
  BY SameLists
<1>4. Elsewhere(t, d)
  <2>1. \A x \in Fd : ~Given(t, x)' /\ \A k \in Stack : Accepting(k, x)' <=> Accepting(k, x)
    BY <1>2 DEF Given, Accepting
  <2>2. \A x \in Fd \ {d} : x \in served' <=> x \in served
    OBVIOUS
  <2> QED
    BY <1>1, <1>2, <2>1, <2>2, SteadySame DEF Elsewhere, Moved
<1>5. Spread => CoverShape(d)'
  BY <1>1, <1>3, Consts DEF CoverShape
<1>6. ListenShape(t)' /\ (\A k \in Stack : PlaceShape(t, k)') /\ (~Spread => SingleShape(t)')
  BY <1>2 DEF ListenShape, PlaceShape, SingleShape, Listens
<1> QED
  BY <1>2, <1>4, <1>5, <1>6, CoverStep

LEMMA ListenCover ==
  ASSUME IInv, IInv', MissInv, MissInv', CoverInv, NEW t \in App, NEW d \in Fd, Listen(t, d)
  PROVE  CoverInv'
<1>1. /\ pc[t] = "idle" /\ UNCHANGED <<cfg, sock, stk, owner, served>> /\ owner[d] = t
      /\ sock[d].kind = "tcp" /\ ~Listens(t)
  BY Idle DEF Listen, Begins, history, Listens
<1>2. PICK k \in Stack : k = get_protocol_stack_by_fd(d) /\ k = sock[d].stack /\ k # No
  BY NotKernel, StackOf, Consts DEF Listen
<1> DEFINE c == [NoCall EXCEPT !.op = "listen", !.fd = d, !.cur = d,
                               !.f = IF Spread THEN "getsockname" ELSE "listen",
                               !.k = get_protocol_stack_by_fd(d)]
<1>3. /\ c \in CallRec /\ c.op = "listen" /\ c.fd = d /\ c.k = k /\ c.i = 0 /\ c.tmp = 0
      /\ c.cur = d /\ c.f = IF Spread THEN "getsockname" ELSE "listen"
  BY <1>2, NoCallType, FdStack, ZenonT(30) DEF CallRec, NoCall
<1>4. CallStack(t, k, c)
  BY <1>2 DEF Listen
<1> HIDE DEF c
<1>5. /\ call'[t] = c /\ pc'[t] = "sent" /\ \A u \in App \ {t} : SameCall(u)
      /\ Moved(t)
  BY <1>2, <1>3, <1>4, Asked DEF Moved
<1>6. Listens(t)' /\ call'[t].fd = d
  BY <1>3, <1>5 DEF Listens
<1>7. ASSUME Spread PROVE ListenShape(t)' /\ \A j \in Stack : PlaceShape(t, j)'
  <2>1. \A u \in App : Listens(u) => call[u].fd # d
    BY <1>1, <1>7, ListenFacts
  <2>2. /\ d \in served => OneMaster(d)
        /\ d \notin served => Masters(d) = {}
    BY <1>1, <1>7, <2>1, Consts DEF CoverInv, CoverShape
  <2>3. RecvStack' = RecvStack /\ Masters(d)' = Masters(d) /\ (OneMaster(d)' <=> OneMaster(d))
    BY <1>1, SameLists
  <2>4. call'[t].f = "getsockname"
    BY <1>3, <1>5, <1>7
  <2>5. TurnShape(t)'
    BY <2>4 DEF TurnShape
  <2>6. PastShape(t)'
    <3>1. \A j \in RecvStack : ~Listening(t, j)'
      BY <1>3, <1>5, <2>4, Receives DEF Listening
    <3>2. ~MasterSet(t)'
      BY <1>3, <1>5, <2>4 DEF MasterSet
    <3> QED
      BY <1>1, <1>6, <2>2, <2>3, <3>1, <3>2 DEF PastShape
  <2>7. AgainShape(t)'
    BY <1>1, <1>3, <1>5, <2>2, <2>3, <2>4, Receives DEF AgainShape
  <2>8. ListenShape(t)'
    BY <1>1, <1>2, <1>3, <1>5, <2>3, <2>5, <2>6, <2>7, Receives DEF ListenShape
  <2> QED
    BY <2>4, <2>8 DEF PlaceShape
<1>8. ~Spread => SingleShape(t)'
  BY <1>3, <1>5 DEF SingleShape, Asks
<1> QED
  BY <1>1, <1>5, <1>6, <1>7, <1>8, CoverAsksOn

LEMMA NameReturnsCover ==
  ASSUME IInv, IInv', MissInv, MissInv', CoverInv, NEW t \in App, NameReturns(t)
  PROVE  CoverInv'
<1>1. /\ pc[t] = "ret" /\ call[t].f = "getsockname"
      /\ UNCHANGED <<cfg, sock, stk, rpc_queue, owner, served>>
  BY DEF NameReturns, history
<1>2. Listens(t)
  BY <1>1, RetOp DEF Listens
<1>3. PICK d \in Fd : d = call[t].fd
  BY <1>2, ListenFacts
<1>4. /\ call[t] \in CallRec /\ owner[d] = t /\ sock[d].kind = "tcp" /\ Spread
      /\ ListenShape(t) /\ TurnShape(t) /\ PastShape(t) /\ AgainShape(t) /\ CoverShape(d)
      /\ call[t].k = sock[d].stack /\ call[t].tmp \in RecvStack
  BY <1>1, <1>2, <1>3, ListenFacts DEF SingleShape
<1>5. call[t].i = 0 /\ Asks(t)
  BY <1>1, <1>2, <1>4 DEF ListenShape, Asks
<1>6. /\ d \in served => OneMaster(d)
      /\ d \notin served => Masters(d) = {}
  <2>1. ~MasterSet(t)
    BY <1>1, <1>4, <1>5, Receives DEF MasterSet
  <2> QED
    BY <1>1, <1>3, <1>4, <1>5, <2>1 DEF PastShape, AgainShape
<1>7. d \in served => \A k \in RecvStack : Covered(d, k)
  BY <1>4, Consts DEF CoverShape
<1>8. CASE Return(t)
  BY <1>1, <1>2, <1>3, <1>4, <1>6, <1>7, <1>8, CoverEnds
<1>9. CASE call' = [call EXCEPT ![t].tmp = MinConnStack] /\ pc' = [pc EXCEPT ![t] = "loop"]
  <2>1. /\ call'[t].op = "listen" /\ call'[t].fd = d /\ call'[t].i = 0
        /\ call'[t].tmp = MinConnStack /\ call'[t].k = call[t].k
        /\ call'[t].f = "getsockname" /\ pc'[t] = "loop"
        /\ \A u \in App \ {t} : SameCall(u)
    BY <1>1, <1>2, <1>3, <1>4, <1>5, <1>9 DEF IInv, VarShape, CallRec, SameCall, Listens
  <2>2. /\ RecvStack' = RecvStack /\ Masters(d)' = Masters(d) /\ (OneMaster(d)' <=> OneMaster(d))
    BY <1>1, SameLists
  <2>3. TurnShape(t)' /\ ~Asks(t)'
    BY <2>1 DEF TurnShape, Asks
  <2>4. PastShape(t)'
    <3>1. \A j \in RecvStack : ~Listening(t, j)'
      BY <2>1, Receives DEF Listening
    <3>2. ~MasterSet(t)'
      BY <2>1, MinReceives, Receives DEF MasterSet
    <3> QED
      BY <1>1, <1>6, <2>1, <2>2, <3>1, <3>2 DEF PastShape
  <2>5. AgainShape(t)'
    BY <1>1, <1>6, <2>1, <2>2, Receives DEF AgainShape
  <2>6. ListenShape(t)'
    BY <1>1, <1>4, <2>1, <2>2, <2>3, <2>4, <2>5, MinReceives DEF ListenShape
  <2>7. \A j \in Stack : PlaceShape(t, j)'
    BY <2>1, WaitsSentNext DEF PlaceShape
  <2> QED
    BY <1>1, <1>3, <1>4, <2>1, <2>6, <2>7, CoverAsksOn DEF Listens, Moved
<1> QED
  BY <1>8, <1>9 DEF NameReturns

(* The socket on the stack c.i is told whether it is the master. *)
Chosen(t, x, b) ==
  /\ b \in BOOLEAN /\ (b = TRUE <=> call[t].tmp = call[t].i)
  /\ sock' = [sock EXCEPT ![x].master = b]
MasterDone(t, d, x, b) ==
  /\ x \in Fd /\ \A y \in Fd \ {x} : sock'[y] = sock[y]
  /\ sock'[x].stack = sock[x].stack /\ sock'[x].kind = sock[x].kind
  /\ sock'[x].state = sock[x].state /\ sock'[x].listen_next = sock[x].listen_next
  /\ sock'[x].master = b
  /\ Reach(d)' = Reach(d) /\ \A k : Covered(d, k)' <=> Covered(d, k)
  /\ d \notin served =>
       IF call[t].tmp <= call[t].i
       THEN \E y \in Fd : Masters(d)' = {y} /\ sock'[y].stack = call[t].tmp
       ELSE Masters(d)' = {}

LEMMA MasterGiven ==
  ASSUME IInv, NEW t \in App, NEW d \in Fd, d = call[t].fd, owner[d] = t,
         NEW x \in Reach(d), sock[x].stack = call[t].i, call[t].i \in Stack,
         call[t].tmp \in Stack, PastShape(t), MasterSet(t) <=> call[t].tmp < call[t].i,
         NEW b, Chosen(t, x, b)
  PROVE  MasterDone(t, d, x, b)
<1>1. /\ b \in BOOLEAN /\ (b = TRUE <=> call[t].tmp = call[t].i)
      /\ sock' = [sock EXCEPT ![x].master = b]
  BY DEF Chosen
<1>2. x \in Fd /\ sock[x] \in SockRec
  BY ReachSelf, SockTypes
<1>3. /\ \A y \in Fd \ {x} : sock'[y] = sock[y]
      /\ sock'[x] = [sock[x] EXCEPT !.master = b]
  BY <1>1, <1>2 DEF IInv, TypeOK
<1>4. /\ sock'[x].stack = sock[x].stack /\ sock'[x].kind = sock[x].kind
      /\ sock'[x].state = sock[x].state /\ sock'[x].listen_next = sock[x].listen_next
      /\ sock'[x].master = b
  BY <1>1, <1>2, <1>3 DEF SockRec
<1>5. Reach(d) \subseteq Fd /\ Reach(d)' = Reach(d)
  <2>1. \A y \in Reach(d) : sock'[y].listen_next = sock[y].listen_next
    BY <1>3, <1>4, ReachSelf
  <2> QED
    BY <2>1, ReachSelf, ReachSame DEF IInv
<1>6. \A k : On(d, k)' = On(d, k)
  BY <1>3, <1>4, <1>5 DEF On
<1>7. \A k : Covered(d, k)' <=> Covered(d, k)
  BY <1>6 DEF Covered
<1>8. ASSUME d \notin served
      PROVE  IF call[t].tmp <= call[t].i
             THEN \E y \in Fd : Masters(d)' = {y} /\ sock'[y].stack = call[t].tmp
             ELSE Masters(d)' = {}
  <2>1. call[t].tmp \in Int /\ call[t].i \in Int
    BY Consts
  <2>2. CASE call[t].tmp < call[t].i
    <3>1. PICK y \in Fd : Masters(d) = {y} /\ sock[y].stack = call[t].tmp
      BY <1>8, <2>2 DEF PastShape
    <3>2. y # x
      BY <2>1, <2>2, <3>1
    <3>3. ~sock'[x].master
      <4>1. b = FALSE
        BY <1>1, <2>1, <2>2
      <4> QED
        BY <1>4, <4>1
    <3>4. Masters(d)' = {y}
      BY <1>3, <1>5, <3>1, <3>2, <3>3 DEF Masters
    <3> QED
      BY <1>3, <2>1, <2>2, <3>1, <3>2, <3>4
  <2>3. CASE call[t].tmp = call[t].i
    <3>1. Masters(d) = {}
      BY <1>8, <2>1, <2>3 DEF PastShape
    <3>2. Masters(d)' = {x}
      <4>1. sock'[x].master
        BY <1>1, <1>4, <2>3
      <4>2. \A y \in Reach(d) : sock'[y].master => y = x
        BY <1>3, <1>5, <3>1 DEF Masters
      <4> QED
        BY <1>5, <4>1, <4>2 DEF Masters
    <3> QED
      BY <1>2, <1>4, <2>1, <2>3, <3>2
  <2>4. CASE call[t].tmp > call[t].i
    <3>1. Masters(d) = {}
      BY <1>8, <2>1, <2>4 DEF PastShape
    <3>2. ~sock'[x].master
      <4>1. b = FALSE
        BY <1>1, <2>1, <2>4
      <4> QED
        BY <1>4, <4>1
    <3>3. Masters(d)' = {}
      BY <1>3, <1>5, <3>1, <3>2 DEF Masters
    <3> QED
      BY <2>1, <2>4, <3>3
  <2> QED
    BY <2>1, <2>2, <2>3, <2>4
<1> QED
  BY <1>2, <1>3, <1>4, <1>5, <1>7, <1>8 DEF MasterDone

(* ... and then to listen. *)
LEMMA CoverTurn ==
  ASSUME IInv, IInv', MissInv, MissInv', CoverInv, NEW t \in App, Listens(t), Spread,
         pc[t] = "loop" \/ (pc[t] = "ret" /\ call[t].f = "shadow"),
         NEW d \in Fd, d = call[t].fd, NEW x \in Reach(d), sock[x].stack = call[t].i,
         call[t].i \in RecvStack, x = d <=> call[t].i = call[t].k,
         x # d => sock[x].state # "LISTEN",
         NEW b, Chosen(t, x, b),
         NEW c \in CallRec, c.op = "listen", c.f = "listen", c.fd = d, c.cur = x,
         c.i = call[t].i, c.k = call[t].k, c.tmp = call[t].tmp,
         CallStack(t, get_protocol_stack_by_fd(x), c), UNCHANGED <<cfg, stk, owner, served>>
  PROVE  CoverInv'
<1>1. /\ owner[d] = t /\ Live(d) /\ sock[d].kind = "tcp" /\ ListenShape(t) /\ PastShape(t)
      /\ AgainShape(t) /\ CoverShape(d)
      /\ call[t].k = sock[d].stack /\ call[t].tmp \in RecvStack
  BY ListenFacts
<1>2. call[t].i \in Stack /\ call[t].i \in Int /\ call[t].tmp \in Stack /\ call[t].tmp \in Int
  BY <1>1, Receives, Consts
<1>3. MasterSet(t) <=> call[t].tmp < call[t].i
  BY <1>2 DEF MasterSet, Asks
<1>4. MasterDone(t, d, x, b)
  BY <1>1, <1>2, <1>3, MasterGiven
<1>5. /\ x \in Fd /\ \A y \in Fd \ {x} : sock'[y] = sock[y]
      /\ sock'[x].stack = sock[x].stack /\ sock'[x].kind = sock[x].kind
      /\ sock'[x].state = sock[x].state /\ sock'[x].listen_next = sock[x].listen_next
  BY <1>4 DEF MasterDone
<1>6. sock'[x].master = b /\ Reach(d)' = Reach(d)
  BY <1>4 DEF MasterDone
<1>7. \A k : Covered(d, k)' <=> Covered(d, k)
  BY <1>4, Zenon DEF MasterDone
<1>8. d \notin served =>
         IF call[t].tmp <= call[t].i
         THEN \E y \in Fd : Masters(d)' = {y} /\ sock'[y].stack = call[t].tmp
         ELSE Masters(d)' = {}
  BY <1>4, Zenon DEF MasterDone
<1>9. sock[x].head = d /\ Live(x)
  BY <1>1, Consts, HeldList
<1>10. PICK k \in Stack : k = get_protocol_stack_by_fd(x) /\ k = sock[x].stack /\ k # No
  BY <1>5, <1>6, <1>7, <1>8, <1>9, StackOf, Consts
<1>11. /\ call'[t] = c /\ pc'[t] = "sent" /\ \A u \in App \ {t} : SameCall(u)
       /\ rpc_queue' = [rpc_queue EXCEPT ![k] = Append(@, t)]
  BY <1>10, Asked
<1>12. RecvStack' = RecvStack
  BY DEF RecvStack
<1>13. sock'[d].stack = sock[d].stack /\ sock'[d].kind = "tcp"
      /\ sock'[d].listen_next = sock[d].listen_next
  BY <1>1, <1>5, <1>6, <1>7, <1>8
<1>14. TurnShape(t)'
  BY <1>5, <1>6, <1>7, <1>8, <1>11, <1>12 DEF TurnShape
<1>15. PastShape(t)'
  <2>1. \A j : Listening(t, j)' => Listening(t, j)
    BY <1>11 DEF Listening
  <2>2. MasterSet(t)' <=> call[t].tmp <= call[t].i
    BY <1>2, <1>11 DEF MasterSet, Asks
  <2> QED
    BY <1>1, <1>5, <1>6, <1>7, <1>8, <1>11, <1>12, <2>1, <2>2 DEF PastShape
<1>16. AgainShape(t)'
  <2>1. ASSUME d \in served, RecvStack = {call[t].k} PROVE OneMaster(d)'
    <3>1. call[t].i = call[t].k /\ call[t].tmp = call[t].k /\ x = d
      BY <1>1, <2>1
    <3>2. sock[d].listen_next = No
      BY <1>1, <2>1, Consts DEF CoverShape
    <3>3. Closed({d})
      BY <3>2 DEF Closed
    <3>4. Reach(d) = {d}
      BY <3>3, ReachSelf, ReachLeast
    <3>5. sock'[d].master
      BY <1>5, <1>6, <1>7, <1>8, <3>1 DEF Chosen
    <3>6. Masters(d)' = {d}
      BY <1>5, <1>6, <1>7, <1>8, <3>4, <3>5 DEF Masters
    <3> QED
      BY <3>6 DEF OneMaster
  <2> QED
    BY <1>1, <1>11, <1>12, <2>1 DEF AgainShape
<1>17. ListenShape(t)'
  BY <1>1, <1>11, <1>12, <1>13, <1>14, <1>15, <1>16 DEF ListenShape
<1>18. \A j \in Stack : PlaceShape(t, j)'
  <2> SUFFICES ASSUME NEW j \in Stack, Waits(t, j)' PROVE sock'[x].stack = j
    BY <1>11 DEF PlaceShape
  <2>1. pc[t] # "sent"
    OBVIOUS
  <2> QED
    BY <1>5, <1>6, <1>7, <1>8, <1>10, <1>11, <2>1, WaitsOwn
<1>19. Elsewhere(t, d)
  <2>1. \A y \in Fd : Steady(y) \/ sock[y].head = d
    BY <1>5, <1>6, <1>7, <1>8, <1>9, SteadySame
  <2> QED
    BY <1>1, <1>11, <2>1, ListenElsewhere DEF Moved
<1>20. /\ RecvStack = {sock[d].stack} => sock'[d].listen_next = No
       /\ d \in served => \A j \in RecvStack : Covered(d, j)'
  BY <1>1, <1>5, <1>6, <1>7, <1>8, <1>13, Consts DEF CoverShape
<1> QED
  BY <1>1, <1>11, <1>13, <1>17, <1>18, <1>19, <1>20, CoverListens DEF Listens

(* A step of a listen call that changes nothing else. *)
LEMMA CoverMoves ==
  ASSUME IInv, IInv', MissInv, MissInv', CoverInv, NEW t \in App, Listens(t), Spread,
         UNCHANGED <<cfg, sock, stk, owner, served>>, \A u \in App \ {t} : SameCall(u), Moved(t),
         Listens(t)', call'[t].fd = call[t].fd, call'[t].k = call[t].k,
         call'[t].tmp = call[t].tmp, ~(call'[t].f = "getsockname" /\ Asks(t)') \/
           (call[t].f = "getsockname" /\ Asks(t) /\ call'[t].i = call[t].i),
         TurnShape(t)', \A j \in RecvStack : Listening(t, j)' => Listening(t, j),
         MasterSet(t)' <=> MasterSet(t),
         \A j \in RecvStack : j < call'[t].i => j < call[t].i \/ (call[t].fd \in served => j = call[t].k),
         call'[t].f = "listen" /\ pc'[t] = "ret" /\ call'[t].cur # call[t].fd => call'[t].ret # 0,
         \A j \in Stack : PlaceShape(t, j)'
  PROVE  CoverInv'
<1>1. PICK d \in Fd : d = call[t].fd /\ owner[d] = t
  BY ListenFacts
<1>2. /\ sock[d].kind = "tcp" /\ ListenShape(t) /\ PastShape(t) /\ AgainShape(t)
      /\ call[t].k = sock[d].stack /\ call[t].tmp \in RecvStack
  BY <1>1, ListenFacts
<1>3. /\ RecvStack' = RecvStack /\ Masters(d)' = Masters(d) /\ (OneMaster(d)' <=> OneMaster(d))
      /\ \A k : Covered(d, k)' <=> Covered(d, k)
  BY SameLists
<1>4. PastShape(t)'
  BY <1>1, <1>2, <1>3 DEF PastShape
<1>5. AgainShape(t)'
  BY <1>1, <1>2, <1>3 DEF AgainShape
<1>6. ListenShape(t)'
  BY <1>1, <1>2, <1>3, <1>4, <1>5 DEF ListenShape
<1> QED
  BY <1>1, <1>2, <1>6, CoverAsksOn

LEMMA Choice ==
  ASSUME NEW t, NEW x, sock' = [sock EXCEPT ![x].master = (call[t].tmp = call[t].i)]
  PROVE  \E b : Chosen(t, x, b)
<1>1. CASE call[t].tmp = call[t].i
  <2>1. Chosen(t, x, TRUE)
    BY <1>1 DEF Chosen
  <2> QED
    BY <2>1
<1>2. CASE call[t].tmp # call[t].i
  <2>1. Chosen(t, x, FALSE)
    BY <1>2 DEF Chosen
  <2> QED
    BY <2>1
<1> QED
  BY <1>1, <1>2

(* The next stack: it is skipped, gets a clone, or is that of the socket. *)
LEMMA ListenBroadcastCover ==
  ASSUME IInv, IInv', MissInv, MissInv', CoverInv, NEW t \in App, Broadcast(t), Listens(t)
  PROVE  CoverInv'
<1>1. /\ pc[t] = "loop" /\ call[t].i < StackNum /\ call[t].op = "listen"
      /\ UNCHANGED <<cfg, stk, owner, served>>
  BY DEF Broadcast, history, Listens
<1>2. Spread /\ ~Asks(t)
  BY <1>1, ListenFacts DEF SingleShape, Asks
<1>3. PICK d \in Fd : d = call[t].fd
  BY ListenFacts
<1>4. /\ call[t] \in CallRec /\ owner[d] = t /\ Live(d) /\ call[t].k = sock[d].stack
      /\ call[t].tmp \in RecvStack /\ d \in Reach(d)
  BY <1>2, <1>3, ListenFacts, ReachSelf
<1>5. /\ call[t].i \in Stack /\ call[t].i \in Int /\ call[t].i # No /\ call[t].tmp \in Int
      /\ \A j \in RecvStack : j \in Int
  BY <1>1, <1>4, Receives, Consts DEF CallRec, Stack
<1>6. RecvStack' = RecvStack
  BY <1>1 DEF RecvStack
<1>7. CASE /\ call[t].i \notin RecvStack /\ call' = [call EXCEPT ![t].i = @ + 1]
           /\ UNCHANGED <<pc, rpc_queue, sock>>
  <2>1. /\ call'[t].op = "listen" /\ call'[t].fd = d /\ call'[t].k = call[t].k
        /\ call'[t].tmp = call[t].tmp /\ call'[t].i = call[t].i + 1 /\ pc'[t] = "loop"
        /\ \A u \in App \ {t} : SameCall(u)
    BY <1>1, <1>3, <1>4, <1>7 DEF IInv, VarShape, CallRec, SameCall
  <2>2. TurnShape(t)' /\ ~Asks(t)'
    BY <2>1 DEF TurnShape, Asks
  <2>3. \A j \in RecvStack : j < call'[t].i => j < call[t].i
    BY <1>5, <1>7, <2>1
  <2>4. \A j \in RecvStack : Listening(t, j)' => Listening(t, j)
    BY <2>1, <2>3 DEF Listening
  <2>5. MasterSet(t)' <=> MasterSet(t)
    BY <1>2, <1>4, <1>5, <1>7, <2>1, <2>2 DEF MasterSet
  <2>6. \A j \in Stack : PlaceShape(t, j)'
    BY <2>1, WaitsSentNext DEF PlaceShape
  <2> QED
    BY <1>1, <1>2, <1>3, <1>7, <2>1, <2>2, <2>3, <2>4, <2>5, <2>6, CoverMoves DEF Listens, Moved
<1>8. CASE /\ call[t].i \in RecvStack /\ call[t].i # call[t].k /\ UNCHANGED sock
           /\ CallStack(t, call[t].i, [call[t] EXCEPT !.f = "shadow", !.cur = call[t].fd])
  <2> DEFINE c == [call[t] EXCEPT !.f = "shadow", !.cur = call[t].fd]
  <2>1. /\ c \in CallRec /\ c.op = "listen" /\ c.fd = d /\ c.k = call[t].k /\ c.f = "shadow"
        /\ c.tmp = call[t].tmp /\ c.i = call[t].i
    BY <1>1, <1>3, <1>4 DEF CallRec
  <2>2. CallStack(t, call[t].i, c)
    BY <1>8
  <2> HIDE DEF c
  <2>3. /\ call'[t] = c /\ pc'[t] = "sent" /\ \A u \in App \ {t} : SameCall(u)
        /\ rpc_queue' = [rpc_queue EXCEPT ![call[t].i] = Append(@, t)]
    BY <1>5, <2>1, <2>2, Asked
  <2>4. TurnShape(t)'
    BY <1>6, <1>8, <2>1, <2>3 DEF TurnShape
  <2>5. \A j \in RecvStack : Listening(t, j)' => Listening(t, j)
    BY <2>1, <2>3 DEF Listening
  <2>6. MasterSet(t)' <=> MasterSet(t)
    BY <1>2, <2>1, <2>3 DEF MasterSet
  <2>7. \A j \in Stack : PlaceShape(t, j)'
    BY <1>1, <1>5, <2>1, <2>3, WaitsOwn DEF PlaceShape
  <2>8. Moved(t) /\ Listens(t)'
    BY <1>5, <2>1, <2>3 DEF Moved, Listens
  <2> QED
    BY <1>1, <1>2, <1>3, <1>8, <2>1, <2>3, <2>4, <2>5, <2>6, <2>7, <2>8, CoverMoves
<1>9. CASE /\ call[t].i \in RecvStack /\ call[t].i = call[t].k
           /\ sock' = [sock EXCEPT ![call[t].fd].master = (call[t].tmp = call[t].i)]
           /\ CallStack(t, get_protocol_stack_by_fd(call[t].fd),
                        [call[t] EXCEPT !.f = "listen", !.cur = call[t].fd])
  <2> DEFINE c == [call[t] EXCEPT !.f = "listen", !.cur = d]
  <2>1. /\ c \in CallRec /\ c.op = "listen" /\ c.f = "listen" /\ c.fd = d /\ c.cur = d
        /\ c.i = call[t].i /\ c.k = call[t].k /\ c.tmp = call[t].tmp
    BY <1>1, <1>3, <1>4 DEF CallRec
  <2>2. CallStack(t, get_protocol_stack_by_fd(d), c)
    BY <1>3, <1>9
  <2>3. PICK b : Chosen(t, d, b)
    BY <1>3, <1>9, Choice
  <2> HIDE DEF c
  <2> QED
    BY <1>1, <1>2, <1>3, <1>4, <1>9, <2>1, <2>2, <2>3, CoverTurn
<1> QED
  BY <1>1, <1>3, <1>4, <1>7, <1>8, <1>9 DEF Broadcast

(* The clone is there. *)
LEMMA ListenShadowReturnsCover ==
  ASSUME IInv, IInv', MissInv, MissInv', CoverInv, NEW t \in App, ShadowReturns(t), Listens(t)
  PROVE  CoverInv'
<1>1. /\ pc[t] = "ret" /\ call[t].f = "shadow" /\ call[t].op = "listen"
      /\ UNCHANGED <<cfg, stk>>
  BY DEF ShadowReturns, Listens
<1>2. Spread /\ Asks(t)
  BY <1>1, ListenFacts DEF SingleShape, Asks
<1>3. PICK d \in Fd : d = call[t].fd
  BY ListenFacts
<1>4. call[t] \in CallRec /\ TurnShape(t)
  BY <1>2, ListenFacts
<1>5. call[t].i \in RecvStack /\ call[t].i # call[t].k
  BY <1>1, <1>2, <1>4 DEF TurnShape
<1>6. CASE CloseAll(t) /\ UNCHANGED <<sock, rpc_queue>>
  BY <1>1, <1>6, CloseAllCover
<1>7. CASE /\ call[t].ret > 0 /\ UNCHANGED <<owner, served>>
           /\ sock' = [sock EXCEPT ![call[t].ret].master = (call[t].tmp = call[t].i)]
           /\ CallStack(t, get_protocol_stack_by_fd(call[t].ret),
                        [call[t] EXCEPT !.f = "listen", !.cur = call[t].ret, !.ret = 0])
  <2>1. PICK x \in Reach(d) : x = call[t].ret /\ x # d
    BY <1>1, <1>3, <1>7 DEF IInv, UseShape
  <2>2. sock[x].stack = call[t].i /\ sock[x].state # "LISTEN" /\ x \in Fd
    BY <1>1, <1>2, <1>4, <1>7, <2>1, ReachSelf DEF TurnShape
  <2> DEFINE c == [call[t] EXCEPT !.f = "listen", !.cur = x, !.ret = 0]
  <2>3. /\ c \in CallRec /\ c.op = "listen" /\ c.f = "listen" /\ c.fd = d /\ c.cur = x
        /\ c.i = call[t].i /\ c.k = call[t].k /\ c.tmp = call[t].tmp
    <3>1. x \in Fd \cup {No} /\ 0 \in Int
      BY <2>2
    <3>2. c \in CallRec
      BY <1>4, <3>1 DEF CallRec
    <3> QED
      BY <1>1, <1>3, <1>4, <3>2 DEF CallRec
  <2>4. CallStack(t, get_protocol_stack_by_fd(x), c)
    BY <1>7, <2>1
  <2>5. PICK b : Chosen(t, x, b)
    BY <1>7, <2>1, Choice
  <2> HIDE DEF c
  <2> QED
    BY <1>1, <1>2, <1>3, <1>5, <1>7, <2>1, <2>2, <2>3, <2>4, <2>5, CoverTurn
<1> QED
  BY <1>1, <1>6, <1>7 DEF ShadowReturns, history

(* One stack more listens. *)
LEMMA ListenReturnsCover ==
  ASSUME IInv, IInv', MissInv, MissInv', CoverInv, NEW t \in App, ListenReturns(t)
  PROVE  CoverInv'
<1>1. /\ pc[t] = "ret" /\ call[t].f = "listen" /\ UNCHANGED <<cfg, stk, sock, rpc_queue>>
  BY DEF ListenReturns
<1>2. Listens(t) /\ call[t].op = "listen" /\ Asks(t)
  BY <1>1, RetOp DEF Listens, Asks
<1>3. PICK d \in Fd : d = call[t].fd
  BY <1>2, ListenFacts
<1>4. CASE /\ ~Spread /\ Return(t) /\ UNCHANGED owner
           /\ served' = IF call[t].ret = 0 THEN served \cup {call[t].fd} ELSE served
  <2>1. d \in served' => sock[d].state = "LISTEN"
    <3>1. d \in served => sock[d].state = "LISTEN"
      BY <1>4 DEF CoverInv
    <3>2. call[t].ret = 0 => sock[d].state = "LISTEN"
      BY <1>1, <1>2, <1>3, <1>4, ListenFacts DEF SingleShape
    <3> QED
      BY <1>4, <3>1, <3>2
  <2> QED
    BY <1>1, <1>2, <1>3, <1>4, <2>1, CoverEnds
<1>5. CASE CloseAll(t)
  BY <1>1, <1>2, <1>5, CloseAllCover
<1>6. CASE /\ Spread /\ call[t].ret = 0 /\ UNCHANGED <<owner, served>>
           /\ call' = [call EXCEPT ![t].i = @ + 1] /\ pc' = [pc EXCEPT ![t] = "loop"]
  <2>1. /\ call[t] \in CallRec /\ TurnShape(t) /\ AgainShape(t) /\ call[t].tmp \in RecvStack
    BY <1>2, <1>6, ListenFacts
  <2>2. /\ call'[t].op = "listen" /\ call'[t].fd = d /\ call'[t].k = call[t].k
        /\ call'[t].tmp = call[t].tmp /\ call'[t].i = call[t].i + 1 /\ pc'[t] = "loop"
        /\ \A u \in App \ {t} : SameCall(u)
    BY <1>1, <1>2, <1>3, <1>6, <2>1 DEF IInv, VarShape, CallRec, SameCall
  <2>3. /\ call[t].i \in Int /\ call[t].tmp \in Int /\ \A j \in RecvStack : j \in Int
    BY <2>1, Receives, Consts DEF CallRec
  <2>4. TurnShape(t)' /\ ~Asks(t)'
    BY <2>2 DEF TurnShape, Asks
  <2>5. \A j \in RecvStack : Listening(t, j)' => Listening(t, j)
    BY <1>1, <1>6, <2>2, <2>3 DEF Listening
  <2>6. MasterSet(t)' <=> MasterSet(t)
    BY <1>1, <1>2, <2>2, <2>3, <2>4 DEF MasterSet
  <2>7. d \in served => call[t].i = call[t].k
    BY <1>1, <1>2, <1>3, <1>6, <2>1 DEF AgainShape, TurnShape
  <2>8. \A j \in RecvStack : j < call'[t].i =>
          j < call[t].i \/ (d \in served => j = call[t].k)
    BY <2>2, <2>3, <2>7
  <2>9. \A j \in Stack : PlaceShape(t, j)'
    BY <2>2, WaitsSentNext DEF PlaceShape
  <2>10. Moved(t) /\ Listens(t)'
    BY <1>1, <2>2 DEF Moved, Listens
  <2> QED
    BY <1>1, <1>2, <1>3, <1>6, <2>2, <2>4, <2>5, <2>6, <2>8, <2>9, <2>10, CoverMoves
<1> QED
  BY <1>1, <1>4, <1>5, <1>6 DEF ListenReturns, history

(* Every stack has been asked. *)
LEMMA ListenDoneCover ==
  ASSUME IInv, IInv', MissInv, MissInv', CoverInv, NEW t \in App, BroadcastDone(t), Listens(t)
  PROVE  CoverInv'
<1>1. /\ pc[t] = "loop" /\ call[t].i = StackNum /\ Return(t)
      /\ served' = served \cup {call[t].fd}
      /\ UNCHANGED <<cfg, sock, stk, rpc_queue, owner>>
  BY DEF BroadcastDone, Listens
<1>2. Spread
  BY <1>1, ListenFacts DEF SingleShape, Asks
<1>3. PICK d \in Fd : d = call[t].fd
  BY ListenFacts
<1>4. PastShape(t) /\ AgainShape(t) /\ call[t].tmp \in RecvStack
  BY <1>2, ListenFacts
<1>5. \A k \in RecvStack : k < call[t].i
  BY <1>1, Receives
<1>6. \A k \in RecvStack : Covered(d, k)
  BY <1>3, <1>4, <1>5 DEF PastShape, Listening
<1>7. OneMaster(d)
  <2>1. CASE d \notin served
    BY <1>3, <1>4, <1>5, <2>1 DEF PastShape, MasterSet, OneMaster
  <2>2. CASE d \in served
    <3>1. RecvStack = {call[t].k}
      BY <1>3, <1>4, <1>5, <2>2, Receives DEF AgainShape
    <3> QED
      BY <1>3, <1>4, <2>2, <3>1 DEF AgainShape
  <2> QED
    BY <2>1, <2>2
<1> QED
  BY <1>1, <1>2, <1>3, <1>6, <1>7, CoverEnds

-----------------------------------------------------------------------------
(* What the stacks do for a listen call. *)

(* The call at the head of a queue. *)
LEMMA AtHead ==
  ASSUME IInv, NEW k \in Stack, NEW t \in App, rpc_queue[k] # << >>, t = Head(rpc_queue[k])
  PROVE  Waits(t, k)
<1>1. PICK q \in Seq(App) : q = rpc_queue[k] /\ q # << >>
  BY DEF IInv, VarShape
<1>2. 1 \in DOMAIN q /\ q[1] = t
  BY <1>1
<1> QED
  BY <1>1, <1>2 DEF Waits

(* A thread that has been answered. *)
LEMMA ListenAnswered ==
  ASSUME IInv, NEW k \in Stack, NEW t \in App, rpc_queue[k] # << >>, NEW v \in Int,
         Reply(k, t, v)
  PROVE  /\ pc'[t] = "ret" /\ call'[t].ret = v /\ call'[t].op = call[t].op
         /\ call'[t].fd = call[t].fd /\ call'[t].f = call[t].f /\ call'[t].cur = call[t].cur
         /\ call'[t].i = call[t].i /\ call'[t].k = call[t].k /\ call'[t].tmp = call[t].tmp
         /\ \A u \in App \ {t} : SameCall(u)
         /\ Moved(t)
<1>1. call[t] \in CallRec /\ call \in [App -> CallRec] /\ DOMAIN pc = App
  BY DEF IInv, VarShape
<1>2. call'[t].tmp = call[t].tmp /\ pc'[t] = "ret"
  BY <1>1 DEF Reply, CallRec
<1> QED
  BY <1>2, Replied DEF Answered, Moved

LEMMA ClonesList ==
  ASSUME IInv, NEW k, NEW t, NEW d \in Fd, NEW e \in Reach(d), NEW n \in Fd,
         Clones(k, t, d, e, n)
  PROVE  /\ Masters(d)' = Masters(d) /\ \A j : On(d, j)' = On(d, j)
         /\ sock'[d].stack = sock[d].stack /\ sock'[d].kind = sock[d].kind
<1>1. Reach(d) \subseteq Fd /\ d \in Reach(d) /\ n \notin Reach(d) /\ Reach(d)' = Reach(d) \cup {n}
  BY ReachSelf DEF Clones
<1>2. \A x \in Reach(d) : /\ sock'[x].stack = sock[x].stack /\ sock'[x].state = sock[x].state
                          /\ sock'[x].master = sock[x].master /\ sock'[x].kind = sock[x].kind
  BY <1>1 DEF Clones
<1>3. ~sock'[n].master /\ sock'[n].state # "LISTEN"
  BY DEF Clones
<1>4. Masters(d)' = Masters(d)
  BY <1>1, <1>2, <1>3 DEF Masters
<1>5. \A j : On(d, j)' = On(d, j)
  BY <1>1, <1>2, <1>3 DEF On
<1> QED
  BY <1>1, <1>2, <1>4, <1>5

(* create_shadow_fd makes no listener and no master. *)
LEMMA ListenShadowCover ==
  ASSUME IInv, IInv', MissInv, MissInv', CoverInv, NEW k \in Stack, NEW t \in App,
         CreateShadowFd(k, t), Listens(t)
  PROVE  CoverInv'
<1>1. /\ call[t].f = "shadow" /\ pc[t] = "sent" /\ rpc_queue[k] # << >>
      /\ t = Head(rpc_queue[k]) /\ call[t].fd \in Fd
      /\ \/ Reply(k, t, -1) /\ UNCHANGED sock
         \/ \E e \in Reach(call[t].fd), n \in Fd : Clones(k, t, call[t].fd, e, n)
  BY ShadowMade
<1>2. PICK d \in Fd : d = call[t].fd
  BY <1>1
<1>3. Spread /\ Asks(t)
  BY <1>1, ListenFacts DEF SingleShape, Asks
<1>4. /\ ListenShape(t) /\ TurnShape(t) /\ PastShape(t) /\ AgainShape(t) /\ CoverShape(d)
      /\ call[t].k = sock[d].stack /\ call[t].tmp \in RecvStack
      /\ owner[d] = t /\ sock[d].kind = "tcp"
  BY <1>2, <1>3, ListenFacts
<1>5. call[t].i = k
  BY <1>1, <1>3, AtHead DEF CoverInv, PlaceShape
<1>6. call[t].i \in RecvStack /\ call[t].i # call[t].k
  BY <1>1, <1>3, <1>4, SMTT(30) DEF TurnShape
<1>7. UNCHANGED <<cfg, stk, owner, served>>
  BY DEF CreateShadowFd, history
<1>8. RecvStack' = RecvStack
  BY <1>7 DEF RecvStack
<1>9. \E v \in Int : /\ Reply(k, t, v)
                     /\ v # -1 => sock'[v].stack = k /\ sock'[v].state # "LISTEN"
  <2>1. -1 \in Int /\ \A n \in Fd : n \in Int
    BY Consts
  <2> QED
    BY <1>1, <2>1 DEF Clones
<1>10. PICK v \in Int : /\ Reply(k, t, v)
                        /\ v # -1 => sock'[v].stack = k /\ sock'[v].state # "LISTEN"
  BY <1>9
<1>11. /\ pc'[t] = "ret" /\ call'[t].ret = v /\ call'[t].op = call[t].op
       /\ call'[t].fd = d /\ call'[t].f = "shadow"
       /\ call'[t].i = call[t].i /\ call'[t].k = call[t].k /\ call'[t].tmp = call[t].tmp
  BY <1>1, <1>2, <1>10, ListenAnswered
<1>12. /\ Masters(d)' = Masters(d) /\ \A j : On(d, j)' = On(d, j)
       /\ sock'[d].stack = sock[d].stack /\ sock'[d].kind = sock[d].kind
  <2>1. CASE UNCHANGED sock
    <3>1. Reach(d)' = Reach(d)
      BY <2>1 DEF Reach, Closed
    <3> QED
      BY <2>1, <3>1 DEF Masters, On
  <2>2. CASE \E e \in Reach(d), n \in Fd : Clones(k, t, d, e, n)
    BY <2>2, ClonesList
  <2> QED
    BY <1>1, <1>2, <2>1, <2>2
<1>13. (OneMaster(d)' <=> OneMaster(d)) /\ \A j : Covered(d, j)' <=> Covered(d, j)
  BY <1>12 DEF OneMaster, Covered
<1>14. TurnShape(t)'
  BY <1>5, <1>6, <1>8, <1>10, <1>11 DEF TurnShape
<1>15. PastShape(t)'
  <2>1. \A j : Listening(t, j)' <=> Listening(t, j)
    BY <1>1, <1>11 DEF Listening
  <2>2. MasterSet(t)' <=> MasterSet(t)
    BY <1>1, <1>11 DEF MasterSet
  <2>3. \A x \in Fd : Masters(d) = {x} => sock'[x].stack = sock[x].stack
    <3> SUFFICES ASSUME NEW x \in Fd, Masters(d) = {x} PROVE sock'[x].stack = sock[x].stack
      OBVIOUS
    <3>1. x \in Reach(d)
      BY DEF Masters
    <3>2. ASSUME NEW e \in Reach(d), NEW n \in Fd, Clones(k, t, d, e, n)
          PROVE  sock'[x].stack = sock[x].stack
      BY <3>1, <3>2, SMTT(30) DEF Clones
    <3> QED
      BY <1>1, <1>2, <3>2
  <2> QED
    BY <1>2, <1>4, <1>7, <1>8, <1>11, <1>12, <1>13, <2>1, <2>2, <2>3 DEF PastShape
<1>16. AgainShape(t)'
  BY <1>1, <1>2, <1>4, <1>7, <1>8, <1>11, <1>13, Zenon DEF AgainShape
<1>17. ListenShape(t)'
  BY <1>4, <1>8, <1>11, <1>12, <1>14, <1>15, <1>16 DEF ListenShape
<1>18. \A j \in Stack : PlaceShape(t, j)'
  BY <1>11, WaitsSentNext DEF PlaceShape
<1>19. /\ RecvStack = {sock[d].stack} => sock'[d].listen_next = No
       /\ d \in served => \A j \in RecvStack : Covered(d, j)'
  BY <1>4, <1>6, <1>13, Consts DEF CoverShape
<1>20. Elsewhere(t, d) /\ Listens(t)' /\ sock'[d].kind = "tcp"
  BY <1>2, <1>4, <1>11, <1>12, ShadowElsewhere DEF Listens
<1> QED
  BY <1>2, <1>3, <1>4, <1>7, <1>11, <1>12, <1>17, <1>18, <1>19, <1>20, CoverListens

(* The call asks for the address first. *)
LEMMA ListenQueryCover ==
  ASSUME IInv, IInv', MissInv, MissInv', CoverInv, NEW k \in Stack, NEW t \in App,
         StackQuery(k, t), Listens(t)
  PROVE  CoverInv'
<1>1. /\ rpc_queue[k] # << >> /\ pc[t] = "sent" /\ call[t].f = "getsockname"
      /\ UNCHANGED <<cfg, sock, stk, owner, served>>
  BY RunsFor DEF StackQuery, history, Listens
<1>2. Spread /\ Asks(t)
  BY <1>1, ListenFacts DEF SingleShape, Asks
<1>3. PICK v \in {0, -1} : Reply(k, t, v)
  BY DEF StackQuery
<1>4. v \in Int
  OBVIOUS
<1>5. /\ pc'[t] = "ret" /\ call'[t].op = call[t].op
      /\ call'[t].fd = call[t].fd /\ call'[t].f = "getsockname"
      /\ call'[t].i = call[t].i /\ call'[t].k = call[t].k /\ call'[t].tmp = call[t].tmp
      /\ \A u \in App \ {t} : SameCall(u)
      /\ Moved(t)
  BY <1>1, <1>3, <1>4, ListenAnswered
<1>6. TurnShape(t)'
  BY <1>5 DEF TurnShape
<1>7. \A j \in RecvStack : Listening(t, j)' => Listening(t, j)
  BY <1>5 DEF Listening
<1>8. MasterSet(t)' <=> MasterSet(t)
  BY <1>1, <1>5 DEF MasterSet
<1>9. \A j \in Stack : PlaceShape(t, j)'
  BY <1>5, WaitsSentNext DEF PlaceShape
<1>10. Listens(t)'
  BY <1>5 DEF Listens
<1> QED
  BY <1>1, <1>2, <1>5, <1>6, <1>7, <1>8, <1>9, <1>10, CoverMoves

(* stack_listen: one listener for the address of d, or none at all. *)
LEMMA StackListenCover ==
  ASSUME IInv, IInv', MissInv, MissInv', CoverInv, NEW k \in Stack, NEW t \in App,
         StackListen(k, t)
  PROVE  CoverInv'
<1>1. /\ rpc_queue[k] # << >> /\ t = Head(rpc_queue[k]) /\ pc[t] = "sent"
      /\ call[t].f = "listen" /\ call[t].op = "listen" /\ Listens(t) /\ Asks(t)
      /\ UNCHANGED <<cfg, stk, owner, served>>
  BY RunsFor DEF StackListen, history, Listens, Asks
<1>2. PICK d \in Fd : d = call[t].fd /\ owner[d] = t /\ owner[d] # No /\ sock[d].kind = "tcp"
  BY <1>1, ListenFacts, Consts
<1>3. PICK x \in Reach(d) : x = call[t].cur
  BY <1>1, <1>2 DEF IInv, UseShape
<1>4. /\ x \in Fd /\ sock[x].head = d /\ d \in Reach(d) /\ Reach(d) \subseteq Fd
      /\ \A y \in Reach(d) : sock[y].head = d
  BY <1>2, HeldList, ReachSelf
<1>5. \E v \in {0, -1} : Reply(k, t, v)
  BY DEF StackListen
<1>6. \/ Reply(k, t, -1) /\ UNCHANGED sock
      \/ /\ Reply(k, t, 0)
         /\ sock' = [sock EXCEPT ![x].state = "LISTEN", ![x].bound = TRUE]
         /\ ~\E y \in Fd \ {x} : /\ sock[y].stack = k /\ sock[y].state = "LISTEN"
                                 /\ sock[y].head = d
  BY <1>3, <1>4 DEF StackListen
<1>7. PICK v \in {0, -1} : Reply(k, t, v)
  BY <1>5
<1>8. v \in Int
  OBVIOUS
<1>9. /\ pc'[t] = "ret" /\ call'[t].ret = v /\ call'[t].op = "listen"
      /\ call'[t].fd = d /\ call'[t].f = "listen" /\ call'[t].cur = x
      /\ call'[t].i = call[t].i /\ call'[t].k = call[t].k /\ call'[t].tmp = call[t].tmp
      /\ \A u \in App \ {t} : SameCall(u)
      /\ Moved(t)
  BY <1>1, <1>2, <1>3, <1>7, <1>8, ListenAnswered
<1>10. Listens(t)' /\ \A j \in Stack : PlaceShape(t, j)'
  BY <1>9, WaitsSentNext DEF PlaceShape, Listens
<1>11. RecvStack' = RecvStack
  BY <1>1 DEF RecvStack
<1>12. Spread =>
         /\ ListenShape(t) /\ TurnShape(t) /\ PastShape(t) /\ AgainShape(t) /\ CoverShape(d)
         /\ call[t].k = sock[d].stack /\ call[t].tmp \in RecvStack
         /\ sock[x].stack = call[t].i /\ (x = d <=> call[t].i = call[t].k)
         /\ (x # d => sock[x].state # "LISTEN") /\ call[t].i = k /\ k \in RecvStack
  <2> SUFFICES ASSUME Spread
      PROVE  /\ ListenShape(t) /\ TurnShape(t) /\ PastShape(t) /\ AgainShape(t) /\ CoverShape(d)
             /\ call[t].k = sock[d].stack /\ call[t].tmp \in RecvStack
             /\ sock[x].stack = call[t].i /\ (x = d <=> call[t].i = call[t].k)
             /\ (x # d => sock[x].state # "LISTEN") /\ call[t].i = k /\ k \in RecvStack
    OBVIOUS
  <2>1. /\ ListenShape(t) /\ TurnShape(t) /\ PastShape(t) /\ AgainShape(t) /\ CoverShape(d)
        /\ call[t].k = sock[d].stack /\ call[t].tmp \in RecvStack
    BY <1>1, <1>2, ListenFacts
  <2>2. /\ sock[x].stack = call[t].i /\ (x = d <=> call[t].i = call[t].k)
        /\ (x # d => sock[x].state # "LISTEN") /\ call[t].i \in RecvStack
    BY <1>1, <1>2, <1>3, <2>1 DEF TurnShape
  <2>3. sock[x].stack = k
    BY <1>1, <1>3, AtHead DEF CoverInv, PlaceShape
  <2> QED
    BY <2>1, <2>2, <2>3
<1>13. CASE Reply(k, t, -1) /\ UNCHANGED sock
  <2>1. v = -1
    BY <1>8, <1>9, <1>13, <1>1, ListenAnswered
  <2>2. CASE Spread
    <3>1. TurnShape(t)'
      BY <1>2, <1>9, <1>11, <1>12, <1>13, <2>2 DEF TurnShape
    <3>2. \A j \in RecvStack : Listening(t, j)' => Listening(t, j)
      BY <1>9, <2>1 DEF Listening
    <3>3. MasterSet(t)' <=> MasterSet(t)
      BY <1>1, <1>9 DEF MasterSet, Asks
    <3> QED
      BY <1>1, <1>2, <1>9, <1>10, <1>13, <2>1, <2>2, <3>1, <3>2, <3>3, CoverMoves
  <2>3. CASE ~Spread
    <3>1. SingleShape(t)'
      BY <1>1, <1>2, <1>3, <1>9, <2>1, <2>3, ListenFacts, SMTT(30) DEF SingleShape, Asks
    <3> QED
      BY <1>1, <1>2, <1>9, <1>10, <1>13, <2>3, <3>1, CoverAsksOn
  <2> QED
    BY <2>2, <2>3
<1>14. CASE /\ Reply(k, t, 0)
            /\ sock' = [sock EXCEPT ![x].state = "LISTEN", ![x].bound = TRUE]
            /\ ~\E y \in Fd \ {x} : /\ sock[y].stack = k /\ sock[y].state = "LISTEN"
                                    /\ sock[y].head = d
  <2>1. /\ \A y \in Fd \ {x} : sock'[y] = sock[y]
        /\ sock'[x].stack = sock[x].stack /\ sock'[x].kind = sock[x].kind
        /\ sock'[x].master = sock[x].master /\ sock'[x].listen_next = sock[x].listen_next
        /\ sock'[x].state = "LISTEN"
    <3>1. sock[x] \in SockRec /\ sock \in [Fd -> SockRec]
      BY <1>4, SockTypes DEF IInv, TypeOK, SockRec
    <3> QED
      BY <1>4, <1>14, <3>1 DEF SockRec
  <2>2. Reach(d)' = Reach(d)
    <3>1. \A y \in Reach(d) : sock'[y].listen_next = sock[y].listen_next
      BY <1>4, <2>1
    <3> QED
      BY <3>1, ReachSame DEF IInv
  <2>3. Masters(d)' = Masters(d) /\ (OneMaster(d)' <=> OneMaster(d))
    BY <1>4, <2>1, <2>2 DEF Masters, OneMaster
  <2>4. Elsewhere(t, d)
    <3>1. \A y \in Fd : Steady(y) \/ sock[y].head = d
      BY <1>4, <2>1, SteadySame
    <3> QED
      BY <1>1, <1>2, <1>9, <3>1, ListenElsewhere
  <2>5. sock'[d].kind = "tcp" /\ sock'[d].stack = sock[d].stack
        /\ sock'[d].listen_next = sock[d].listen_next
    BY <1>2, <2>1
  <2>6. ASSUME ~Spread PROVE SingleShape(t)' /\ (d \in served => sock'[d].state = "LISTEN")
    <3>1. x = d
      BY <1>1, <1>2, <1>3, <2>6, ListenFacts DEF SingleShape
    <3> QED
      BY <1>9, <2>1, <3>1 DEF SingleShape, Asks
  <2>7. ASSUME Spread
        PROVE  /\ RecvStack = {sock[d].stack} => sock'[d].listen_next = No
               /\ d \in served => \A j \in RecvStack : Covered(d, j)'
               /\ ListenShape(t)'
    <3>1. Covered(d, k)'
      <4>1. On(d, k)' = {x}
        <5>1. \A y \in Reach(d) \ {x} : ~(sock[y].stack = k /\ sock[y].state = "LISTEN")
          BY <1>4, <1>14
        <5>2. \A y \in Reach(d) \ {x} : ~(sock'[y].stack = k /\ sock'[y].state = "LISTEN")
          BY <1>4, <2>1, <5>1
        <5>3. sock'[x].stack = k /\ sock'[x].state = "LISTEN"
          BY <1>12, <2>1, <2>7
        <5> QED
          BY <2>2, <5>2, <5>3 DEF On
      <4> QED
        BY <1>4, <4>1 DEF Covered
    <3>2. \A j \in RecvStack : j # k => (Covered(d, j)' <=> Covered(d, j))
      <4> SUFFICES ASSUME NEW j \in RecvStack, j # k PROVE Covered(d, j)' <=> Covered(d, j)
        OBVIOUS
      <4>1. sock[x].stack # j /\ sock'[x].stack # j
        BY <1>12, <2>1, <2>7
      <4>2. On(d, j)' = On(d, j)
        BY <1>4, <2>1, <2>2, <4>1 DEF On
      <4> QED
        BY <4>2 DEF Covered
    <3>3. d \in served => \A j \in RecvStack : Covered(d, j)
      BY <1>2, <1>12, <2>7 DEF CoverShape
    <3>4. TurnShape(t)'
      BY <1>2, <1>9, <1>11, <1>12, <2>1, <2>7 DEF TurnShape
    <3>5. PastShape(t)'
      <4>1. \A j \in RecvStack : Listening(t, j)' => j = k \/ Listening(t, j)
        BY <1>9, <1>12, <2>7 DEF Listening
      <4>2. MasterSet(t)' <=> MasterSet(t)
        BY <1>1, <1>9 DEF MasterSet, Asks
      <4>3. \A y \in Fd : sock'[y].stack = sock[y].stack
        BY <2>1
      <4>4. \A j \in RecvStack : Listening(t, j)' => Covered(d, j)'
        BY <1>2, <1>12, <2>7, <3>1, <3>2, <4>1 DEF PastShape
      <4>5. d \notin served =>
              IF MasterSet(t)' THEN \E y \in Fd : Masters(d)' = {y} /\ sock'[y].stack = call[t].tmp
                               ELSE Masters(d)' = {}
        BY <1>2, <1>12, <2>3, <2>7, <4>2, <4>3, SMTT(30) DEF PastShape
      <4> QED
        BY <1>1, <1>9, <1>11, <4>4, <4>5 DEF PastShape
    <3>6. AgainShape(t)'
      <4>1. ASSUME d \in served, x # d PROVE FALSE
        <5>1. PICK y \in Fd : On(d, k) = {y}
          BY <1>12, <2>7, <3>3, <4>1 DEF Covered
        <5>2. /\ y \in Reach(d) /\ sock[y].stack = k /\ sock[y].state = "LISTEN"
          BY <5>1 DEF On
        <5>3. y # x
          BY <1>12, <2>7, <4>1, <5>2
        <5> QED
          BY <1>4, <1>14, <5>2, <5>3
      <4> QED
        BY <1>1, <1>2, <1>9, <1>11, <1>12, <2>3, <2>7, <4>1 DEF AgainShape
    <3>7. ListenShape(t)'
      BY <1>2, <1>9, <1>11, <1>12, <2>5, <2>7, <3>4, <3>5, <3>6 DEF ListenShape
    <3>8. RecvStack = {sock[d].stack} => sock'[d].listen_next = No
      BY <1>2, <1>12, <2>5, <2>7 DEF CoverShape
    <3> QED
      BY <3>1, <3>2, <3>3, <3>7, <3>8
  <2> QED
    BY <1>1, <1>2, <1>9, <1>10, <2>4, <2>5, <2>6, <2>7, CoverListens, Zenon
<1> QED
  BY <1>6, <1>13, <1>14

-----------------------------------------------------------------------------
LEMMA InitCover == Init => CoverInv
<1> SUFFICES ASSUME Init PROVE CoverInv
  OBVIOUS
<1>1. NoCall.op = "none" /\ ~FreeSock.master /\ NoWork.pc = "poll"
  BY DEF NoCall, FreeSock, NoWork
<1>2. \A d \in Fd : CoverShape(d) /\ FreshShape(d)
  BY <1>1 DEF Init, CoverShape, FreshShape
<1>3. \A t \in App : ~Listens(t) /\ call[t].op = "none"
  BY <1>1 DEF Init, Listens
<1>4. \A t \in App : ListenShape(t) /\ BindShape(t) /\ SingleShape(t)
  BY <1>3 DEF ListenShape, BindShape, SingleShape
<1>5. \A t \in App, k \in Stack : PlaceShape(t, k)
  BY <1>3 DEF PlaceShape
<1>6. served = {}
  BY DEF Init
<1> QED
  BY <1>2, <1>4, <1>5, <1>6 DEF CoverInv

(* bind and listen share the loop. *)
LEMMA LoopCover ==
  ASSUME IInv, IInv', MissInv, MissInv', CoverInv, NEW t \in App,
         Broadcast(t) \/ ShadowReturns(t) \/ BroadcastDone(t)
  PROVE  CoverInv'
<1>1. call[t].op = "bind" \/ Listens(t)
  BY RetOp DEF Broadcast, ShadowReturns, BroadcastDone, IInv, StageShape, Listens
<1> QED
  BY <1>1, BindBroadcastCover, BindShadowReturnsCover, BindDoneCover,
     ListenBroadcastCover, ListenShadowReturnsCover, ListenDoneCover, SMTT(30)

LEMMA CreateShadowFdCover ==
  ASSUME IInv, IInv', MissInv, MissInv', CoverInv, NEW k \in Stack, NEW t \in App,
         CreateShadowFd(k, t)
  PROVE  CoverInv'
<1>1. call[t].op = "bind" \/ Listens(t)
  BY ShadowMade DEF Listens
<1> QED
  BY <1>1, BindShadowCover, ListenShadowCover

LEMMA AnyQueryCover ==
  ASSUME IInv, IInv', MissInv, MissInv', CoverInv, NEW k \in Stack, NEW t \in App,
         StackQuery(k, t)
  PROVE  CoverInv'
<1>1. call[t].op # "listen" \/ Listens(t)
  BY DEF Listens
<1> QED
  BY <1>1, StackQueryCover, ListenQueryCover

LEMMA StepCover ==
  IInv /\ IInv' /\ MissInv /\ MissInv' /\ CoverInv /\ [Next]_vars => CoverInv'
<1> SUFFICES ASSUME IInv, IInv', MissInv, MissInv', CoverInv, [Next]_vars PROVE CoverInv'
  OBVIOUS
<1>1. ASSUME NEW t \in App, AppStep(t) PROVE CoverInv'
  BY <1>1, CountSocketCover, SocketReturnsCover, CloseKernelCover, CloseNextCover,
     CloseReturnsCover, BindReturnsCover, NameReturnsCover, LoopCover, ListenReturnsCover,
     AcceptReturnsCover, ConnectReturnsCover, RecvWalkCover, AskReturnsCover DEF AppStep
<1>2. ASSUME NEW t \in App, AppCall(t) PROVE CoverInv'
  BY <1>2, KernelSocketCover, GetBindStackCover, CloseCover, BindCover, ListenCover,
     AcceptCover, ConnectCover, RecvFromCover, QueryCover DEF AppCall
<1>3. ASSUME NEW k \in Stack, StackStep(k) PROVE CoverInv'
  BY <1>3, StackSocketCover, StackBindCover, CreateShadowFdCover, StackListenCover,
     StackConnectCover, AnyQueryCover, StackAcceptCover, StackAcceptedCover,
     StackCloseCover, CloseFnCover, CleanSockCover DEF StackStep
<1>4. CASE Network
  BY <1>4, NetCover DEF Network
<1>5. CASE UNCHANGED vars
  <2>1. /\ UNCHANGED <<cfg, sock, rpc_queue, stk, owner, served>>
        /\ \A u \in App : SameCall(u)
        /\ \A x \in Fd, j \in Stack : Accepting(j, x)' => Accepting(j, x)
    BY <1>5 DEF vars, SameCall, Accepting
  <2> QED
    BY <2>1, SteadySame, CoverSilent
<1> QED
  BY <1>1, <1>2, <1>3, <1>4, <1>5 DEF Next

LEMMA CoverCounts == IInv /\ MissInv /\ CoverInv => ListenCovers
<1> SUFFICES ASSUME IInv, MissInv, CoverInv, NEW d \in served,
                    ~\E t \in App : call[t].fd = d /\ call[t].op = "listen"
             PROVE  IF Spread
                    THEN /\ \A k \in RecvStack : Cardinality(On(d, k)) = 1
                         /\ Cardinality(Masters(d)) = 1
                    ELSE sock[d].state = "LISTEN"
  BY DEF ListenCovers, On, Masters
<1>1. CASE ~Spread
  BY <1>1 DEF CoverInv
<1>2. CASE Spread
  <2>1. d \in Fd /\ owner[d] # No /\ CoverShape(d)
    BY <1>2 DEF CoverInv, MissInv, IInv, TypeOK
  <2>2. \A t \in App : Listens(t) => call[t].fd # d
    BY DEF Listens
  <2>3. OneMaster(d) /\ \A k \in RecvStack : Covered(d, k)
    BY <2>1, <2>2 DEF CoverShape
  <2>4. Cardinality(Masters(d)) = 1
    BY <2>3, FS_Singleton DEF OneMaster
  <2>5. \A k \in RecvStack : Cardinality(On(d, k)) = 1
    BY <2>3, FS_Singleton DEF Covered
  <2> QED
    BY <1>2, <2>4, <2>5
<1> QED
  BY <1>1, <1>2

(* A socket whose listen has succeeded has exactly one listener on every    *)
(* receiving stack, and exactly one master among them: the loop of          *)
(* stack_broadcast_listen leaves none out and does none twice, although the *)
(* choice of the master goes by a conn_num that is out of date by then, the *)
(* clones are made and counted by other threads in between, and listen may  *)
(* be called again on a socket that listens.                                *)
THEOREM ListenCoversCorrect == Spec => []ListenCovers
<1>1. Init => IInv /\ MissInv /\ CoverInv
  BY InitInv, InitMiss, InitCover
<1>2. IInv /\ MissInv /\ CoverInv /\ [Next]_vars => (IInv /\ MissInv /\ CoverInv)'
  BY StepInv, StepMiss, StepCover
<1>3. IInv /\ MissInv /\ CoverInv => ListenCovers
  BY CoverCounts
<1> QED
  BY <1>1, <1>2, <1>3, PTL DEF Spec
=============================================================================
