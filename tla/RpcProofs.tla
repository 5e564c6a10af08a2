------------------------------ MODULE RpcProofs ------------------------------
(***************************************************************************)
(* Rpc for any number of threads and any size of the pools.                *)
(*                                                                         *)
(* At any moment a message is in one place: its pool, the queue, the hands *)
(* of its caller, or the hands of the stack thread.  What makes this hard  *)
(* is the one look that poll_rpc_msg takes at msg->func after stack_send   *)
(* has given the message away.  It is harmless as long as the owner cannot *)
(* take the message out of its pool again: the pool is a queue, behind the *)
(* message there is room for one more, of a synchronous call that was      *)
(* already unlocked, and in front of it are all messages of the thread     *)
(* that are not under way.  With AppPool >= SendLimit + 3 it has company.  *)
(***************************************************************************)
EXTENDS Rpc, FiniteSetTheorems, FunctionTheorems, TLAPS

InPool(t) == ToSet(pool[t])
InQueue   == ToSet(rpc_queue)

(* The message belongs to the stack thread ... *)
AtStack(m) ==
  /\ cur = m
  /\ \/ stack_pc \in {"handle", "finish"}
     \/ stack_pc = "check" /\ func[m] # "send"

(* ... or stack_send has given it away and msg->func has yet to be read. *)
PassedOn == stack_pc = "check" /\ func[cur] = "send"

InFlight(m) == m \in InQueue \/ AtStack(m)

PoolShape(t) ==
  /\ IsInjective(pool[t])
  /\ \A m \in InPool(t) : m \in Msg /\ Owner(m) = t /\ ~InFlight(m)

(* A caller, its message and what it has filled in so far. *)
CallerShape(t) ==
  /\ pc[t] # "idle" =>
       /\ msg[t] \in Msg /\ Owner(msg[t]) = t /\ msg[t] \notin InPool(t)
       /\ call[t] \in Calls(t)
  /\ pc[t] \notin {"idle", "wait"} => ~InFlight(msg[t])
  /\ pc[t] \in {"release", "push"} => func[msg[t]] = call[t]
  /\ pc[t] = "push" =>
       /\ call[t] = "sync" => lock[msg[t]] = 1 /\ self_release[msg[t]] = 1
       /\ call[t] # "sync" => self_release[msg[t]] = 0
  /\ pc[t] \in {"trylock", "wait"} =>
       func[msg[t]] = "sync" /\ self_release[msg[t]] = 1
  /\ pc[t] \in {"trylock", "wait", "return"} => call[t] = "sync"
  /\ pc[t] = "wait" /\ lock[msg[t]] = 0 => handled[msg[t]] /\ ~InFlight(msg[t])
  /\ pc[t] = "return" => handled[msg[t]]

(* A message under way knows who frees it. *)
FlightShape(m) ==
  InFlight(m) =>
    /\ func[m] \in Calls(Owner(m))
    /\ func[m] = "sync" =>
         /\ pc[Owner(m)] = "wait" /\ msg[Owner(m)] = m
         /\ lock[m] = 1 /\ self_release[m] = 1
    /\ func[m] # "sync" => self_release[m] = 0

StackShape ==
  /\ IsInjective(rpc_queue)
  /\ stack_pc # "pop" => cur \in Msg
  /\ stack_pc # "pop" /\ AtStack(cur) => cur \notin InQueue
  /\ stack_pc = "finish" => func[cur] # "send"
  /\ stack_pc \in {"check", "finish"} /\ func[cur] # "send" => handled[cur]

(* The caller may still put a message back without the stack thread. *)
MayReturn(t) == pc[t] = "return" \/ (pc[t] = "wait" /\ lock[msg[t]] = 0)

(* Where the message is that stack_send has given away. *)
PassedShape ==
  PassedOn =>
    /\ Owner(cur) \in App
    /\ \/ cur \in InQueue
       \/ \E k \in 1..Len(pool[Owner(cur)]) :
            /\ pool[Owner(cur)][k] = cur
            /\ \/ k = Len(pool[Owner(cur)])
               \/ k = Len(pool[Owner(cur)]) - 1 /\ ~MayReturn(Owner(cur))

(* Every message of an application thread is accounted for. *)
Accounted(t) ==
  /\ \A m \in Msg : Owner(m) = t =>
       \/ m \in InPool(t)
       \/ m \in SendsUnderWay(t)
       \/ pc[t] # "idle" /\ m = msg[t]
  /\ Cardinality(SendsUnderWay(t)) <= SendLimit
  /\ pc[t] # "idle" /\ call[t] = "send" => Cardinality(SendsUnderWay(t)) < SendLimit

IInv ==
  /\ TypeOK
  /\ \A t \in Thread : PoolShape(t) /\ CallerShape(t)
  /\ \A m \in Msg : FlightShape(m)
  /\ StackShape
  /\ PassedShape
  /\ \A t \in App : Accounted(t)

-----------------------------------------------------------------------------
(* A message appended to a sequence of messages, and the first one removed. *)
LEMMA AppendFacts ==
  ASSUME NEW S, NEW s \in Seq(S), NEW e \in S
  PROVE  /\ Append(s, e) \in Seq(S)
         /\ ToSet(Append(s, e)) = ToSet(s) \cup {e}
         /\ IsInjective(s) /\ e \notin ToSet(s) => IsInjective(Append(s, e))
<1>1. /\ Append(s, e) \in Seq(S) /\ Len(Append(s, e)) = Len(s) + 1
      /\ DOMAIN s = 1..Len(s) /\ DOMAIN Append(s, e) = 1..(Len(s) + 1)
      /\ Len(s) \in Nat
  OBVIOUS
<1>2. /\ \A i \in 1..Len(s) : Append(s, e)[i] = s[i]
      /\ Append(s, e)[Len(s) + 1] = e
  OBVIOUS
<1>3. ToSet(Append(s, e)) = ToSet(s) \cup {e}
  <2>1. ASSUME NEW x \in ToSet(Append(s, e)) PROVE x \in ToSet(s) \cup {e}
    BY <1>1, <1>2 DEF ToSet
  <2>2. ASSUME NEW x \in ToSet(s) PROVE x \in ToSet(Append(s, e))
    BY <1>1, <1>2 DEF ToSet
  <2>3. e \in ToSet(Append(s, e))
    BY <1>1, <1>2 DEF ToSet
  <2> QED
    BY <2>1, <2>2, <2>3
<1>4. ASSUME IsInjective(s), e \notin ToSet(s) PROVE IsInjective(Append(s, e))
  BY <1>1, <1>2, <1>4 DEF IsInjective, ToSet
<1> QED
  BY <1>1, <1>3, <1>4

LEMMA TailFacts ==
  ASSUME NEW S, NEW s \in Seq(S), s # << >>
  PROVE  /\ Tail(s) \in Seq(S) /\ Head(s) \in S /\ Head(s) \in ToSet(s)
         /\ Len(Tail(s)) = Len(s) - 1
         /\ \A i \in 1..(Len(s) - 1) : Tail(s)[i] = s[i + 1]
         /\ IsInjective(s) => /\ ToSet(Tail(s)) = ToSet(s) \ {Head(s)}
                              /\ IsInjective(Tail(s))
<1>1. /\ Tail(s) \in Seq(S) /\ Len(Tail(s)) = Len(s) - 1
      /\ DOMAIN s = 1..Len(s) /\ DOMAIN Tail(s) = 1..(Len(s) - 1)
      /\ Len(s) \in Nat /\ Len(s) >= 1 /\ Head(s) = s[1] /\ s[1] \in S
  OBVIOUS
<1>2. \A i \in 1..(Len(s) - 1) : Tail(s)[i] = s[i + 1]
  OBVIOUS
<1>3. Head(s) \in ToSet(s)
  BY <1>1 DEF ToSet
<1>4. ASSUME IsInjective(s) PROVE ToSet(Tail(s)) = ToSet(s) \ {Head(s)}
  <2>1. ASSUME NEW x \in ToSet(Tail(s)) PROVE x \in ToSet(s) \ {Head(s)}
    <3>1. PICK i \in 1..(Len(s) - 1) : x = s[i + 1]
      BY <1>1, <1>2 DEF ToSet
    <3> QED
      BY <1>1, <1>4, <3>1 DEF ToSet, IsInjective
  <2>2. ASSUME NEW x \in ToSet(s) \ {Head(s)} PROVE x \in ToSet(Tail(s))
    <3>1. PICK i \in 1..Len(s) : x = s[i]
      BY <1>1 DEF ToSet
    <3>2. i - 1 \in 1..(Len(s) - 1) /\ Tail(s)[i - 1] = x
      BY <1>1, <1>2, <3>1
    <3> QED
      BY <1>1, <3>2 DEF ToSet
  <2> QED
    BY <2>1, <2>2
<1>5. ASSUME IsInjective(s) PROVE IsInjective(Tail(s))
  BY <1>1, <1>2, <1>5 DEF IsInjective
<1> QED
  BY <1>1, <1>2, <1>3, <1>4, <1>5

(* A message and its owner. *)
LEMMA MsgParts ==
  ASSUME NEW m \in Msg
  PROVE  /\ Owner(m) \in Thread /\ m # NoMsg
         /\ Owner(m) \in App => m \in {Owner(m)} \X (1..AppPool)
  BY RpcAssumption DEF Msg, Owner, Thread, NoMsg

(* The messages of an application thread: AppPool of them. *)
LEMMA MsgCount ==
  ASSUME NEW t \in App
  PROVE  /\ IsFiniteSet({t} \X (1..AppPool))
         /\ Cardinality({t} \X (1..AppPool)) = AppPool
         /\ {t} \X (1..AppPool) \subseteq Msg
         /\ \A m \in Msg : Owner(m) = t <=> m \in {t} \X (1..AppPool)
<1>1. IsFiniteSet(1..AppPool) /\ Cardinality(1..AppPool) = AppPool
  BY RpcAssumption, FS_Interval
<1>2. ExistsBijection(1..AppPool, {t} \X (1..AppPool))
  <2> DEFINE f == [i \in 1..AppPool |-> <<t, i>>]
  <2>1. f \in [1..AppPool -> {t} \X (1..AppPool)]
    OBVIOUS
  <2>2. \A i, j \in 1..AppPool : f[i] = f[j] => i = j
    OBVIOUS
  <2>3. \A m \in {t} \X (1..AppPool) : \E i \in 1..AppPool : f[i] = m
    OBVIOUS
  <2> HIDE DEF f
  <2>4. f \in Bijection(1..AppPool, {t} \X (1..AppPool))
    BY <2>1, <2>2, <2>3, Fun_IsBij
  <2> QED
    BY <2>4 DEF ExistsBijection
<1>3. \A m \in Msg : Owner(m) = t <=> m \in {t} \X (1..AppPool)
  BY MsgParts DEF Owner
<1> QED
  BY <1>1, <1>2, <1>3, FS_Bijection DEF Msg

(* There are finitely many sends of a thread under way. *)
LEMMA SendsFinite ==
  ASSUME NEW t \in App
  PROVE  /\ IsFiniteSet(SendsUnderWay(t)) /\ Cardinality(SendsUnderWay(t)) \in Nat
         /\ SendsUnderWay(t) \subseteq {t} \X (1..AppPool)
<1>1. SendsUnderWay(t) \subseteq {t} \X (1..AppPool)
  BY MsgCount DEF SendsUnderWay
<1> QED
  BY <1>1, MsgCount, FS_Subset, FS_CardinalityType

(* What a caller is filling in, the stack thread is not looking at. *)
LEMMA HeldApart ==
  ASSUME IInv, NEW t \in Thread, pc[t] \notin {"idle", "wait"}
  PROVE  /\ msg[t] \in Msg /\ Owner(msg[t]) = t /\ msg[t] \notin InPool(t)
         /\ ~InFlight(msg[t])
         /\ stack_pc = "pop" \/ cur # msg[t]
<1>1. /\ msg[t] \in Msg /\ Owner(msg[t]) = t /\ msg[t] \notin InPool(t)
      /\ ~InFlight(msg[t])
  BY DEF IInv, CallerShape
<1>2. ASSUME stack_pc # "pop", cur = msg[t] PROVE FALSE
  <2>1. PassedOn
    BY <1>1, <1>2 DEF IInv, TypeOK, InFlight, AtStack, PassedOn
  <2>2. \E k \in 1..Len(pool[t]) : pool[t][k] = cur
    BY <2>1, <1>1, <1>2 DEF IInv, PassedShape, InFlight
  <2>3. pool[t] \in Seq(Msg)
    BY DEF IInv, TypeOK
  <2>4. cur \in InPool(t)
    BY <2>2, <2>3 DEF InPool, ToSet
  <2> QED
    BY <2>4, <1>1, <1>2
<1> QED
  BY <1>1, <1>2

(* The message stack_send has just freed is not the next one of its pool:   *)
(* there is one behind it at most, and not all others are under way.        *)
LEMMA NotNext ==
  ASSUME IInv, AppPool >= SendLimit + 3, NEW t \in Thread, pc[t] = "idle",
         pool[t] # << >>, PassedOn
  PROVE  Head(pool[t]) # cur
<1> SUFFICES ASSUME Head(pool[t]) = cur PROVE FALSE
  OBVIOUS
<1>1. /\ pool[t] \in Seq(Msg) /\ Head(pool[t]) \in InPool(t)
      /\ Head(pool[t]) = pool[t][1]
  BY TailFacts DEF IInv, TypeOK, InPool
<1>2. Owner(cur) = t /\ cur \notin InQueue /\ t \in App
  BY <1>1 DEF IInv, PoolShape, InFlight, PassedShape
<1>3. PICK k \in 1..Len(pool[t]) : pool[t][k] = cur /\ k >= Len(pool[t]) - 1
  BY <1>1, <1>2 DEF IInv, PassedShape
<1>4. k = 1
  BY <1>1, <1>3 DEF IInv, PoolShape, IsInjective
<1>5. Len(pool[t]) <= 2
  BY <1>1, <1>3, <1>4
<1> DEFINE Two == {pool[t][1], pool[t][2]}
           All == {t} \X (1..AppPool)
<1>6. InPool(t) \subseteq Two
  BY <1>1, <1>5 DEF InPool, ToSet
<1>7. IsFiniteSet(Two) /\ Cardinality(Two) <= 2 /\ Cardinality(Two) \in Nat
  <2>1. IsFiniteSet({pool[t][1]}) /\ Cardinality({pool[t][1]}) = 1
    BY FS_Singleton
  <2>2. Two = {pool[t][1]} \cup {pool[t][2]}
    OBVIOUS
  <2>3. /\ IsFiniteSet({pool[t][1]} \cup {pool[t][2]})
        /\ Cardinality({pool[t][1]} \cup {pool[t][2]})
             = IF pool[t][2] \in {pool[t][1]} THEN Cardinality({pool[t][1]})
                                              ELSE Cardinality({pool[t][1]}) + 1
    BY <2>1, FS_AddElement
  <2>4. Cardinality({pool[t][1]} \cup {pool[t][2]}) \in {1, 2}
    BY <2>1, <2>3
  <2> QED
    BY <2>2, <2>3, <2>4
<1>8. All \subseteq Two \cup SendsUnderWay(t)
  BY <1>2, <1>6, MsgCount DEF IInv, Accounted
<1>9. /\ IsFiniteSet(Two \cup SendsUnderWay(t))
      /\ Cardinality(Two \cup SendsUnderWay(t)) <= 2 + Cardinality(SendsUnderWay(t))
      /\ Cardinality(Two \cup SendsUnderWay(t)) \in Nat
  <2>1. /\ IsFiniteSet(SendsUnderWay(t)) /\ Cardinality(SendsUnderWay(t)) \in Nat
        /\ IsFiniteSet(Two \cap SendsUnderWay(t))
        /\ Cardinality(Two \cap SendsUnderWay(t)) \in Nat
    BY <1>2, <1>7, SendsFinite, FS_Subset, FS_CardinalityType
  <2>2. /\ IsFiniteSet(Two \cup SendsUnderWay(t))
        /\ Cardinality(Two \cup SendsUnderWay(t))
             = Cardinality(Two) + Cardinality(SendsUnderWay(t))
                 - Cardinality(Two \cap SendsUnderWay(t))
    BY <2>1, <1>7, FS_Union
  <2> QED
    BY <2>1, <2>2, <1>7, FS_CardinalityType
<1>10. Cardinality(All) <= Cardinality(Two \cup SendsUnderWay(t))
  BY <1>8, <1>9, FS_Subset
<1>11. Cardinality(SendsUnderWay(t)) <= SendLimit
       /\ Cardinality(SendsUnderWay(t)) \in Nat
  BY <1>2, SendsFinite DEF IInv, Accounted
<1>12. Cardinality(All) = AppPool
  BY <1>2, MsgCount
<1> HIDE DEF Two, All
<1> QED
  BY <1>9, <1>10, <1>11, <1>12, RpcAssumption

-----------------------------------------------------------------------------
(* get_rpc_msg: the first message of the pool, which nobody looks at. *)
LEMMA GetKeeps ==
  ASSUME IInv, AppPool >= SendLimit + 3, NEW t \in Thread, NEW f \in Func, Get(t, f)
  PROVE  IInv'
<1> DEFINE m == Head(pool[t])
<1>a. /\ pc[t] = "idle" /\ f \in Calls(t) /\ pool[t] # << >>
      /\ f = "send" => Cardinality(SendsUnderWay(t)) < SendLimit
      /\ msg' = [msg EXCEPT ![t] = m]
      /\ pool' = [pool EXCEPT ![t] = Tail(pool[t])]
      /\ call' = [call EXCEPT ![t] = f]
      /\ pc' = [pc EXCEPT ![t] = "func"]
      /\ UNCHANGED <<func, self_release, lock, handled, rpc_queue, stack_pc, cur>>
  BY DEF Get, fields, stackVars
<1>b. /\ pool[t] \in Seq(Msg) /\ m \in Msg /\ m \in InPool(t) /\ Owner(m) = t
      /\ m = pool[t][1] /\ ~InFlight(m) /\ (PassedOn => cur # m)
      /\ Tail(pool[t]) \in Seq(Msg) /\ IsInjective(Tail(pool[t]))
      /\ ToSet(Tail(pool[t])) = InPool(t) \ {m}
  BY <1>a, TailFacts, NotNext DEF IInv, TypeOK, PoolShape, InPool
<1>c. /\ pool' \in [Thread -> Seq(Msg)] /\ pool'[t] = Tail(pool[t])
      /\ InPool(t)' = InPool(t) \ {m}
      /\ \A u \in Thread \ {t} : pool'[u] = pool[u] /\ InPool(u)' = InPool(u)
  BY <1>a, <1>b DEF IInv, TypeOK, InPool
<1>d. /\ InQueue' = InQueue /\ (PassedOn' <=> PassedOn)
      /\ \A x : (AtStack(x)' <=> AtStack(x)) /\ (InFlight(x)' <=> InFlight(x))
      /\ \A u : SendsUnderWay(u)' = SendsUnderWay(u)
  BY <1>a DEF InQueue, PassedOn, AtStack, InFlight, SendsUnderWay
<1> HIDE DEF m
<1>1. TypeOK'
  BY <1>a, <1>b, <1>c DEF IInv, TypeOK
<1>2. ASSUME NEW u \in Thread PROVE PoolShape(u)'
  <2>1. CASE u = t
    BY <2>1, <1>b, <1>c, <1>d DEF IInv, PoolShape
  <2>2. CASE u # t
    <3>1. pool'[u] = pool[u] /\ InPool(u)' = InPool(u) /\ PoolShape(u)
      BY <2>2, <1>c DEF IInv
    <3> QED
      BY <3>1, <1>d DEF PoolShape
  <2> QED
    BY <2>1, <2>2
<1>3. ASSUME NEW u \in Thread PROVE CallerShape(u)'
  <2>1. CASE u = t
    BY <2>1, <1>a, <1>b, <1>c, <1>d DEF IInv, TypeOK, CallerShape
  <2>2. CASE u # t
    BY <2>2, <1>a, <1>c, <1>d DEF IInv, TypeOK, CallerShape
  <2> QED
    BY <2>1, <2>2
<1>4. ASSUME NEW x \in Msg PROVE FlightShape(x)'
  BY <1>a, <1>d, MsgParts DEF IInv, TypeOK, FlightShape
<1>5. StackShape'
  BY <1>a, <1>d DEF IInv, StackShape
<1>6. PassedShape'
  <2> SUFFICES ASSUME PassedOn, cur \notin InQueue PROVE PassedShape'
    BY <1>a, <1>d DEF IInv, PassedShape
  <2>1. CASE Owner(cur) = t
    <3>1. PICK k \in 1..Len(pool[t]) :
            /\ pool[t][k] = cur
            /\ k = Len(pool[t]) \/ k = Len(pool[t]) - 1
      BY <2>1 DEF IInv, PassedShape
    <3>2. k # 1
      BY <3>1, <1>b
    <3>3. /\ k - 1 \in 1..Len(pool'[t]) /\ pool'[t][k - 1] = cur
          /\ k - 1 = Len(pool'[t]) \/ k - 1 = Len(pool'[t]) - 1
      BY <3>1, <3>2, <1>a, <1>b, <1>c, TailFacts
    <3>4. ~MayReturn(t)'
      BY <1>a DEF IInv, TypeOK, MayReturn
    <3> QED
      BY <2>1, <3>3, <3>4, <1>a, <1>d DEF IInv, PassedShape
  <2>2. CASE Owner(cur) # t
    <3>1. Owner(cur) \in App /\ Owner(cur) \in Thread
      BY DEF IInv, PassedShape, Thread
    <3>2. MayReturn(Owner(cur))' <=> MayReturn(Owner(cur))
      BY <2>2, <3>1, <1>a DEF IInv, TypeOK, MayReturn
    <3> QED
      BY <2>2, <3>1, <3>2, <1>a, <1>c, <1>d DEF IInv, PassedShape
  <2> QED
    BY <2>1, <2>2
<1>7. ASSUME NEW u \in App PROVE Accounted(u)'
  <2>1. u \in Thread /\ Accounted(u)
    BY DEF IInv, Thread
  <2> QED
    BY <2>1, <1>a, <1>b, <1>c, <1>d DEF IInv, TypeOK, Accounted
<1> QED
  BY <1>1, <1>2, <1>3, <1>4, <1>5, <1>6, <1>7 DEF IInv

(* A caller fills in a field of its own message: places do not change. *)
LEMMA FillIn ==
  ASSUME IInv, NEW t \in Thread, pc[t] \notin {"idle", "wait"},
         UNCHANGED <<pool, rpc_queue, stack_pc, cur>>,
         \A x \in Msg \ {msg[t]} : func'[x] = func[x]
  PROVE  /\ InQueue' = InQueue /\ (PassedOn' <=> PassedOn)
         /\ \A u \in Thread : InPool(u)' = InPool(u)
         /\ \A x \in Msg : (AtStack(x)' <=> AtStack(x)) /\ (InFlight(x)' <=> InFlight(x))
         /\ \A u \in Thread : SendsUnderWay(u)' = SendsUnderWay(u)
<1>1. /\ msg[t] \in Msg /\ ~InFlight(msg[t])
      /\ stack_pc = "pop" \/ cur # msg[t]
  BY HeldApart
<1>2. InQueue' = InQueue /\ \A u \in Thread : InPool(u)' = InPool(u)
  BY DEF InQueue, InPool
<1>3. stack_pc # "pop" => cur \in Msg /\ func'[cur] = func[cur]
  BY <1>1 DEF IInv, StackShape
<1>4. PassedOn' <=> PassedOn
  BY <1>3 DEF PassedOn
<1>5. \A x \in Msg : (AtStack(x)' <=> AtStack(x)) /\ (InFlight(x)' <=> InFlight(x))
  BY <1>2, <1>3 DEF AtStack, InFlight
<1>6. ASSUME NEW u \in Thread PROVE SendsUnderWay(u)' = SendsUnderWay(u)
  <2>1. \A x \in Msg : (\E i \in DOMAIN rpc_queue : rpc_queue[i] = x) => x # msg[t]
    BY <1>1 DEF InFlight, InQueue, ToSet
  <2>2. \A x \in Msg : stack_pc = "handle" /\ cur = x => x # msg[t]
    BY <1>1
  <2> QED
    BY <2>1, <2>2 DEF SendsUnderWay
<1> QED
  BY <1>2, <1>4, <1>5, <1>6

(* The message given away stays where it is. *)
LEMMA PassedStays ==
  ASSUME IInv, UNCHANGED <<pool, cur>>, InQueue \subseteq InQueue',
         PassedOn' => PassedOn,
         \A u \in Thread : MayReturn(u)' => MayReturn(u)
  PROVE  PassedShape'
<1> SUFFICES ASSUME PassedOn PROVE PassedShape'
  BY DEF PassedShape
<1>1. Owner(cur) \in App /\ Owner(cur) \in Thread
  BY DEF IInv, PassedShape, Thread
<1>2. MayReturn(Owner(cur))' => MayReturn(Owner(cur))
  BY <1>1
<1> QED
  BY <1>1, <1>2 DEF IInv, PassedShape

(* rpc_msg_free: the last of its pool. *)
LEMMA FreeFacts ==
  ASSUME IInv, NEW m \in Msg, m \notin InPool(Owner(m)), Free(m)
  PROVE  /\ pool' \in [Thread -> Seq(Msg)]
         /\ self_release' \in [Msg -> {0, 1}] /\ handled' \in [Msg -> BOOLEAN]
         /\ InPool(Owner(m))' = InPool(Owner(m)) \cup {m}
         /\ IsInjective(pool'[Owner(m)])
         /\ pool[Owner(m)] \in Seq(Msg) /\ pool'[Owner(m)] = Append(pool[Owner(m)], m)
         /\ \A u \in Thread \ {Owner(m)} : pool'[u] = pool[u] /\ InPool(u)' = InPool(u)
         /\ \A x \in Msg \ {m} : /\ self_release'[x] = self_release[x]
                                 /\ handled'[x] = handled[x]
         /\ self_release'[m] = 0
<1>1. /\ Owner(m) \in Thread /\ pool \in [Thread -> Seq(Msg)]
      /\ self_release \in [Msg -> {0, 1}] /\ handled \in [Msg -> BOOLEAN]
      /\ IsInjective(pool[Owner(m)])
  BY MsgParts DEF IInv, TypeOK, PoolShape
<1>2. /\ pool' = [pool EXCEPT ![Owner(m)] = Append(pool[Owner(m)], m)]
      /\ self_release' = [self_release EXCEPT ![m] = 0]
      /\ handled' = [handled EXCEPT ![m] = FALSE]
  BY DEF Free
<1>3. /\ Append(pool[Owner(m)], m) \in Seq(Msg)
      /\ ToSet(Append(pool[Owner(m)], m)) = InPool(Owner(m)) \cup {m}
      /\ IsInjective(Append(pool[Owner(m)], m))
  BY <1>1, AppendFacts DEF InPool
<1> QED
  BY <1>1, <1>2, <1>3 DEF InPool

(* rpc_msg_alloc *)
LEMMA SetFuncKeeps ==
  ASSUME IInv, NEW t \in Thread, SetFunc(t)
  PROVE  IInv'
<1>a. /\ pc[t] = "func" /\ pc' = [pc EXCEPT ![t] = "release"]
      /\ lock' = [lock EXCEPT ![msg[t]] = 0]
      /\ func' = [func EXCEPT ![msg[t]] = call[t]]
      /\ handled' = [handled EXCEPT ![msg[t]] = FALSE]
      /\ UNCHANGED <<pool, self_release, rpc_queue, msg, call, stack_pc, cur>>
  BY DEF SetFunc, stackVars
<1>b. /\ msg[t] \in Msg /\ Owner(msg[t]) = t /\ msg[t] \notin InPool(t)
      /\ ~InFlight(msg[t])
      /\ stack_pc = "pop" \/ cur # msg[t]
  BY <1>a, HeldApart
<1>c. /\ InQueue' = InQueue /\ (PassedOn' <=> PassedOn)
      /\ \A u \in Thread : InPool(u)' = InPool(u)
      /\ \A x \in Msg : (AtStack(x)' <=> AtStack(x)) /\ (InFlight(x)' <=> InFlight(x))
      /\ \A u \in Thread : SendsUnderWay(u)' = SendsUnderWay(u)
  BY <1>a, FillIn DEF IInv, TypeOK
<1>1. TypeOK'
  BY <1>a DEF IInv, TypeOK
<1>2. ASSUME NEW u \in Thread PROVE PoolShape(u)'
  BY <1>a, <1>c DEF IInv, PoolShape
<1>3. ASSUME NEW u \in Thread PROVE CallerShape(u)'
  <2>1. CASE u = t
    BY <2>1, <1>a, <1>b, <1>c DEF IInv, TypeOK, CallerShape
  <2>2. CASE u # t
    <3>1. pc[u] # "idle" => msg[u] \in Msg /\ msg[u] # msg[t]
      BY <2>2, <1>b DEF IInv, CallerShape
    <3> QED
      BY <2>2, <3>1, <1>a, <1>c DEF IInv, TypeOK, CallerShape
  <2> QED
    BY <2>1, <2>2
<1>4. ASSUME NEW x \in Msg PROVE FlightShape(x)'
  <2>1. FlightShape(x) /\ Owner(x) \in Thread /\ (InFlight(x) => x # msg[t])
    BY <1>b, MsgParts DEF IInv
  <2> QED
    BY <2>1, <1>a, <1>b, <1>c DEF IInv, TypeOK, FlightShape
<1>5. StackShape'
  BY <1>a, <1>b, <1>c DEF IInv, TypeOK, StackShape
<1>6. PassedShape'
  <2>1. \A u \in Thread : MayReturn(u)' => MayReturn(u)
    <3> SUFFICES ASSUME NEW u \in Thread, MayReturn(u)' PROVE MayReturn(u)
      OBVIOUS
    <3>1. u # t
      BY <1>a DEF IInv, TypeOK, MayReturn
    <3>2. pc'[u] = pc[u] /\ pc[u] # "idle"
      BY <3>1, <1>a DEF IInv, TypeOK, MayReturn
    <3>3. msg[u] \in Msg /\ msg[u] # msg[t]
      BY <3>1, <3>2, <1>b DEF IInv, CallerShape
    <3> QED
      BY <3>2, <3>3, <1>a DEF IInv, TypeOK, MayReturn
  <2> QED
    BY <2>1, <1>a, <1>c, PassedStays
<1>7. ASSUME NEW u \in App PROVE Accounted(u)'
  <2>1. u \in Thread /\ Accounted(u)
    BY DEF IInv, Thread
  <2> QED
    BY <2>1, <1>a, <1>c DEF IInv, TypeOK, Accounted
<1> QED
  BY <1>1, <1>2, <1>3, <1>4, <1>5, <1>6, <1>7 DEF IInv
(* rpc_msg_alloc, rpc_call_arp, rpc_call_send: who frees the message. *)
LEMMA SetReleaseKeeps ==
  ASSUME IInv, NEW t \in Thread, SetRelease(t)
  PROVE  IInv'
<1>a. /\ pc[t] = "release"
      /\ self_release' = [self_release EXCEPT ![msg[t]] =
                            IF call[t] = "sync" THEN 1 ELSE 0]
      /\ pc' = [pc EXCEPT ![t] = IF call[t] = "sync" THEN "trylock" ELSE "push"]
      /\ UNCHANGED <<pool, func, lock, handled, rpc_queue, msg, call, stack_pc, cur>>
  BY DEF SetRelease, stackVars
<1>b. /\ msg[t] \in Msg /\ Owner(msg[t]) = t /\ msg[t] \notin InPool(t)
      /\ ~InFlight(msg[t])
      /\ stack_pc = "pop" \/ cur # msg[t]
  BY <1>a, HeldApart
<1>c. /\ InQueue' = InQueue /\ (PassedOn' <=> PassedOn)
      /\ \A u \in Thread : InPool(u)' = InPool(u)
      /\ \A x \in Msg : (AtStack(x)' <=> AtStack(x)) /\ (InFlight(x)' <=> InFlight(x))
      /\ \A u \in Thread : SendsUnderWay(u)' = SendsUnderWay(u)
  BY <1>a, FillIn
<1>1. TypeOK'
  BY <1>a DEF IInv, TypeOK
<1>2. ASSUME NEW u \in Thread PROVE PoolShape(u)'
  BY <1>a, <1>c DEF IInv, PoolShape
<1>3. ASSUME NEW u \in Thread PROVE CallerShape(u)'
  <2>1. CASE u = t
    BY <2>1, <1>a, <1>b, <1>c DEF IInv, TypeOK, CallerShape
  <2>2. CASE u # t
    <3>1. pc[u] # "idle" => msg[u] \in Msg /\ msg[u] # msg[t]
      BY <2>2, <1>b DEF IInv, CallerShape
    <3> QED
      BY <2>2, <3>1, <1>a, <1>c DEF IInv, TypeOK, CallerShape
  <2> QED
    BY <2>1, <2>2
<1>4. ASSUME NEW x \in Msg PROVE FlightShape(x)'
  <2>1. FlightShape(x) /\ Owner(x) \in Thread /\ (InFlight(x) => x # msg[t])
    BY <1>b, MsgParts DEF IInv
  <2> QED
    BY <2>1, <1>a, <1>b, <1>c DEF IInv, TypeOK, FlightShape
<1>5. StackShape'
  BY <1>a, <1>b, <1>c DEF IInv, TypeOK, StackShape
<1>6. PassedShape'
  <2>1. \A u \in Thread : MayReturn(u)' => MayReturn(u)
    <3> SUFFICES ASSUME NEW u \in Thread, MayReturn(u)' PROVE MayReturn(u)
      OBVIOUS
    <3>1. u # t
      BY <1>a DEF IInv, TypeOK, MayReturn
    <3>2. pc'[u] = pc[u] /\ pc[u] # "idle"
      BY <3>1, <1>a DEF IInv, TypeOK, MayReturn
    <3>3. msg[u] \in Msg /\ msg[u] # msg[t]
      BY <3>1, <3>2, <1>b DEF IInv, CallerShape
    <3> QED
      BY <3>2, <3>3, <1>a DEF IInv, TypeOK, MayReturn
  <2> QED
    BY <2>1, <1>a, <1>c, PassedStays
<1>7. ASSUME NEW u \in App PROVE Accounted(u)'
  <2>1. u \in Thread /\ Accounted(u)
    BY DEF IInv, Thread
  <2> QED
    BY <2>1, <1>a, <1>c DEF IInv, TypeOK, Accounted
<1> QED
  BY <1>1, <1>2, <1>3, <1>4, <1>5, <1>6, <1>7 DEF IInv

(* rpc_sync_call: pthread_spin_trylock. *)
LEMMA TryLockKeeps ==
  ASSUME IInv, NEW t \in Thread, TryLock(t)
  PROVE  IInv'
<1>a. /\ pc[t] = "trylock" /\ pc' = [pc EXCEPT ![t] = "push"]
      /\ lock' = [lock EXCEPT ![msg[t]] = 1]
      /\ UNCHANGED <<pool, func, self_release, handled, rpc_queue, msg, call,
                     stack_pc, cur>>
  BY DEF TryLock, stackVars
<1>b. /\ msg[t] \in Msg /\ Owner(msg[t]) = t /\ msg[t] \notin InPool(t)
      /\ ~InFlight(msg[t])
      /\ stack_pc = "pop" \/ cur # msg[t]
  BY <1>a, HeldApart
<1>c. /\ InQueue' = InQueue /\ (PassedOn' <=> PassedOn)
      /\ \A u \in Thread : InPool(u)' = InPool(u)
      /\ \A x \in Msg : (AtStack(x)' <=> AtStack(x)) /\ (InFlight(x)' <=> InFlight(x))
      /\ \A u \in Thread : SendsUnderWay(u)' = SendsUnderWay(u)
  BY <1>a, FillIn
<1>1. TypeOK'
  BY <1>a DEF IInv, TypeOK
<1>2. ASSUME NEW u \in Thread PROVE PoolShape(u)'
  BY <1>a, <1>c DEF IInv, PoolShape
<1>3. ASSUME NEW u \in Thread PROVE CallerShape(u)'
  <2>1. CASE u = t
    BY <2>1, <1>a, <1>b, <1>c DEF IInv, TypeOK, CallerShape
  <2>2. CASE u # t
    <3>1. pc[u] # "idle" => msg[u] \in Msg /\ msg[u] # msg[t]
      BY <2>2, <1>b DEF IInv, CallerShape
    <3> QED
      BY <2>2, <3>1, <1>a, <1>c DEF IInv, TypeOK, CallerShape
  <2> QED
    BY <2>1, <2>2
<1>4. ASSUME NEW x \in Msg PROVE FlightShape(x)'
  <2>1. FlightShape(x) /\ Owner(x) \in Thread /\ (InFlight(x) => x # msg[t])
    BY <1>b, MsgParts DEF IInv
  <2> QED
    BY <2>1, <1>a, <1>b, <1>c DEF IInv, TypeOK, FlightShape
<1>5. StackShape'
  BY <1>a, <1>b, <1>c DEF IInv, TypeOK, StackShape
<1>6. PassedShape'
  <2>1. \A u \in Thread : MayReturn(u)' => MayReturn(u)
    <3> SUFFICES ASSUME NEW u \in Thread, MayReturn(u)' PROVE MayReturn(u)
      OBVIOUS
    <3>1. u # t
      BY <1>a DEF IInv, TypeOK, MayReturn
    <3>2. pc'[u] = pc[u] /\ pc[u] # "idle"
      BY <3>1, <1>a DEF IInv, TypeOK, MayReturn
    <3>3. msg[u] \in Msg /\ msg[u] # msg[t]
      BY <3>1, <3>2, <1>b DEF IInv, CallerShape
    <3> QED
      BY <3>2, <3>3, <1>a DEF IInv, TypeOK, MayReturn
  <2> QED
    BY <2>1, <1>a, <1>c, PassedStays
<1>7. ASSUME NEW u \in App PROVE Accounted(u)'
  <2>1. u \in Thread /\ Accounted(u)
    BY DEF IInv, Thread
  <2> QED
    BY <2>1, <1>a, <1>c DEF IInv, TypeOK, Accounted
<1> QED
  BY <1>1, <1>2, <1>3, <1>4, <1>5, <1>6, <1>7 DEF IInv

(* rpc_call: the message goes from the hands of its caller to the queue. *)
LEMMA PushKeeps ==
  ASSUME IInv, NEW t \in Thread, Push(t)
  PROVE  IInv'
<1> DEFINE m == msg[t]
<1>a. /\ pc[t] = "push" /\ rpc_queue' = Append(rpc_queue, m)
      /\ UNCHANGED <<pool, func, self_release, lock, handled, stack_pc, cur>>
      /\ \/ /\ call[t] = "sync" /\ pc' = [pc EXCEPT ![t] = "wait"]
            /\ UNCHANGED <<msg, call>>
         \/ /\ call[t] # "sync" /\ pc' = [pc EXCEPT ![t] = "idle"]
            /\ msg' = [msg EXCEPT ![t] = NoMsg]
            /\ call' = [call EXCEPT ![t] = "sync"]
  BY DEF Push, CallOver, fields, stackVars
<1>b. /\ m \in Msg /\ Owner(m) = t /\ m \notin InPool(t)
      /\ ~InFlight(m) /\ m \notin InQueue
      /\ stack_pc = "pop" \/ cur # m
  BY <1>a, HeldApart DEF InFlight
<1>c. /\ call[t] \in Calls(t) /\ func[m] = call[t]
      /\ call[t] = "sync" => lock[m] = 1 /\ self_release[m] = 1
      /\ call[t] # "sync" => self_release[m] = 0
  BY <1>a DEF IInv, CallerShape
<1>d. rpc_queue \in Seq(Msg) /\ IsInjective(rpc_queue)
  BY DEF IInv, TypeOK, StackShape
<1>e. /\ rpc_queue' \in Seq(Msg) /\ IsInjective(rpc_queue')
      /\ InQueue' = InQueue \cup {m}
  BY <1>a, <1>b, <1>d, AppendFacts DEF InQueue
<1>f. /\ PassedOn' <=> PassedOn
      /\ \A x \in Msg : AtStack(x)' <=> AtStack(x)
      /\ \A x \in Msg : InFlight(x)' <=> InFlight(x) \/ x = m
      /\ \A u \in Thread : InPool(u)' = InPool(u)
  BY <1>a, <1>e DEF PassedOn, AtStack, InFlight, InPool
<1>g. \A u \in Thread : u # t => pc'[u] = pc[u] /\ msg'[u] = msg[u] /\ call'[u] = call[u]
  BY <1>a DEF IInv, TypeOK
<1>h. \/ call[t] = "sync" /\ pc'[t] = "wait" /\ msg'[t] = m /\ call'[t] = "sync"
      \/ call[t] # "sync" /\ pc'[t] = "idle"
  BY <1>a DEF IInv, TypeOK
<1>i. \A u \in Thread :
        SendsUnderWay(u)' = IF u = t /\ call[t] = "send" THEN SendsUnderWay(u) \cup {m}
                                                         ELSE SendsUnderWay(u)
  <2> SUFFICES ASSUME NEW u \in Thread, NEW x \in Msg
               PROVE  x \in SendsUnderWay(u)' <=>
                        \/ x \in SendsUnderWay(u)
                        \/ u = t /\ call[t] = "send" /\ x = m
    BY <1>b DEF SendsUnderWay
  <2>1. /\ (\E i \in DOMAIN rpc_queue : rpc_queue[i] = x) <=> x \in InQueue
        /\ (\E i \in DOMAIN rpc_queue' : rpc_queue'[i] = x) <=> x \in InQueue'
    BY DEF InQueue, ToSet
  <2> QED
    BY <2>1, <1>a, <1>b, <1>c, <1>e DEF SendsUnderWay
<1> HIDE DEF m
<1>1. TypeOK'
  <2>1. /\ pc' \in [Thread -> {"idle", "func", "release", "trylock", "push",
                               "wait", "return"}]
        /\ msg' \in [Thread -> Msg \cup {NoMsg}]
        /\ call' \in [Thread -> Func]
    BY <1>a DEF IInv, TypeOK, Func
  <2> QED
    BY <2>1, <1>a, <1>e DEF IInv, TypeOK
<1>2. ASSUME NEW u \in Thread PROVE PoolShape(u)'
  BY <1>a, <1>b, <1>f DEF IInv, PoolShape
<1>3. ASSUME NEW u \in Thread PROVE CallerShape(u)'
  <2>1. CASE u = t
    BY <2>1, <1>a, <1>b, <1>c, <1>f, <1>h DEF CallerShape
  <2>2. CASE u # t
    <3>1. CallerShape(u) /\ (pc[u] # "idle" => msg[u] \in Msg /\ msg[u] # m)
      BY <2>2, <1>b DEF IInv, CallerShape
    <3> QED
      BY <2>2, <3>1, <1>a, <1>f, <1>g DEF CallerShape
  <2> QED
    BY <2>1, <2>2
<1>4. ASSUME NEW x \in Msg PROVE FlightShape(x)'
  <2>1. CASE x = m
    BY <2>1, <1>a, <1>b, <1>c, <1>h DEF FlightShape
  <2>2. CASE x # m
    <3>1. /\ FlightShape(x) /\ Owner(x) \in Thread
          /\ InFlight(x) /\ func[x] = "sync" => Owner(x) # t
      BY <2>2, <1>a, MsgParts DEF IInv, FlightShape
    <3> QED
      BY <2>2, <3>1, <1>a, <1>f, <1>g DEF FlightShape
  <2> QED
    BY <2>1, <2>2
<1>5. StackShape'
  BY <1>a, <1>b, <1>e, <1>f DEF IInv, StackShape
<1>6. PassedShape'
  <2>1. \A u \in Thread : MayReturn(u)' => MayReturn(u)
    <3> SUFFICES ASSUME NEW u \in Thread, MayReturn(u)' PROVE MayReturn(u)
      OBVIOUS
    <3>1. u # t
      BY <1>a, <1>c, <1>h DEF MayReturn
    <3> QED
      BY <3>1, <1>a, <1>g DEF MayReturn
  <2> QED
    BY <2>1, <1>a, <1>e, <1>f, PassedStays
<1>7. ASSUME NEW u \in App PROVE Accounted(u)'
  <2>1. u \in Thread /\ Accounted(u)
    BY DEF IInv, Thread
  <2>2. CASE u # t
    BY <2>1, <2>2, <1>f, <1>g, <1>i DEF Accounted
  <2>3. CASE u = t /\ call[t] = "sync"
    BY <2>1, <2>3, <1>a, <1>f, <1>h, <1>i DEF Accounted, m
  <2>4. CASE u = t /\ call[t] # "sync"
    <3>1. call[t] = "send"
      BY <2>4, <1>c DEF Calls
    <3>2. IsFiniteSet(SendsUnderWay(t)) /\ Cardinality(SendsUnderWay(t)) \in Nat
      BY <2>4, SendsFinite
    <3>3. m \notin SendsUnderWay(t)
      BY <1>b DEF SendsUnderWay, InFlight, AtStack, InQueue, ToSet
    <3>4. Cardinality(SendsUnderWay(t)') = Cardinality(SendsUnderWay(t)) + 1
      BY <3>1, <3>2, <3>3, <2>4, <1>i, FS_AddElement
    <3>5. Cardinality(SendsUnderWay(t)) < SendLimit
      BY <2>1, <2>4, <3>1, <1>a DEF Accounted
    <3>6. Cardinality(SendsUnderWay(t))' <= SendLimit
      BY <3>2, <3>4, <3>5, RpcAssumption
    <3>7. \A x \in Msg : Owner(x) = t => x \in InPool(t)' \/ x \in SendsUnderWay(t)'
      BY <2>1, <2>4, <3>1, <1>f, <1>i DEF Accounted, m
    <3> QED
      BY <2>4, <3>6, <3>7, <1>h DEF Accounted
  <2> QED
    BY <2>2, <2>3, <2>4
<1> QED
  BY <1>1, <1>2, <1>3, <1>4, <1>5, <1>6, <1>7 DEF IInv
(* rpc_sync_call has its lock: the stack thread is through with the message. *)
LEMMA WaitKeeps ==
  ASSUME IInv, NEW t \in Thread, Wait(t)
  PROVE  IInv'
<1> DEFINE m == msg[t]
<1>a. /\ pc[t] = "wait" /\ lock[m] = 0 /\ pc' = [pc EXCEPT ![t] = "return"]
      /\ lock' = [lock EXCEPT ![m] = 1]
      /\ UNCHANGED <<pool, func, self_release, handled, rpc_queue, msg, call,
                     stack_pc, cur>>
  BY DEF Wait, stackVars
<1>b. /\ m \in Msg /\ Owner(m) = t /\ ~InFlight(m) /\ handled[m]
  BY <1>a DEF IInv, CallerShape
<1>c. /\ InQueue' = InQueue /\ (PassedOn' <=> PassedOn)
      /\ \A u \in Thread : InPool(u)' = InPool(u)
      /\ \A x \in Msg : (AtStack(x)' <=> AtStack(x)) /\ (InFlight(x)' <=> InFlight(x))
      /\ \A u \in Thread : SendsUnderWay(u)' = SendsUnderWay(u)
  BY <1>a DEF InQueue, InPool, PassedOn, AtStack, InFlight, SendsUnderWay
<1> HIDE DEF m
<1>1. TypeOK'
  BY <1>a DEF IInv, TypeOK
<1>2. ASSUME NEW u \in Thread PROVE PoolShape(u)'
  BY <1>a, <1>c DEF IInv, PoolShape
<1>3. ASSUME NEW u \in Thread PROVE CallerShape(u)'
  <2>1. CASE u = t
    BY <2>1, <1>a, <1>b, <1>c DEF IInv, TypeOK, CallerShape, m
  <2>2. CASE u # t
    <3>1. pc[u] # "idle" => msg[u] \in Msg /\ msg[u] # m
      BY <2>2, <1>b DEF IInv, CallerShape
    <3> QED
      BY <2>2, <3>1, <1>a, <1>c DEF IInv, TypeOK, CallerShape
  <2> QED
    BY <2>1, <2>2
<1>4. ASSUME NEW x \in Msg PROVE FlightShape(x)'
  <2>1. FlightShape(x) /\ Owner(x) \in Thread /\ (InFlight(x) => x # m)
    BY <1>b, MsgParts DEF IInv
  <2> QED
    BY <2>1, <1>a, <1>b, <1>c DEF IInv, TypeOK, FlightShape, m
<1>5. StackShape'
  BY <1>a, <1>c DEF IInv, StackShape
<1>6. PassedShape'
  <2>1. \A u \in Thread : MayReturn(u)' => MayReturn(u)
    <3> SUFFICES ASSUME NEW u \in Thread, MayReturn(u)', u # t PROVE MayReturn(u)
      BY <1>a DEF MayReturn, m
    <3>1. pc'[u] = pc[u] /\ pc[u] # "idle"
      BY <1>a DEF IInv, TypeOK, MayReturn
    <3>2. msg[u] \in Msg /\ msg[u] # m
      BY <3>1, <1>b DEF IInv, CallerShape
    <3> QED
      BY <3>1, <3>2, <1>a DEF IInv, TypeOK, MayReturn
  <2> QED
    BY <2>1, <1>a, <1>c, PassedStays
<1>7. ASSUME NEW u \in App PROVE Accounted(u)'
  <2>1. u \in Thread /\ Accounted(u)
    BY DEF IInv, Thread
  <2> QED
    BY <2>1, <1>a, <1>c DEF IInv, TypeOK, Accounted
<1> QED
  BY <1>1, <1>2, <1>3, <1>4, <1>5, <1>6, <1>7 DEF IInv

(* rpc_sync_call returns: behind the message that stack_send freed there is *)
(* now one more, and no other can follow.                                   *)
LEMMA ReturnKeeps ==
  ASSUME IInv, NEW t \in Thread, Return(t)
  PROVE  IInv'
<1> DEFINE m == msg[t]
<1>a. /\ pc[t] = "return" /\ Free(m)
      /\ pc' = [pc EXCEPT ![t] = "idle"]
      /\ msg' = [msg EXCEPT ![t] = NoMsg]
      /\ call' = [call EXCEPT ![t] = "sync"]
      /\ UNCHANGED <<func, lock, rpc_queue, stack_pc, cur>>
  BY DEF Return, CallOver, stackVars
<1>b. /\ m \in Msg /\ Owner(m) = t /\ m \notin InPool(t)
      /\ ~InFlight(m)
      /\ stack_pc = "pop" \/ cur # m
  BY <1>a, HeldApart
<1>c. /\ pool' \in [Thread -> Seq(Msg)]
      /\ self_release' \in [Msg -> {0, 1}] /\ handled' \in [Msg -> BOOLEAN]
      /\ InPool(t)' = InPool(t) \cup {m} /\ IsInjective(pool'[t])
      /\ pool[t] \in Seq(Msg) /\ pool'[t] = Append(pool[t], m)
      /\ \A u \in Thread \ {t} : pool'[u] = pool[u] /\ InPool(u)' = InPool(u)
      /\ \A x \in Msg \ {m} : /\ self_release'[x] = self_release[x]
                              /\ handled'[x] = handled[x]
  BY <1>a, <1>b, FreeFacts
<1>d. /\ InQueue' = InQueue /\ (PassedOn' <=> PassedOn)
      /\ \A x \in Msg : (AtStack(x)' <=> AtStack(x)) /\ (InFlight(x)' <=> InFlight(x))
      /\ \A u \in Thread : SendsUnderWay(u)' = SendsUnderWay(u)
  BY <1>a DEF InQueue, PassedOn, AtStack, InFlight, SendsUnderWay
<1>e. /\ pc'[t] = "idle"
      /\ \A u \in Thread \ {t} : pc'[u] = pc[u] /\ msg'[u] = msg[u] /\ call'[u] = call[u]
  BY <1>a DEF IInv, TypeOK
<1> HIDE DEF m
<1>1. TypeOK'
  BY <1>a, <1>c DEF IInv, TypeOK, Func
<1>2. ASSUME NEW u \in Thread PROVE PoolShape(u)'
  <2>1. PoolShape(u)
    BY DEF IInv
  <2>2. CASE u = t
    BY <2>1, <2>2, <1>b, <1>c, <1>d DEF PoolShape
  <2>3. CASE u # t
    BY <2>1, <2>3, <1>c, <1>d DEF PoolShape
  <2> QED
    BY <2>2, <2>3
<1>3. ASSUME NEW u \in Thread PROVE CallerShape(u)'
  <2>1. CASE u = t
    BY <2>1, <1>e DEF CallerShape
  <2>2. CASE u # t
    <3>1. CallerShape(u) /\ (pc[u] # "idle" => msg[u] \in Msg /\ msg[u] # m)
      BY <2>2, <1>b DEF IInv, CallerShape
    <3> QED
      BY <2>2, <3>1, <1>a, <1>c, <1>d, <1>e DEF CallerShape
  <2> QED
    BY <2>1, <2>2
<1>4. ASSUME NEW x \in Msg PROVE FlightShape(x)'
  <2>1. /\ FlightShape(x) /\ Owner(x) \in Thread /\ (InFlight(x) => x # m)
        /\ InFlight(x) /\ func[x] = "sync" => Owner(x) # t
    BY <1>a, <1>b, MsgParts DEF IInv, FlightShape
  <2> QED
    BY <2>1, <1>a, <1>c, <1>d, <1>e DEF FlightShape
<1>5. StackShape'
  BY <1>a, <1>b, <1>c, <1>d DEF IInv, StackShape
<1>6. PassedShape'
  <2> SUFFICES ASSUME PassedOn, cur \notin InQueue PROVE PassedShape'
    BY <1>a, <1>d DEF IInv, PassedShape
  <2>0. Owner(cur) \in App /\ Owner(cur) \in Thread
    BY DEF IInv, PassedShape, Thread
  <2>1. CASE Owner(cur) = t
    <3>1. MayReturn(t)
      BY <1>a DEF MayReturn
    <3>2. PICK k \in 1..Len(pool[t]) : pool[t][k] = cur /\ k = Len(pool[t])
      BY <2>1, <3>1 DEF IInv, PassedShape
    <3>3. /\ k \in 1..Len(pool'[t]) /\ pool'[t][k] = cur /\ k = Len(pool'[t]) - 1
      BY <3>2, <1>b, <1>c
    <3>4. ~MayReturn(t)'
      BY <1>e DEF MayReturn
    <3> QED
      BY <2>0, <2>1, <3>3, <3>4, <1>a DEF PassedShape
  <2>2. CASE Owner(cur) # t
    <3>1. MayReturn(Owner(cur))' <=> MayReturn(Owner(cur))
      BY <2>0, <2>2, <1>a, <1>e DEF MayReturn
    <3> QED
      BY <2>0, <2>2, <3>1, <1>a, <1>c, <1>d DEF IInv, PassedShape
  <2> QED
    BY <2>1, <2>2
<1>7. ASSUME NEW u \in App PROVE Accounted(u)'
  <2>1. u \in Thread /\ Accounted(u)
    BY DEF IInv, Thread
  <2>2. CASE u = t
    BY <2>1, <2>2, <1>c, <1>d, <1>e DEF Accounted, m
  <2>3. CASE u # t
    BY <2>1, <2>3, <1>c, <1>d, <1>e DEF Accounted
  <2> QED
    BY <2>2, <2>3
<1> QED
  BY <1>1, <1>2, <1>3, <1>4, <1>5, <1>6, <1>7 DEF IInv

(* poll_rpc_msg pops: from the queue to the hands of the stack thread. *)
LEMMA PopKeeps ==
  ASSUME IInv, Pop
  PROVE  IInv'
<1> DEFINE m == Head(rpc_queue)
<1>a. /\ stack_pc = "pop" /\ stack_pc' = "handle" /\ rpc_queue # << >>
      /\ cur' = m /\ rpc_queue' = Tail(rpc_queue)
      /\ UNCHANGED <<pool, func, self_release, lock, handled, pc, msg, call>>
  BY DEF Pop, fields, callVars
<1>b. /\ m \in Msg /\ m \in InQueue /\ InQueue' = InQueue \ {m}
      /\ rpc_queue' \in Seq(Msg) /\ IsInjective(rpc_queue')
  BY <1>a, TailFacts DEF IInv, TypeOK, StackShape, InQueue
<1>c. /\ ~PassedOn'
      /\ \A u \in Thread : InPool(u)' = InPool(u)
      /\ \A x \in Msg : AtStack(x)' <=> x = m
      /\ \A x \in Msg : InFlight(x)' <=> InFlight(x)
  BY <1>a, <1>b DEF PassedOn, InPool, AtStack, InFlight
<1>d. \A u \in Thread : SendsUnderWay(u)' = SendsUnderWay(u)
  <2> SUFFICES ASSUME NEW u \in Thread, NEW x \in Msg
               PROVE  x \in SendsUnderWay(u)' <=> x \in SendsUnderWay(u)
    BY DEF SendsUnderWay
  <2>1. /\ (\E i \in DOMAIN rpc_queue : rpc_queue[i] = x) <=> x \in InQueue
        /\ (\E i \in DOMAIN rpc_queue' : rpc_queue'[i] = x) <=> x \in InQueue'
    BY DEF InQueue, ToSet
  <2> QED
    BY <2>1, <1>a, <1>b DEF SendsUnderWay
<1> HIDE DEF m
<1>1. TypeOK'
  BY <1>a, <1>b DEF IInv, TypeOK
<1>2. ASSUME NEW u \in Thread PROVE PoolShape(u)' /\ CallerShape(u)'
  BY <1>a, <1>c DEF IInv, PoolShape, CallerShape
<1>3. ASSUME NEW x \in Msg PROVE FlightShape(x)'
  BY <1>a, <1>c DEF IInv, FlightShape
<1>4. StackShape'
  BY <1>a, <1>b DEF StackShape
<1>5. PassedShape'
  BY <1>c DEF PassedShape
<1>6. ASSUME NEW u \in App PROVE Accounted(u)'
  BY <1>a, <1>c, <1>d DEF IInv, Accounted, Thread
<1> QED
  BY <1>1, <1>2, <1>3, <1>4, <1>5, <1>6 DEF IInv

(* A handler other than stack_send has run. *)
LEMMA HandleKeeps ==
  ASSUME IInv, Handle
  PROVE  IInv'
<1>a. /\ stack_pc = "handle" /\ stack_pc' = "check" /\ func[cur] # "send"
      /\ handled' = [handled EXCEPT ![cur] = TRUE]
      /\ UNCHANGED <<pool, func, self_release, lock, rpc_queue, pc, msg, call, cur>>
  BY DEF Handle, callVars
<1>b. /\ cur \in Msg /\ handled \in [Msg -> BOOLEAN] /\ ~PassedOn'
      /\ \A x \in Msg : handled[x] => handled'[x]
      /\ handled'[cur]
  BY <1>a DEF IInv, TypeOK, StackShape, PassedOn
<1>c. /\ InQueue' = InQueue
      /\ \A u \in Thread : InPool(u)' = InPool(u)
      /\ \A x \in Msg : (AtStack(x)' <=> AtStack(x)) /\ (InFlight(x)' <=> InFlight(x))
      /\ \A u \in Thread : SendsUnderWay(u)' = SendsUnderWay(u)
  BY <1>a DEF InQueue, InPool, AtStack, InFlight, SendsUnderWay
<1>1. TypeOK'
  BY <1>a DEF IInv, TypeOK
<1>2. ASSUME NEW u \in Thread PROVE PoolShape(u)' /\ CallerShape(u)'
  BY <1>a, <1>b, <1>c DEF IInv, PoolShape, CallerShape
<1>3. ASSUME NEW x \in Msg PROVE FlightShape(x)'
  BY <1>a, <1>c DEF IInv, FlightShape
<1>4. StackShape'
  BY <1>a, <1>b, <1>c DEF IInv, StackShape
<1>5. PassedShape'
  BY <1>b DEF PassedShape
<1>6. ASSUME NEW u \in App PROVE Accounted(u)'
  BY <1>a, <1>c DEF IInv, Accounted, Thread
<1> QED
  BY <1>1, <1>2, <1>3, <1>4, <1>5, <1>6 DEF IInv
(* stack_send frees the message: now the last of its pool. *)
LEMMA SendFreeKeeps ==
  ASSUME IInv, SendFree
  PROVE  IInv'
<1>o. PICK o : o = Owner(cur)
  OBVIOUS
<1>a. /\ stack_pc = "handle" /\ stack_pc' = "check" /\ func[cur] = "send"
      /\ Free(cur)
      /\ UNCHANGED <<func, lock, rpc_queue, pc, msg, call, cur>>
  BY DEF SendFree, callVars
<1>b. /\ cur \in Msg /\ AtStack(cur) /\ InFlight(cur) /\ cur \notin InQueue
      /\ o \in Thread /\ o \in App /\ cur \notin InPool(o)
  <2>1. cur \in Msg /\ AtStack(cur) /\ InFlight(cur) /\ cur \notin InQueue
    BY <1>a DEF IInv, StackShape, AtStack, InFlight
  <2>2. o \in Thread /\ func[cur] \in Calls(o)
    BY <2>1, <1>o, MsgParts DEF IInv, FlightShape
  <2> QED
    BY <2>1, <2>2, <1>a, <1>o DEF IInv, PoolShape, Calls
<1>c. /\ pool' \in [Thread -> Seq(Msg)]
      /\ self_release' \in [Msg -> {0, 1}] /\ handled' \in [Msg -> BOOLEAN]
      /\ InPool(o)' = InPool(o) \cup {cur} /\ IsInjective(pool'[o])
      /\ pool[o] \in Seq(Msg) /\ pool'[o] = Append(pool[o], cur)
      /\ \A u \in Thread \ {o} : pool'[u] = pool[u] /\ InPool(u)' = InPool(u)
      /\ \A x \in Msg \ {cur} : /\ self_release'[x] = self_release[x]
                                /\ handled'[x] = handled[x]
  BY <1>a, <1>b, <1>o, FreeFacts
<1>d. /\ InQueue' = InQueue
      /\ \A x \in Msg : ~AtStack(x)'
      /\ \A x \in Msg : InFlight(x)' <=> InFlight(x) /\ x # cur
  BY <1>a, <1>b DEF InQueue, AtStack, InFlight
<1>e. \A u \in Thread : /\ pc[u] # "idle" => msg[u] \in Msg /\ msg[u] # cur
  BY <1>a, <1>b DEF IInv, CallerShape
<1>f. \A u \in App : SendsUnderWay(u)' = SendsUnderWay(u) \ {cur}
  <2> SUFFICES ASSUME NEW u \in App, NEW x \in Msg
               PROVE  x \in SendsUnderWay(u)' <=> x \in SendsUnderWay(u) \ {cur}
    BY DEF SendsUnderWay
  <2>1. (\E i \in DOMAIN rpc_queue : rpc_queue[i] = x) <=> x \in InQueue
    BY DEF InQueue, ToSet
  <2> QED
    BY <2>1, <1>a, <1>b DEF SendsUnderWay
<1>1. TypeOK'
  BY <1>a, <1>c DEF IInv, TypeOK
<1>2. ASSUME NEW u \in Thread PROVE PoolShape(u)'
  <2>1. PoolShape(u)
    BY DEF IInv
  <2>2. CASE u = o
    BY <2>1, <2>2, <1>b, <1>c, <1>d, <1>o DEF PoolShape
  <2>3. CASE u # o
    BY <2>1, <2>3, <1>c, <1>d DEF PoolShape
  <2> QED
    BY <2>2, <2>3
<1>3. ASSUME NEW u \in Thread PROVE CallerShape(u)'
  <2>1. CallerShape(u) /\ (InPool(u)' \ {cur} \subseteq InPool(u))
    BY <1>c DEF IInv
  <2> QED
    BY <2>1, <1>a, <1>c, <1>d, <1>e DEF CallerShape
<1>4. ASSUME NEW x \in Msg PROVE FlightShape(x)'
  BY <1>a, <1>c, <1>d DEF IInv, FlightShape
<1>5. StackShape'
  BY <1>a, <1>b, <1>d DEF IInv, StackShape
<1>6. PassedShape'
  <2>1. /\ Len(pool'[o]) \in 1..Len(pool'[o])
        /\ pool'[o][Len(pool'[o])] = cur
    BY <1>b, <1>c
  <2> QED
    BY <2>1, <1>a, <1>b, <1>o DEF PassedShape
<1>7. ASSUME NEW u \in App PROVE Accounted(u)'
  <2>1. /\ u \in Thread /\ Accounted(u) /\ IsFiniteSet(SendsUnderWay(u))
        /\ Cardinality(SendsUnderWay(u)) \in Nat
    BY SendsFinite DEF IInv, Thread
  <2>2. Cardinality(SendsUnderWay(u)') <= Cardinality(SendsUnderWay(u))
        /\ Cardinality(SendsUnderWay(u)') \in Nat
    BY <2>1, <1>f, FS_Subset, FS_CardinalityType
  <2>3. ASSUME NEW x \in Msg, Owner(x) = u
        PROVE  \/ x \in InPool(u)' \/ x \in SendsUnderWay(u)'
               \/ pc'[u] # "idle" /\ x = msg'[u]
    BY <2>1, <2>3, <1>a, <1>c, <1>f, <1>o DEF Accounted
  <2> QED
    BY <2>1, <2>2, <2>3, <1>a, RpcAssumption DEF Accounted
<1> QED
  BY <1>1, <1>2, <1>3, <1>4, <1>5, <1>6, <1>7 DEF IInv

(* stack_send posts the message again: it is in the queue. *)
LEMMA SendRepostKeeps ==
  ASSUME IInv, SendRepost
  PROVE  IInv'
<1>a. /\ stack_pc = "handle" /\ stack_pc' = "check" /\ func[cur] = "send"
      /\ rpc_queue' = Append(rpc_queue, cur)
      /\ UNCHANGED <<pool, func, self_release, lock, handled, pc, msg, call, cur>>
  BY DEF SendRepost, fields, callVars
<1>b. /\ cur \in Msg /\ AtStack(cur) /\ InFlight(cur) /\ cur \notin InQueue
  BY <1>a DEF IInv, StackShape, AtStack, InFlight
<1>c. Owner(cur) \in App
  BY <1>a, <1>b DEF IInv, FlightShape, Calls
<1>d. rpc_queue \in Seq(Msg) /\ IsInjective(rpc_queue)
  BY DEF IInv, TypeOK, StackShape
<1>e. /\ rpc_queue' \in Seq(Msg) /\ IsInjective(rpc_queue')
      /\ InQueue' = InQueue \cup {cur}
  BY <1>a, <1>b, <1>d, AppendFacts DEF InQueue
<1>f. /\ \A x \in Msg : ~AtStack(x)'
      /\ \A x \in Msg : InFlight(x)' <=> InFlight(x)
      /\ \A u \in Thread : InPool(u)' = InPool(u)
  BY <1>a, <1>b, <1>e DEF AtStack, InFlight, InPool
<1>g. \A u \in Thread : SendsUnderWay(u)' = SendsUnderWay(u)
  <2> SUFFICES ASSUME NEW u \in Thread, NEW x \in Msg
               PROVE  x \in SendsUnderWay(u)' <=> x \in SendsUnderWay(u)
    BY DEF SendsUnderWay
  <2>1. /\ (\E i \in DOMAIN rpc_queue : rpc_queue[i] = x) <=> x \in InQueue
        /\ (\E i \in DOMAIN rpc_queue' : rpc_queue'[i] = x) <=> x \in InQueue'
    BY DEF InQueue, ToSet
  <2> QED
    BY <2>1, <1>a, <1>b, <1>e DEF SendsUnderWay
<1>1. TypeOK'
  BY <1>a, <1>e DEF IInv, TypeOK
<1>2. ASSUME NEW u \in Thread PROVE PoolShape(u)' /\ CallerShape(u)'
  BY <1>a, <1>f DEF IInv, PoolShape, CallerShape
<1>3. ASSUME NEW x \in Msg PROVE FlightShape(x)'
  BY <1>a, <1>f DEF IInv, FlightShape
<1>4. StackShape'
  BY <1>a, <1>b, <1>e, <1>f DEF IInv, StackShape
<1>5. PassedShape'
  BY <1>a, <1>c, <1>e DEF PassedShape
<1>6. ASSUME NEW u \in App PROVE Accounted(u)'
  BY <1>a, <1>f, <1>g DEF IInv, Accounted, Thread
<1> QED
  BY <1>1, <1>2, <1>3, <1>4, <1>5, <1>6 DEF IInv

(* poll_rpc_msg reads msg->func: of a message given away, still "send". *)
LEMMA CheckFuncKeeps ==
  ASSUME IInv, CheckFunc
  PROVE  IInv'
<1>a. /\ stack_pc = "check"
      /\ \/ func[cur] = "send" /\ stack_pc' = "pop" /\ cur' = NoMsg
         \/ func[cur] # "send" /\ stack_pc' = "finish" /\ cur' = cur
      /\ UNCHANGED <<pool, func, self_release, lock, handled, rpc_queue, pc, msg, call>>
  BY DEF CheckFunc, fields, callVars
<1>b. /\ InQueue' = InQueue /\ ~PassedOn'
      /\ \A u \in Thread : InPool(u)' = InPool(u)
      /\ \A x \in Msg : (AtStack(x)' <=> AtStack(x)) /\ (InFlight(x)' <=> InFlight(x))
      /\ \A u \in Thread : SendsUnderWay(u)' = SendsUnderWay(u)
  BY <1>a DEF InQueue, InPool, PassedOn, AtStack, InFlight, SendsUnderWay
<1>1. TypeOK'
  BY <1>a DEF IInv, TypeOK
<1>2. ASSUME NEW u \in Thread PROVE PoolShape(u)' /\ CallerShape(u)'
  BY <1>a, <1>b DEF IInv, PoolShape, CallerShape
<1>3. ASSUME NEW x \in Msg PROVE FlightShape(x)'
  BY <1>a, <1>b DEF IInv, FlightShape
<1>4. StackShape'
  BY <1>a, <1>b DEF IInv, StackShape
<1>5. PassedShape'
  BY <1>b DEF PassedShape
<1>6. ASSUME NEW u \in App PROVE Accounted(u)'
  BY <1>a, <1>b DEF IInv, Accounted, Thread
<1> QED
  BY <1>1, <1>2, <1>3, <1>4, <1>5, <1>6 DEF IInv

(* poll_rpc_msg unlocks the caller that waits, or frees what nobody waits for. *)
LEMMA FinishKeeps ==
  ASSUME IInv, Finish
  PROVE  IInv'
<1>o. PICK o : o = Owner(cur)
  OBVIOUS
<1>a. /\ stack_pc = "finish" /\ stack_pc' = "pop" /\ cur' = NoMsg
      /\ UNCHANGED <<func, rpc_queue, pc, msg, call>>
      /\ \/ /\ self_release[cur] = 1 /\ lock' = [lock EXCEPT ![cur] = 0]
            /\ UNCHANGED <<pool, self_release, handled>>
         \/ self_release[cur] # 1 /\ Free(cur) /\ lock' = lock
  BY DEF Finish, callVars
<1>b. /\ cur \in Msg /\ AtStack(cur) /\ InFlight(cur) /\ cur \notin InQueue
      /\ func[cur] # "send" /\ handled[cur]
  BY <1>a DEF IInv, StackShape, AtStack, InFlight
<1>c. /\ o \in Thread /\ cur \notin InPool(o)
      /\ func[cur] \in Calls(o)
      /\ func[cur] = "sync" => pc[o] = "wait" /\ msg[o] = cur /\ self_release[cur] = 1
      /\ func[cur] # "sync" => self_release[cur] = 0
  BY <1>b, <1>o, MsgParts DEF IInv, FlightShape, PoolShape
<1>d. /\ InQueue' = InQueue /\ ~PassedOn'
      /\ \A x \in Msg : ~AtStack(x)'
      /\ \A x \in Msg : InFlight(x)' <=> InFlight(x) /\ x # cur
  BY <1>a, <1>b DEF InQueue, PassedOn, AtStack, InFlight
<1>e. \A u \in Thread : SendsUnderWay(u)' = SendsUnderWay(u)
  BY <1>a DEF SendsUnderWay
<1>f. \A x \in Msg \ {cur} : InFlight(x) => FlightShape(x)
  BY DEF IInv
<1>1. CASE func[cur] = "sync"
  <2>a. /\ lock' = [lock EXCEPT ![cur] = 0] /\ UNCHANGED <<pool, self_release, handled>>
    BY <1>1, <1>a, <1>c
  <2>b. \A u \in Thread : InPool(u)' = InPool(u)
    BY <2>a DEF InPool
  <2>1. TypeOK'
    BY <2>a, <1>a DEF IInv, TypeOK
  <2>2. ASSUME NEW u \in Thread PROVE PoolShape(u)'
    BY <2>a, <2>b, <1>d DEF IInv, PoolShape
  <2>3. ASSUME NEW u \in Thread PROVE CallerShape(u)'
    <3>1. CallerShape(u) /\ lock \in [Msg -> {0, 1}]
      BY DEF IInv, TypeOK
    <3>2. pc[u] # "idle" /\ msg[u] = cur => handled[msg[u]] /\ ~InFlight(msg[u])'
      BY <1>a, <1>b, <1>d
    <3> QED
      BY <3>1, <3>2, <2>a, <2>b, <1>a, <1>b, <1>d DEF CallerShape
  <2>4. ASSUME NEW x \in Msg PROVE FlightShape(x)'
    BY <2>a, <1>a, <1>b, <1>d DEF IInv, TypeOK, FlightShape
  <2>5. StackShape'
    BY <1>a DEF IInv, StackShape
  <2>6. ASSUME NEW u \in App PROVE Accounted(u)'
    BY <2>b, <1>a, <1>e DEF IInv, Accounted, Thread
  <2> QED
    BY <2>1, <2>2, <2>3, <2>4, <2>5, <2>6, <1>d DEF IInv, PassedShape
<1>2. CASE func[cur] # "sync"
  <2>a. Free(cur) /\ lock' = lock
    BY <1>2, <1>a, <1>c
  <2>b. /\ pool' \in [Thread -> Seq(Msg)]
        /\ self_release' \in [Msg -> {0, 1}] /\ handled' \in [Msg -> BOOLEAN]
        /\ InPool(o)' = InPool(o) \cup {cur} /\ IsInjective(pool'[o])
        /\ \A u \in Thread \ {o} : pool'[u] = pool[u] /\ InPool(u)' = InPool(u)
        /\ \A x \in Msg \ {cur} : /\ self_release'[x] = self_release[x]
                                  /\ handled'[x] = handled[x]
    BY <2>a, <1>b, <1>c, <1>o, FreeFacts
  <2>c. \A u \in Thread : pc[u] # "idle" => msg[u] \in Msg /\ msg[u] # cur
    BY <1>2, <1>b DEF IInv, CallerShape
  <2>1. TypeOK'
    BY <2>a, <2>b, <1>a DEF IInv, TypeOK
  <2>2. ASSUME NEW u \in Thread PROVE PoolShape(u)'
    <3>1. PoolShape(u)
      BY DEF IInv
    <3>2. CASE u = o
      BY <3>1, <3>2, <2>b, <1>b, <1>d, <1>o DEF PoolShape
    <3>3. CASE u # o
      BY <3>1, <3>3, <2>b, <1>d DEF PoolShape
    <3> QED
      BY <3>2, <3>3
  <2>3. ASSUME NEW u \in Thread PROVE CallerShape(u)'
    <3>1. CallerShape(u) /\ (InPool(u)' \ {cur} \subseteq InPool(u))
      BY <2>b DEF IInv
    <3> QED
      BY <3>1, <2>a, <2>b, <2>c, <1>a, <1>d DEF CallerShape
  <2>4. ASSUME NEW x \in Msg PROVE FlightShape(x)'
    BY <2>a, <2>b, <1>a, <1>d DEF IInv, FlightShape
  <2>5. StackShape'
    BY <1>a DEF IInv, StackShape
  <2>6. ASSUME NEW u \in App PROVE Accounted(u)'
    <3>1. Accounted(u) /\ u \in Thread /\ InPool(u) \subseteq InPool(u)'
      BY <2>b DEF IInv, Thread
    <3>2. SendsUnderWay(u)' = SendsUnderWay(u)
      BY <3>1, <1>e
    <3> QED
      BY <3>1, <3>2, <1>a DEF Accounted
  <2> QED
    BY <2>1, <2>2, <2>3, <2>4, <2>5, <2>6, <1>d DEF IInv, PassedShape
<1> QED
  BY <1>1, <1>2

-----------------------------------------------------------------------------
(* Every message is in its pool at first. *)
LEMMA InitInv == Init => IInv
<1> SUFFICES ASSUME Init PROVE IInv
  OBVIOUS
<1>a. ASSUME NEW t \in Thread
      PROVE  LET n == IF t \in App THEN AppPool ELSE PeerPool IN
             /\ n \in Nat /\ pool[t] = [i \in 1..n |-> <<t, i>>]
             /\ \A i \in 1..n : <<t, i>> \in Msg
  BY RpcAssumption DEF Init, Thread, Msg
<1>b. ASSUME NEW t \in Thread PROVE pool[t] \in Seq(Msg)
  <2>1. PICK n \in Nat : /\ pool[t] = [i \in 1..n |-> <<t, i>>]
                         /\ \A i \in 1..n : <<t, i>> \in Msg
    BY <1>a
  <2> QED
    BY <2>1
<1>c. InQueue = {} /\ \A x \in Msg : ~AtStack(x) /\ ~InFlight(x)
  BY DEF Init, InQueue, ToSet, AtStack, InFlight
<1>d. \A t \in App : SendsUnderWay(t) = {}
  BY DEF Init, SendsUnderWay
<1>1. TypeOK
  BY <1>b DEF Init, TypeOK, Func
<1>2. ASSUME NEW t \in Thread PROVE PoolShape(t)
  <2>a. PICK n \in Nat : /\ pool[t] = [i \in 1..n |-> <<t, i>>]
                         /\ \A i \in 1..n : <<t, i>> \in Msg
    BY <1>a
  <2>1. IsInjective(pool[t])
    BY <2>a DEF IsInjective
  <2>2. ASSUME NEW m \in InPool(t) PROVE m \in Msg /\ Owner(m) = t
    BY <2>a DEF InPool, ToSet, Owner
  <2> QED
    BY <2>1, <2>2, <1>c DEF PoolShape
<1>3. \A t \in Thread : CallerShape(t)
  BY DEF Init, CallerShape
<1>4. \A m \in Msg : FlightShape(m)
  BY <1>c DEF FlightShape
<1>5. StackShape /\ PassedShape
  BY DEF Init, StackShape, PassedShape, PassedOn, IsInjective
<1>6. ASSUME NEW t \in App PROVE Accounted(t)
  <2>1. ASSUME NEW m \in Msg, Owner(m) = t PROVE m \in InPool(t)
    <3>1. PICK i \in 1..AppPool : m = <<t, i>>
      BY <2>1, MsgParts
    <3>2. t \in Thread /\ i \in DOMAIN pool[t] /\ pool[t][i] = m
      BY <3>1, <1>a DEF Thread
    <3> QED
      BY <3>2 DEF InPool, ToSet
  <2>2. Cardinality(SendsUnderWay(t)) = 0
    BY <1>d, FS_EmptySet
  <2> QED
    BY <2>1, <2>2, RpcAssumption DEF Accounted, Init, Thread
<1> QED
  BY <1>1, <1>2, <1>3, <1>4, <1>5, <1>6 DEF IInv

(* Every step keeps the invariant, if the pools are large enough. *)
LEMMA StepInv ==
  ASSUME AppPool >= SendLimit + 3
  PROVE  IInv /\ [Next]_vars => IInv'
<1> SUFFICES ASSUME IInv, [Next]_vars PROVE IInv'
  OBVIOUS
<1>1. CASE \E t \in Thread, f \in Func : Get(t, f)
  BY <1>1, GetKeeps
<1>2. CASE \E t \in Thread : CallerStep(t)
  BY <1>2, SetFuncKeeps, SetReleaseKeeps, TryLockKeeps, PushKeeps, WaitKeeps,
     ReturnKeeps
  DEF CallerStep
<1>3. CASE StackStep
  BY <1>3, PopKeeps, HandleKeeps, SendFreeKeeps, SendRepostKeeps, CheckFuncKeeps,
     FinishKeeps
  DEF StackStep
<1>4. CASE UNCHANGED vars
  <2>a. UNCHANGED <<pool, func, self_release, lock, handled, rpc_queue, pc, msg,
                    call, stack_pc, cur>>
    BY <1>4 DEF vars
  <2>b. /\ InQueue' = InQueue /\ (PassedOn' <=> PassedOn)
        /\ \A t : InPool(t)' = InPool(t)
        /\ \A m : (AtStack(m)' <=> AtStack(m)) /\ (InFlight(m)' <=> InFlight(m))
        /\ \A t : (MayReturn(t)' <=> MayReturn(t))
                 /\ SendsUnderWay(t)' = SendsUnderWay(t)
    BY <2>a DEF InQueue, PassedOn, InPool, AtStack, InFlight, MayReturn,
       SendsUnderWay
  <2>1. TypeOK' /\ StackShape'
    BY <2>a, <2>b DEF IInv, TypeOK, StackShape
  <2>2. PassedShape'
    BY <2>a, <2>b DEF IInv, PassedShape
  <2>3. ASSUME NEW t \in Thread PROVE PoolShape(t)' /\ CallerShape(t)'
    BY <2>a, <2>b DEF IInv, PoolShape, CallerShape
  <2>4. ASSUME NEW m \in Msg PROVE FlightShape(m)'
    BY <2>a, <2>b DEF IInv, FlightShape
  <2>5. ASSUME NEW t \in App PROVE Accounted(t)'
    BY <2>a, <2>b DEF IInv, Accounted
  <2> QED
    BY <2>1, <2>2, <2>3, <2>4, <2>5 DEF IInv
<1> QED
  BY <1>1, <1>2, <1>3, <1>4 DEF Next

(* The inductive invariant holds in every reachable state. *)
THEOREM Invariant ==
  ASSUME AppPool >= SendLimit + 3
  PROVE  Spec => []IInv
  BY InitInv, StepInv, PTL DEF Spec

(* The types: in particular rpc_msg_free never takes self_release below 0. *)
THEOREM TypeCorrect ==
  ASSUME AppPool >= SendLimit + 3
  PROVE  Spec => []TypeOK
<1>1. IInv => TypeOK
  BY DEF IInv
<1> QED
  BY <1>1, Invariant, PTL

(* For any number of threads: a synchronous caller reads the result of its  *)
(* own call, if its pool has three messages more than it can have sends     *)
(* under way.                                                               *)
THEOREM SyncCallProcessedCorrect ==
  ASSUME AppPool >= SendLimit + 3
  PROVE  Spec => []SyncCallProcessed
<1>1. IInv => SyncCallProcessed
  BY DEF IInv, CallerShape, SyncCallProcessed
<1> QED
  BY <1>1, Invariant, PTL

(* Under the same condition a message that was freed is in its pool once,   *)
(* and neither queued nor with a caller nor with a handler, although        *)
(* poll_rpc_msg reads msg->func after stack_send has freed the message.     *)
THEOREM NoUseAfterFreeCorrect ==
  ASSUME AppPool >= SendLimit + 3
  PROVE  Spec => []NoUseAfterFree
<1>1. IInv => NoUseAfterFree
  <2> SUFFICES ASSUME IInv, NEW t \in Thread, NEW i \in DOMAIN pool[t]
               PROVE  /\ Owner(pool[t][i]) = t
                      /\ pool[t][i] \notin ToSet(rpc_queue)
                      /\ pc[t] = "idle" \/ msg[t] # pool[t][i]
                      /\ stack_pc \in {"handle", "finish"} => cur # pool[t][i]
    BY DEF IInv, PoolShape, NoUseAfterFree
  <2>1. pool[t][i] \in InPool(t)
    BY DEF InPool, ToSet
  <2>2. Owner(pool[t][i]) = t /\ ~InFlight(pool[t][i])
    BY <2>1 DEF IInv, PoolShape
  <2> QED
    BY <2>1, <2>2 DEF IInv, CallerShape, InFlight, InQueue, AtStack
<1> QED
  BY <1>1, Invariant, PTL

(* Under the same condition no message is queued twice, or queued while its *)
(* sender fills it in.                                                      *)
THEOREM QueuedOnceCorrect ==
  ASSUME AppPool >= SendLimit + 3
  PROVE  Spec => []QueuedOnce
<1>1. IInv => QueuedOnce
  <2> SUFFICES ASSUME IInv, NEW t \in Thread,
                      pc[t] \in {"func", "release", "trylock", "push", "return"}
               PROVE  /\ msg[t] \notin ToSet(rpc_queue)
                      /\ stack_pc = "pop" \/ cur # msg[t]
    BY DEF IInv, StackShape, QueuedOnce
  <2> QED
    BY HeldApart DEF InFlight, InQueue
<1> QED
  BY <1>1, Invariant, PTL
=============================================================================
