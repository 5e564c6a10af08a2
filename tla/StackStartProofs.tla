--------------------------- MODULE StackStartProofs ---------------------------
(***************************************************************************)
(* StackStart for any number of stacks.  wait_sem_value sees sums only;    *)
(* the argument counts who has posted.  As long as main waits, the value   *)
(* of thread_phase1 is the number of stack threads that have made their    *)
(* last post plus the number of those whose second post, by the kernel     *)
(* event thread or in its place, has been made.  Each is at most N, so the *)
(* sum is 2 * N only when everybody has posted.  all_init is the number of *)
(* stack threads that poll or have ended.                                  *)
(***************************************************************************)
EXTENDS StackStart, FiniteSetTheorems, TLAPS

Done == {i \in Stack : pc[i] \in {"polling", "ended"}}

FirstPosts ==
  {i \in Stack : pc[i] \in {"ethdev", "netif", "up", "polling", "free",
                            "failed", "down", "ended"}}

SecondPosts ==
  {i \in Stack :
     \/ kernel_pc[i] = "waiting"
     \/ /\ kernel_pc[i] = "none"
        /\ pc[i] \in {"end1", "free", "failed", "down", "ended"}}

Waiting == main \in {"pools", "create", "phase1"}
Passed  == main \notin {"pools", "create", "phase1", "exited"}

(* What the place of a stack thread says of the rest. *)
StackShape(i) ==
  /\ i >= created => pc[i] = "none"
  /\ pc[i] \in {"none", "start", "init", "affiliate"} => kernel_pc[i] = "none"
  /\ pc[i] = "affiliate" => stacks[i] = "live"
  /\ pc[i] \in {"setup", "post", "ethdev", "netif", "up", "polling"}
     => stacks[i] = "live" /\ kernel_pc[i] # "none"
  /\ pc[i] = "end2" /\ "third" \notin rare => kernel_pc[i] = "none"
  /\ pc[i] \in {"down", "ended"} => g_init_fail
  /\ ~use_ltran /\ pc[i] \in {"netif", "up", "polling"} => ethdev_init >= 1

(* What the place of the main thread says of the rest. *)
MainShape ==
  /\ main = "pools" => created = 0
  /\ main = "create" => created < N
  /\ main \in {"pools", "create", "phase1", "free", "listen", "check_fail",
               "ethdev"} => ethdev_init = 0
  /\ main \in {"check_all", "serving"} => Done = Stack
  /\ main = "serving" => \A i \in Stack : pc[i] = "polling"

Counted ==
  /\ all_init = Cardinality(Done)
  /\ Waiting /\ "third" \notin rare
     => thread_phase1 = Cardinality(FirstPosts) + Cardinality(SecondPosts)

(* Once main has passed the wait, everybody is past its posts. *)
Settled ==
  Passed /\ "third" \notin rare =>
    \A i \in Stack :
      /\ pc[i] \in {"ethdev", "netif", "up", "polling", "end1", "free",
                    "failed", "down", "ended"}
      /\ kernel_pc[i] \in {"none", "waiting"}

IInv ==
  /\ TypeOK
  /\ \A i \in Stack : StackShape(i)
  /\ MainShape
  /\ Counted
  /\ Settled
  /\ ParamsIntact
  /\ ExitAfterPools

-----------------------------------------------------------------------------
(* There are N stacks, finitely many. *)
LEMMA StackCount == IsFiniteSet(Stack) /\ Cardinality(Stack) = N
  BY NAssumption, FS_Interval DEF Stack

(* One more stack in a set of stacks. *)
LEMMA CountOne ==
  ASSUME NEW S, S \subseteq Stack, NEW i \in Stack, i \notin S
  PROVE  Cardinality(S \cup {i}) = Cardinality(S) + 1
<1>1. IsFiniteSet(S)
  BY StackCount, FS_Subset
<1> QED
  BY <1>1, FS_AddElement

(* A set of stacks has at most N, and N only if it has them all. *)
LEMMA CountBound ==
  ASSUME NEW S, S \subseteq Stack
  PROVE  /\ Cardinality(S) \in 0..N
         /\ Cardinality(S) = N => S = Stack
<1>1. IsFiniteSet(S)
  BY StackCount, FS_Subset
<1>2. Cardinality(S) <= Cardinality(Stack) /\ Cardinality(S) \in Nat
  BY <1>1, StackCount, FS_Subset, FS_CardinalityType
<1>3. Cardinality(S) = Cardinality(Stack) => S = Stack
  BY StackCount, FS_Subset
<1> QED
  BY <1>2, <1>3, StackCount, NAssumption

(* The three counts are between 0 and N. *)
LEMMA CountsBounded ==
  /\ Cardinality(Done) \in 0..N
  /\ Cardinality(FirstPosts) \in 0..N
  /\ Cardinality(SecondPosts) \in 0..N
  /\ Cardinality(Done) = N => Done = Stack
  /\ Cardinality(FirstPosts) = N => FirstPosts = Stack
  /\ Cardinality(SecondPosts) = N => SecondPosts = Stack
<1>1. Done \subseteq Stack /\ FirstPosts \subseteq Stack
      /\ SecondPosts \subseteq Stack
  BY DEF Done, FirstPosts, SecondPosts
<1> QED
  BY <1>1, CountBound

(* Only CreateStack of the steps of main touches the threads. *)
LEMMA MainQuiet ==
  ASSUME MainStep, ~CreateStack
  PROVE  UNCHANGED <<use_ltran, is_primary, rare, created, thread_phase1,
                     all_init, g_init_fail, stacks, pc, kernel_pc>>
  BY DEF MainStep, CreatePools, CreateStackFails, WaitPhase1, FreeParams, WaitListener, CheckInitFail, InitDpdkEthdev, InitDpdkEthdevFails, WaitAllInit, Serve, GiveUp, config, sems

(* A stack thread moves itself, while main has not exited. *)
LEMMA StackMoves ==
  ASSUME NEW i \in Stack, StackStep(i)
  PROVE  /\ main # "exited"
         /\ UNCHANGED <<use_ltran, is_primary, rare, main, created, t_params,
                        listener, ethdev_init>>
         /\ \E to : pc' = [pc EXCEPT ![i] = to]
  BY DEF StackStep, AllocStack, InitStackValue, CreateAffiliateThread, CreateAffiliateFails, SetUp, PostPhase1, WaitEthdev, EthdevInit, EthdevInitFails, End2, End1, FreeStack, SetInitFail, PostAllInit, Go, config,
         mainVars, sems

(* What a step of stack thread i does to the counts. *)
LEMMA StackCounts ==
  ASSUME IInv, NEW i \in Stack, StackStep(i)
  PROVE  Counted'
<1> USE DEF Go, config, mainVars, sems, Done, FirstPosts, SecondPosts
<1>1. /\ pc = [j \in Stack |-> pc[j]]
      /\ kernel_pc = [j \in Stack |-> kernel_pc[j]]
      /\ thread_phase1 \in Nat /\ all_init \in Nat
  BY DEF IInv, TypeOK
<1>2. StackShape(i) /\ MainShape /\ Counted
  BY DEF IInv
<1>3. rare' = rare /\ main' = main
  BY StackMoves
<1>4. CASE AllocStack(i)
  <2>1. Done' = Done /\ FirstPosts' = FirstPosts /\ SecondPosts' = SecondPosts
    BY <1>4, <1>1, <1>2 DEF AllocStack, StackShape
  <2>2. thread_phase1' = thread_phase1 /\ all_init' = all_init
    BY <1>4 DEF AllocStack
  <2> QED
    BY <2>1, <2>2, <1>2, <1>3 DEF Counted, Waiting
<1>5. CASE InitStackValue(i)
  <2>1. Done' = Done /\ FirstPosts' = FirstPosts /\ SecondPosts' = SecondPosts
    BY <1>5, <1>1, <1>2 DEF InitStackValue, StackShape
  <2>2. thread_phase1' = thread_phase1 /\ all_init' = all_init
    BY <1>5 DEF InitStackValue
  <2> QED
    BY <2>1, <2>2, <1>2, <1>3 DEF Counted, Waiting
<1>6. CASE CreateAffiliateThread(i)
  <2>1. Done' = Done /\ FirstPosts' = FirstPosts /\ SecondPosts' = SecondPosts
    BY <1>6, <1>1, <1>2 DEF CreateAffiliateThread, StackShape
  <2>2. thread_phase1' = thread_phase1 /\ all_init' = all_init
    BY <1>6 DEF CreateAffiliateThread
  <2> QED
    BY <2>1, <2>2, <1>2, <1>3 DEF Counted, Waiting
<1>7. CASE CreateAffiliateFails(i)
  <2>1. Done' = Done /\ FirstPosts' = FirstPosts /\ SecondPosts' = SecondPosts
    BY <1>7, <1>1, <1>2 DEF CreateAffiliateFails, StackShape
  <2>2. thread_phase1' = thread_phase1 /\ all_init' = all_init
    BY <1>7 DEF CreateAffiliateFails
  <2> QED
    BY <2>1, <2>2, <1>2, <1>3 DEF Counted, Waiting
<1>8. CASE SetUp(i)
  <2>1. Done' = Done /\ FirstPosts' = FirstPosts /\ SecondPosts' = SecondPosts
    BY <1>8, <1>1, <1>2 DEF SetUp, StackShape
  <2>2. thread_phase1' = thread_phase1 /\ all_init' = all_init
    BY <1>8 DEF SetUp
  <2> QED
    BY <2>1, <2>2, <1>2, <1>3 DEF Counted, Waiting
<1>9. CASE WaitEthdev(i)
  <2>1. Done' = Done /\ FirstPosts' = FirstPosts /\ SecondPosts' = SecondPosts
    BY <1>9, <1>1, <1>2 DEF WaitEthdev, StackShape
  <2>2. thread_phase1' = thread_phase1 /\ all_init' = all_init
    BY <1>9 DEF WaitEthdev
  <2> QED
    BY <2>1, <2>2, <1>2, <1>3 DEF Counted, Waiting
<1>10. CASE EthdevInit(i)
  <2>1. Done' = Done /\ FirstPosts' = FirstPosts /\ SecondPosts' = SecondPosts
    BY <1>10, <1>1, <1>2 DEF EthdevInit, StackShape
  <2>2. thread_phase1' = thread_phase1 /\ all_init' = all_init
    BY <1>10 DEF EthdevInit
  <2> QED
    BY <2>1, <2>2, <1>2, <1>3 DEF Counted, Waiting
<1>11. CASE FreeStack(i)
  <2>1. Done' = Done /\ FirstPosts' = FirstPosts /\ SecondPosts' = SecondPosts
    BY <1>11, <1>1, <1>2 DEF FreeStack, StackShape
  <2>2. thread_phase1' = thread_phase1 /\ all_init' = all_init
    BY <1>11 DEF FreeStack
  <2> QED
    BY <2>1, <2>2, <1>2, <1>3 DEF Counted, Waiting
<1>12. CASE SetInitFail(i)
  <2>1. Done' = Done /\ FirstPosts' = FirstPosts /\ SecondPosts' = SecondPosts
    BY <1>12, <1>1, <1>2 DEF SetInitFail, StackShape
  <2>2. thread_phase1' = thread_phase1 /\ all_init' = all_init
    BY <1>12 DEF SetInitFail
  <2> QED
    BY <2>1, <2>2, <1>2, <1>3 DEF Counted, Waiting
<1>13. CASE PostPhase1(i)
  <2>1. /\ Done' = Done
        /\ i \notin FirstPosts /\ FirstPosts' = FirstPosts \cup {i}
        /\ SecondPosts' = SecondPosts
    BY <1>13, <1>1, <1>2 DEF PostPhase1, StackShape
  <2>2. thread_phase1' = thread_phase1 + 1 /\ all_init' = all_init
    BY <1>13 DEF PostPhase1
  <2>3. Cardinality(FirstPosts') = Cardinality(FirstPosts) + 1
    BY <2>1, CountOne
  <2> QED
    BY <2>1, <2>2, <2>3, <1>2, <1>3, CountsBounded DEF Counted, Waiting
<1>14. CASE EthdevInitFails(i)
  <2>1. Done' = Done /\ all_init' = all_init
    BY <1>14, <1>1 DEF EthdevInitFails
  <2>2. ~(Waiting /\ "third" \notin rare)
    BY <1>14, <1>2 DEF EthdevInitFails, StackShape, MainShape, Waiting
  <2> QED
    BY <2>1, <2>2, <1>2, <1>3 DEF Counted, Waiting
<1>15. CASE End2(i)
  <2>1. Done' = Done /\ FirstPosts' = FirstPosts
    BY <1>15, <1>1 DEF End2
  <2>2. thread_phase1' = thread_phase1 + 1 /\ all_init' = all_init
    BY <1>15 DEF End2
  <2>3. CASE "third" \in rare
    BY <2>1, <2>2, <2>3, <1>2, <1>3 DEF Counted
  <2>4. CASE "third" \notin rare
    <3>1. i \notin SecondPosts /\ SecondPosts' = SecondPosts \cup {i}
      BY <1>15, <1>1, <1>2, <2>4 DEF End2, StackShape
    <3>2. Cardinality(SecondPosts') = Cardinality(SecondPosts) + 1
      BY <3>1, CountOne
    <3>3. Waiting' = Waiting
      BY <1>3 DEF Waiting
    <3>4. Waiting => thread_phase1 = Cardinality(FirstPosts)
                                     + Cardinality(SecondPosts)
      BY <1>2, <2>4 DEF Counted
    <3> HIDE DEF Done, FirstPosts, SecondPosts
    <3>5. Waiting => thread_phase1' = Cardinality(FirstPosts')
                                      + Cardinality(SecondPosts')
      BY <2>1, <2>2, <3>2, <3>4, CountsBounded
    <3>6. all_init' = Cardinality(Done')
      BY <2>1, <2>2, <1>2 DEF Counted
    <3> QED
      BY <3>3, <3>5, <3>6 DEF Counted
  <2> QED
    BY <2>3, <2>4
<1>16. CASE End1(i)
  <2>1. /\ Done' = Done
        /\ i \notin FirstPosts /\ FirstPosts' = FirstPosts \cup {i}
        /\ SecondPosts' = SecondPosts
    BY <1>16, <1>1 DEF End1
  <2>2. thread_phase1' = thread_phase1 + 1 /\ all_init' = all_init
    BY <1>16 DEF End1
  <2>3. Cardinality(FirstPosts') = Cardinality(FirstPosts) + 1
    BY <2>1, CountOne
  <2> QED
    BY <2>1, <2>2, <2>3, <1>2, <1>3, CountsBounded DEF Counted, Waiting
<1>17. CASE PostAllInit(i)
  <2>1. /\ i \notin Done /\ Done' = Done \cup {i}
        /\ FirstPosts' = FirstPosts /\ SecondPosts' = SecondPosts
    BY <1>17, <1>1, <1>2 DEF PostAllInit, StackShape
  <2>2. thread_phase1' = thread_phase1 /\ all_init' = all_init + 1
    BY <1>17 DEF PostAllInit
  <2>3. Cardinality(Done') = Cardinality(Done) + 1
    BY <2>1, CountOne
  <2> QED
    BY <2>1, <2>2, <2>3, <1>2, <1>3 DEF Counted, Waiting
<1> QED
  BY <1>4, <1>5, <1>6, <1>7, <1>8, <1>9, <1>10, <1>11, <1>12, <1>13,
     <1>14, <1>15, <1>16, <1>17 DEF StackStep

(* The counts stay true: main never starts to wait again, and a new stack   *)
(* thread, like one of the other threads, has posted nothing.               *)
LEMMA CountInd ==
  ASSUME IInv, [Next]_vars
  PROVE  Counted'
<1>1. /\ pc = [j \in Stack |-> pc[j]]
      /\ kernel_pc = [j \in Stack |-> kernel_pc[j]]
      /\ thread_phase1 \in Nat /\ all_init \in Nat
  BY DEF IInv, TypeOK
<1>2. Counted /\ MainShape /\ \A i \in Stack : StackShape(i)
  BY DEF IInv
<1>3. CASE MainStep /\ ~CreateStack
  <2>1. Done' = Done /\ FirstPosts' = FirstPosts /\ SecondPosts' = SecondPosts
    BY <1>3, MainQuiet DEF Done, FirstPosts, SecondPosts
  <2>2. Waiting' => Waiting
    BY <1>3 DEF MainStep, CreatePools, CreateStackFails, WaitPhase1, FreeParams,
               WaitListener, CheckInitFail, InitDpdkEthdev, InitDpdkEthdevFails,
               WaitAllInit, Serve, GiveUp, GoTo, Waiting
  <2> QED
    BY <2>1, <2>2, <1>2, <1>3, MainQuiet DEF Counted
<1>4. CASE CreateStack
  <2>1. created \in Stack /\ pc[created] = "none"
    BY <1>2, <1>4, NAssumption
    DEF CreateStack, GoTo, MainShape, StackShape, Stack, IInv, TypeOK
  <2>2. Done' = Done /\ FirstPosts' = FirstPosts /\ SecondPosts' = SecondPosts
    BY <1>1, <1>2, <1>4, <2>1
    DEF CreateStack, StackShape, Done, FirstPosts, SecondPosts
  <2>3. Waiting
    BY <1>4 DEF CreateStack, GoTo, Waiting
  <2> QED
    BY <2>2, <2>3, <1>2, <1>4 DEF CreateStack, Counted, config, sems
<1>5. CASE Listen \/ UNCHANGED vars
  BY <1>2, <1>5 DEF Listen, Counted, Waiting, Done, FirstPosts, SecondPosts,
                    config, sems, vars
<1>6. ASSUME NEW i \in Stack, StackStep(i) PROVE Counted'
  BY <1>6, StackCounts
<1>7. ASSUME NEW i \in Stack, KernelReadParams(i) PROVE Counted'
  <2>1. Done' = Done /\ FirstPosts' = FirstPosts /\ SecondPosts' = SecondPosts
    BY <1>1, <1>7 DEF KernelReadParams, Done, FirstPosts, SecondPosts
  <2> QED
    BY <2>1, <1>2, <1>7
    DEF KernelReadParams, Counted, Waiting, config, mainVars, sems
<1>8. ASSUME NEW i \in Stack, KernelPost(i) PROVE Counted'
  <2>1. Done' = Done /\ FirstPosts' = FirstPosts
    BY <1>8 DEF KernelPost, Done, FirstPosts
  <2>2. i \notin SecondPosts /\ SecondPosts' = SecondPosts \cup {i}
    BY <1>1, <1>8 DEF KernelPost, SecondPosts
  <2>3. Cardinality(SecondPosts') = Cardinality(SecondPosts) + 1
    BY <2>2, CountOne DEF SecondPosts
  <2>4. /\ thread_phase1' = thread_phase1 + 1 /\ all_init' = all_init
        /\ rare' = rare /\ Waiting' = Waiting
    BY <1>8 DEF KernelPost, Waiting, config, mainVars
  <2> QED
    BY <2>1, <2>3, <2>4, <1>2, CountsBounded DEF Counted
<1> QED
  BY <1>3, <1>4, <1>5, <1>6, <1>7, <1>8 DEF Next, KernelStep

(* Types: all_init is at most N because it counts stacks. *)
LEMMA TypeInd ==
  ASSUME IInv, [Next]_vars, Counted'
  PROVE  TypeOK'
<1> USE NAssumption DEF Stack
<1>1. TypeOK /\ MainShape
  BY DEF IInv
<1>2. all_init' \in 0..N
  <2>1. Done' \subseteq Stack
    BY DEF Done
  <2> QED
    BY <2>1, CountBound DEF Counted
<1>3. CASE MainStep
  <2>1. CASE CreatePools
    BY <1>1, <1>2, <2>1 DEF CreatePools, GoTo, TypeOK, MainShape, config, sems
  <2>2. CASE CreateStackFails
    BY <1>1, <1>2, <2>2 DEF CreateStackFails, GoTo, TypeOK, MainShape, config, sems
  <2>3. CASE WaitPhase1
    BY <1>1, <1>2, <2>3 DEF WaitPhase1, GoTo, TypeOK, MainShape, config, sems
  <2>4. CASE FreeParams
    BY <1>1, <1>2, <2>4 DEF FreeParams, GoTo, TypeOK, MainShape, config, sems
  <2>5. CASE WaitListener
    BY <1>1, <1>2, <2>5 DEF WaitListener, GoTo, TypeOK, MainShape, config, sems
  <2>6. CASE CheckInitFail
    BY <1>1, <1>2, <2>6 DEF CheckInitFail, GoTo, TypeOK, MainShape, config, sems
  <2>7. CASE InitDpdkEthdev
    BY <1>1, <1>2, <2>7 DEF InitDpdkEthdev, GoTo, TypeOK, MainShape, config, sems
  <2>8. CASE InitDpdkEthdevFails
    BY <1>1, <1>2, <2>8 DEF InitDpdkEthdevFails, GoTo, TypeOK, MainShape, config, sems
  <2>9. CASE WaitAllInit
    BY <1>1, <1>2, <2>9 DEF WaitAllInit, GoTo, TypeOK, MainShape, config, sems
  <2>10. CASE Serve
    BY <1>1, <1>2, <2>10 DEF Serve, GoTo, TypeOK, MainShape, config, sems
  <2>11. CASE GiveUp
    BY <1>1, <1>2, <2>11 DEF GiveUp, GoTo, TypeOK, MainShape, config, sems
  <2>12. CASE CreateStack
    BY <1>1, <1>2, <2>12 DEF CreateStack, GoTo, TypeOK, MainShape, config, sems
  <2> QED
    BY <1>3, <2>1, <2>2, <2>3, <2>4, <2>5, <2>6, <2>7, <2>8, <2>9, <2>10, <2>11, <2>12 DEF MainStep
<1>4. ASSUME NEW i \in Stack, StackStep(i) PROVE TypeOK'
  <2>1. CASE AllocStack(i)
    BY <1>1, <1>2, <2>1 DEF AllocStack, Go, TypeOK, config, mainVars, sems
  <2>2. CASE InitStackValue(i)
    BY <1>1, <1>2, <2>2 DEF InitStackValue, Go, TypeOK, config, mainVars, sems
  <2>3. CASE CreateAffiliateThread(i)
    BY <1>1, <1>2, <2>3 DEF CreateAffiliateThread, Go, TypeOK, config, mainVars, sems
  <2>4. CASE CreateAffiliateFails(i)
    BY <1>1, <1>2, <2>4 DEF CreateAffiliateFails, Go, TypeOK, config, mainVars, sems
  <2>5. CASE SetUp(i)
    BY <1>1, <1>2, <2>5 DEF SetUp, Go, TypeOK, config, mainVars, sems
  <2>6. CASE PostPhase1(i)
    BY <1>1, <1>2, <2>6 DEF PostPhase1, Go, TypeOK, config, mainVars, sems
  <2>7. CASE WaitEthdev(i)
    BY <1>1, <1>2, <2>7 DEF WaitEthdev, Go, TypeOK, config, mainVars, sems
  <2>8. CASE EthdevInit(i)
    BY <1>1, <1>2, <2>8 DEF EthdevInit, Go, TypeOK, config, mainVars, sems
  <2>9. CASE EthdevInitFails(i)
    BY <1>1, <1>2, <2>9 DEF EthdevInitFails, Go, TypeOK, config, mainVars, sems
  <2>10. CASE End2(i)
    BY <1>1, <1>2, <2>10 DEF End2, Go, TypeOK, config, mainVars, sems
  <2>11. CASE End1(i)
    BY <1>1, <1>2, <2>11 DEF End1, Go, TypeOK, config, mainVars, sems
  <2>12. CASE FreeStack(i)
    BY <1>1, <1>2, <2>12 DEF FreeStack, Go, TypeOK, config, mainVars, sems
  <2>13. CASE SetInitFail(i)
    BY <1>1, <1>2, <2>13 DEF SetInitFail, Go, TypeOK, config, mainVars, sems
  <2>14. CASE PostAllInit(i)
    BY <1>1, <1>2, <2>14 DEF PostAllInit, Go, TypeOK, config, mainVars, sems
  <2> QED
    BY <1>4, <2>1, <2>2, <2>3, <2>4, <2>5, <2>6, <2>7, <2>8, <2>9, <2>10, <2>11, <2>12, <2>13, <2>14 DEF StackStep
<1>5. ASSUME NEW i \in Stack, KernelStep(i) PROVE TypeOK'
  BY <1>1, <1>5 DEF KernelStep, KernelReadParams, KernelPost, TypeOK, config,
                    mainVars, sems
<1>6. CASE Listen \/ UNCHANGED vars
  BY <1>1, <1>6 DEF Listen, TypeOK, config, sems, vars
<1> QED
  BY <1>3, <1>4, <1>5, <1>6 DEF Next

(* What the place of a stack thread says stays true in its own steps ... *)
LEMMA StackShapeOwn ==
  ASSUME IInv, NEW i \in Stack, StackStep(i)
  PROVE  StackShape(i)'
<1> USE DEF Go, config, mainVars, sems, StackShape
<1>1. /\ pc = [j \in Stack |-> pc[j]]
      /\ kernel_pc = [j \in Stack |-> kernel_pc[j]]
      /\ stacks = [j \in Stack |-> stacks[j]]
      /\ ethdev_init \in Nat /\ created \in Nat
  BY DEF IInv, TypeOK
<1>2. StackShape(i)
  BY DEF IInv
<1>3. i \in Nat
  BY NAssumption DEF Stack
<1>4. CASE AllocStack(i)
  BY <1>1, <1>2, <1>3, <1>4 DEF AllocStack
<1>5. CASE InitStackValue(i)
  BY <1>1, <1>2, <1>3, <1>5 DEF InitStackValue
<1>6. CASE CreateAffiliateThread(i)
  BY <1>1, <1>2, <1>3, <1>6 DEF CreateAffiliateThread
<1>7. CASE CreateAffiliateFails(i)
  BY <1>1, <1>2, <1>3, <1>7 DEF CreateAffiliateFails
<1>8. CASE SetUp(i)
  BY <1>1, <1>2, <1>3, <1>8 DEF SetUp
<1>9. CASE PostPhase1(i)
  BY <1>1, <1>2, <1>3, <1>9 DEF PostPhase1
<1>10. CASE WaitEthdev(i)
  BY <1>1, <1>2, <1>3, <1>10 DEF WaitEthdev
<1>11. CASE EthdevInit(i)
  BY <1>1, <1>2, <1>3, <1>11 DEF EthdevInit
<1>12. CASE EthdevInitFails(i)
  BY <1>1, <1>2, <1>3, <1>12 DEF EthdevInitFails
<1>13. CASE End2(i)
  BY <1>1, <1>2, <1>3, <1>13 DEF End2
<1>14. CASE End1(i)
  BY <1>1, <1>2, <1>3, <1>14 DEF End1
<1>15. CASE FreeStack(i)
  BY <1>1, <1>2, <1>3, <1>15 DEF FreeStack
<1>16. CASE SetInitFail(i)
  BY <1>1, <1>2, <1>3, <1>16 DEF SetInitFail
<1>17. CASE PostAllInit(i)
  BY <1>1, <1>2, <1>3, <1>17 DEF PostAllInit
<1> QED
  BY <1>4, <1>5, <1>6, <1>7, <1>8, <1>9, <1>10, <1>11, <1>12, <1>13,
       <1>14, <1>15, <1>16, <1>17 DEF StackStep

(* ... and in the steps of all others. *)
LEMMA StackShapeInd ==
  ASSUME IInv, [Next]_vars, NEW i \in Stack
  PROVE  StackShape(i)'
<1>1. /\ pc = [j \in Stack |-> pc[j]]
      /\ kernel_pc = [j \in Stack |-> kernel_pc[j]]
      /\ stacks = [j \in Stack |-> stacks[j]]
      /\ ethdev_init \in Nat /\ created \in Nat
  BY DEF IInv, TypeOK
<1>2. StackShape(i) /\ MainShape
  BY DEF IInv
<1>3. i \in Nat
  BY NAssumption DEF Stack
<1>4. CASE MainStep /\ ~CreateStack
  <2>1. ethdev_init' >= ethdev_init
    BY <1>1, <1>4 DEF MainStep, CreatePools, CreateStackFails, WaitPhase1,
       FreeParams, WaitListener, CheckInitFail, InitDpdkEthdev,
       InitDpdkEthdevFails, WaitAllInit, Serve, GiveUp, sems
  <2>2. ethdev_init' \in Nat
    BY <1>1, <1>4 DEF MainStep, CreatePools, CreateStackFails, WaitPhase1,
       FreeParams, WaitListener, CheckInitFail, InitDpdkEthdev,
       InitDpdkEthdevFails, WaitAllInit, Serve, GiveUp, sems
  <2> QED
    BY <1>1, <1>2, <1>4, <2>1, <2>2, MainQuiet DEF StackShape
<1>5. CASE CreateStack
  BY <1>1, <1>2, <1>3, <1>5 DEF CreateStack, GoTo, MainShape, StackShape,
                                config, sems
<1>6. ASSUME NEW j \in Stack, StackStep(j) PROVE StackShape(i)'
  <2>1. CASE j = i
    BY <1>6, <2>1, StackShapeOwn
  <2>2. CASE j # i
    <3>1. pc'[i] = pc[i]
      BY <1>1, <1>6, <2>2, StackMoves
    <3>2. kernel_pc'[i] = kernel_pc[i] /\ stacks'[i] = stacks[i]
      BY <1>1, <1>6, <2>2 DEF StackStep, AllocStack, InitStackValue,
       CreateAffiliateThread, CreateAffiliateFails, SetUp, PostPhase1,
       WaitEthdev, EthdevInit, EthdevInitFails, End2, End1, FreeStack,
       SetInitFail, PostAllInit, Go
    <3>3. g_init_fail => g_init_fail'
      BY <1>6 DEF StackStep, AllocStack, InitStackValue,
       CreateAffiliateThread, CreateAffiliateFails, SetUp, PostPhase1,
       WaitEthdev, EthdevInit, EthdevInitFails, End2, End1, FreeStack,
       SetInitFail, PostAllInit
    <3> QED
      BY <1>2, <1>6, <3>1, <3>2, <3>3, StackMoves DEF StackShape
  <2> QED
    BY <2>1, <2>2
<1>7. ASSUME NEW j \in Stack, KernelStep(j) PROVE StackShape(i)'
  BY <1>1, <1>2, <1>7
  DEF KernelStep, KernelReadParams, KernelPost, StackShape, config, mainVars,
      sems
<1>8. CASE Listen \/ UNCHANGED vars
  BY <1>2, <1>8 DEF Listen, StackShape, config, sems, vars
<1> QED
  BY <1>4, <1>5, <1>6, <1>7, <1>8 DEF Next

(* Main finds every stack polling when it serves: N posts of all_init are  *)
(* one of each stack, and those that failed set g_init_fail before.        *)
LEMMA MainShapeInd ==
  ASSUME IInv, [Next]_vars
  PROVE  MainShape'
<1>1. /\ pc = [j \in Stack |-> pc[j]] /\ created \in 0..N
      /\ TypeOK
  BY DEF IInv, TypeOK
<1>2. MainShape /\ Counted /\ \A i \in Stack : StackShape(i)
  BY DEF IInv
<1> USE NAssumption DEF GoTo, MainShape
<1>3. CASE MainStep
  <2>1. CASE CreatePools
    BY <1>1, <1>2, <2>1 DEF CreatePools, config, sems, Done
  <2>2. CASE CreateStackFails
    BY <1>1, <1>2, <2>2 DEF CreateStackFails, config, sems, Done
  <2>3. CASE WaitPhase1
    BY <1>1, <1>2, <2>3 DEF WaitPhase1, config, sems, Done
  <2>4. CASE FreeParams
    BY <1>1, <1>2, <2>4 DEF FreeParams, config, sems, Done
  <2>5. CASE WaitListener
    BY <1>1, <1>2, <2>5 DEF WaitListener, config, sems, Done
  <2>6. CASE CheckInitFail
    BY <1>1, <1>2, <2>6 DEF CheckInitFail, config, sems, Done
  <2>7. CASE InitDpdkEthdev
    BY <1>1, <1>2, <2>7 DEF InitDpdkEthdev, config, sems, Done
  <2>8. CASE InitDpdkEthdevFails
    BY <1>1, <1>2, <2>8 DEF InitDpdkEthdevFails, config, sems, Done
  <2>9. CASE WaitAllInit
    <3>1. Done = Stack
      BY <1>2, <2>9, CountsBounded DEF WaitAllInit, Counted
    <3>2. Done' = Done
      BY <2>9 DEF WaitAllInit, Done
    <3> QED
      BY <3>1, <3>2, <2>9 DEF WaitAllInit, sems
  <2>10. CASE Serve
    <3>1. Done = Stack /\ Done' = Done
      BY <1>2, <2>10 DEF Serve, Done
    <3>2. \A i \in Stack : pc[i] = "polling"
      BY <1>2, <2>10, <3>1 DEF Serve, Done, StackShape
    <3> QED
      BY <3>1, <3>2, <2>10 DEF Serve, sems
  <2>11. CASE GiveUp
    BY <1>1, <1>2, <2>11 DEF GiveUp, config, sems, Done
  <2>12. CASE CreateStack
    BY <1>1, <1>2, <2>12 DEF CreateStack, config, sems, Done
  <2> QED
    BY <1>3, <2>1, <2>2, <2>3, <2>4, <2>5, <2>6, <2>7, <2>8, <2>9, <2>10,
       <2>11, <2>12 DEF MainStep
<1>4. ASSUME NEW i \in Stack, StackStep(i) PROVE MainShape'
  <2>1. Done \subseteq Done'
    BY <1>1, <1>4 DEF StackStep, AllocStack, InitStackValue,
       CreateAffiliateThread, CreateAffiliateFails, SetUp, PostPhase1,
       WaitEthdev, EthdevInit, EthdevInitFails, End2, End1, FreeStack,
       SetInitFail, PostAllInit, Go, Done
  <2>2. Done' \subseteq Stack
    BY DEF Done
  <2>3. pc[i] # "polling"
    BY <1>1, <1>4 DEF StackStep, AllocStack, InitStackValue,
       CreateAffiliateThread, CreateAffiliateFails, SetUp, PostPhase1,
       WaitEthdev, EthdevInit, EthdevInitFails, End2, End1, FreeStack,
       SetInitFail, PostAllInit, Go
  <2> QED
    BY <1>1, <1>2, <1>4, <2>1, <2>2, <2>3, StackMoves
<1>5. ASSUME NEW i \in Stack, KernelStep(i) PROVE MainShape'
  BY <1>2, <1>5 DEF KernelStep, KernelReadParams, KernelPost, Done, config,
                    mainVars, sems
<1>6. CASE Listen \/ UNCHANGED vars
  BY <1>2, <1>6 DEF Listen, Done, config, sems, vars
<1> QED
  BY <1>3, <1>4, <1>5, <1>6 DEF Next

(* The wait for thread_phase1: 2 * N posts are two of each stack. *)
LEMMA SettledInd ==
  ASSUME IInv, [Next]_vars
  PROVE  Settled'
<1>1. /\ pc = [j \in Stack |-> pc[j]]
      /\ kernel_pc = [j \in Stack |-> kernel_pc[j]]
      /\ thread_phase1 \in Nat
  BY DEF IInv, TypeOK
<1>2. Settled /\ Counted /\ \A i \in Stack : StackShape(i)
  BY DEF IInv
<1>3. CASE WaitPhase1
  <2>1. CASE "third" \in rare
    BY <1>3, <2>1 DEF WaitPhase1, Settled, config
  <2>2. CASE "third" \notin rare
    <3>1. Cardinality(FirstPosts) + Cardinality(SecondPosts) >= 2 * N
      BY <1>2, <1>3, <2>2, NAssumption
      DEF WaitPhase1, Phase1Posts, GoTo, Counted, Waiting
    <3>2. Cardinality(FirstPosts) = N /\ Cardinality(SecondPosts) = N
      BY <3>1, CountsBounded, NAssumption
    <3>3. FirstPosts = Stack /\ SecondPosts = Stack
      BY <3>2, CountsBounded
    <3>4. \A i \in Stack :
            /\ pc[i] \in {"ethdev", "netif", "up", "polling", "end1", "free",
                          "failed", "down", "ended"}
            /\ kernel_pc[i] \in {"none", "waiting"}
      BY <3>3 DEF FirstPosts, SecondPosts
    <3> QED
      BY <1>3, <3>4 DEF WaitPhase1, Settled
  <2> QED
    BY <2>1, <2>2
<1>4. CASE CreateStack
  BY <1>4 DEF CreateStack, GoTo, Settled, Passed
<1>5. CASE MainStep /\ ~CreateStack /\ ~WaitPhase1
  <2>1. Passed' => Passed
    BY <1>5 DEF MainStep, CreatePools, CreateStackFails, WaitPhase1,
       FreeParams, WaitListener, CheckInitFail, InitDpdkEthdev,
       InitDpdkEthdevFails, WaitAllInit, Serve, GiveUp, GoTo, Passed
  <2> QED
    BY <1>2, <1>5, <2>1, MainQuiet DEF Settled
<1>6. ASSUME NEW i \in Stack, StackStep(i) PROVE Settled'
  <2> SUFFICES ASSUME Passed', "third" \notin rare', NEW j \in Stack
               PROVE  /\ pc'[j] \in {"ethdev", "netif", "up", "polling",
                                     "end1", "free", "failed", "down",
                                     "ended"}
                      /\ kernel_pc'[j] \in {"none", "waiting"}
    BY DEF Settled
  <2>1. Passed /\ "third" \notin rare
    BY <1>6, StackMoves DEF Passed
  <2>2. \A k \in Stack :
          /\ pc[k] \in {"ethdev", "netif", "up", "polling", "end1", "free",
                        "failed", "down", "ended"}
          /\ kernel_pc[k] \in {"none", "waiting"}
    BY <1>2, <2>1 DEF Settled
  <2> QED
    BY <1>1, <1>6, <2>2 DEF StackStep, AllocStack, InitStackValue,
       CreateAffiliateThread, CreateAffiliateFails, SetUp, PostPhase1,
       WaitEthdev, EthdevInit, EthdevInitFails, End2, End1, FreeStack,
       SetInitFail, PostAllInit, Go
<1>7. ASSUME NEW i \in Stack, KernelStep(i) PROVE Settled'
  <2>1. kernel_pc[i] \in {"start", "post"} /\ rare' = rare /\ main' = main
    BY <1>7 DEF KernelStep, KernelReadParams, KernelPost, config, mainVars
  <2>2. ~(Passed /\ "third" \notin rare)
    BY <1>2, <2>1 DEF Settled
  <2> QED
    BY <2>1, <2>2 DEF Settled, Passed
<1>8. CASE Listen \/ UNCHANGED vars
  BY <1>2, <1>8 DEF Listen, Settled, Passed, config, vars
<1> QED
  BY <1>3, <1>4, <1>5, <1>6, <1>7, <1>8 DEF Next

(* Main frees the arguments when everybody is past its posts; a kernel      *)
(* event thread starts only from a stack thread whose argument is there.    *)
LEMMA ParamsInd ==
  ASSUME IInv, [Next]_vars
  PROVE  ParamsIntact'
<1>1. /\ pc = [j \in Stack |-> pc[j]]
      /\ kernel_pc = [j \in Stack |-> kernel_pc[j]]
      /\ t_params = [j \in Stack |-> t_params[j]]
  BY DEF IInv, TypeOK
<1>2. ParamsIntact /\ Settled
  BY DEF IInv
<1>3. CASE CreateStack
  BY <1>1, <1>2, <1>3 DEF CreateStack, ParamsIntact, config
<1>4. CASE FreeParams
  BY <1>2, <1>4 DEF FreeParams, GoTo, Settled, Passed, ParamsIntact, config
<1>5. CASE MainStep /\ ~CreateStack /\ ~FreeParams
  <2>1. t_params' = t_params
    BY <1>5 DEF MainStep, CreatePools, CreateStackFails, WaitPhase1,
       FreeParams, WaitListener, CheckInitFail, InitDpdkEthdev,
       InitDpdkEthdevFails, WaitAllInit, Serve, GiveUp
  <2> QED
    BY <1>2, <1>5, <2>1, MainQuiet DEF ParamsIntact
<1>6. ASSUME NEW i \in Stack, StackStep(i) PROVE ParamsIntact'
  <2> SUFFICES ASSUME "third" \notin rare', NEW j \in Stack,
                      \/ pc'[j] \in {"start", "init", "affiliate"}
                      \/ kernel_pc'[j] = "start"
               PROVE  t_params'[j] = "live"
    BY DEF ParamsIntact
  <2>1. \/ pc[j] \in {"start", "init", "affiliate"}
        \/ kernel_pc[j] = "start"
    BY <1>1, <1>6 DEF StackStep, AllocStack, InitStackValue,
       CreateAffiliateThread, CreateAffiliateFails, SetUp, PostPhase1,
       WaitEthdev, EthdevInit, EthdevInitFails, End2, End1, FreeStack,
       SetInitFail, PostAllInit, Go
  <2> QED
    BY <1>2, <1>6, <2>1, StackMoves DEF ParamsIntact
<1>7. ASSUME NEW i \in Stack, KernelStep(i) PROVE ParamsIntact'
  BY <1>1, <1>2, <1>7 DEF KernelStep, KernelReadParams, KernelPost,
                          ParamsIntact, config, mainVars
<1>8. CASE Listen \/ UNCHANGED vars
  BY <1>2, <1>8 DEF Listen, ParamsIntact, config, vars
<1> QED
  BY <1>3, <1>4, <1>5, <1>6, <1>7, <1>8 DEF Next

(* Main exits before it has created a thread, because it could not create   *)
(* one, or after the wait.                                                  *)
LEMMA ExitInd ==
  ASSUME IInv, [Next]_vars
  PROVE  ExitAfterPools'
<1>1. /\ ExitAfterPools /\ Settled /\ MainShape
      /\ \A i \in Stack : StackShape(i)
  BY DEF IInv
<1>2. CASE MainStep
  <2> SUFFICES ASSUME main' = "exited", rare' \cap {"create", "third"} = {}
               PROVE  \A i \in Stack : pc'[i] \notin {"start", "init"}
    BY DEF ExitAfterPools
  <2>1. CASE main = "pools"
    <3>1. created = 0
      BY <1>1, <2>1 DEF MainShape
    <3>2. \A i \in Stack : pc[i] = "none"
      BY <1>1, <3>1, NAssumption DEF Stack, StackShape
    <3>3. pc' = pc
      BY <1>2, <2>1 DEF MainStep, CreateStack, CreatePools,
       CreateStackFails, WaitPhase1, FreeParams, WaitListener,
       CheckInitFail, InitDpdkEthdev, InitDpdkEthdevFails, WaitAllInit,
       Serve, GiveUp, GoTo, config
    <3> QED
      BY <3>2, <3>3
  <2>2. CASE main # "pools"
    <3>1. Passed /\ pc' = pc /\ rare' = rare
      BY <1>2, <2>2 DEF MainStep, CreateStack, CreatePools,
       CreateStackFails, WaitPhase1, FreeParams, WaitListener,
       CheckInitFail, InitDpdkEthdev, InitDpdkEthdevFails, WaitAllInit,
       Serve, GiveUp, GoTo, config, Passed
    <3> QED
      BY <1>1, <3>1 DEF Settled
  <2> QED
    BY <2>1, <2>2
<1>3. ASSUME NEW i \in Stack, StackStep(i) PROVE ExitAfterPools'
  BY <1>3, StackMoves DEF ExitAfterPools
<1>4. ASSUME NEW i \in Stack, KernelStep(i) PROVE ExitAfterPools'
  BY <1>4 DEF KernelStep, KernelReadParams, KernelPost, ExitAfterPools,
              mainVars
<1>5. CASE Listen \/ UNCHANGED vars
  BY <1>1, <1>5 DEF Listen, ExitAfterPools, config, vars
<1> QED
  BY <1>2, <1>3, <1>4, <1>5 DEF Next

-----------------------------------------------------------------------------
(* No thread runs but main, and nothing has been posted. *)
LEMMA InitInd == Init => IInv
<1> SUFFICES ASSUME Init PROVE IInv
  OBVIOUS
<1>1. TypeOK
  <2>1. use_ltran \in BOOLEAN /\ is_primary \in BOOLEAN
    BY Zenon DEF Init
  <2>2. rare \subseteq Rare
    BY DEF Init
  <2>3. /\ main = "pools" /\ listener = "none" /\ created \in 0..N
        /\ all_init \in 0..N /\ ethdev_init \in 0..1 /\ thread_phase1 \in Nat
    BY NAssumption DEF Init
  <2>6. g_init_fail \in BOOLEAN
    BY Zenon DEF Init
  <2>4. /\ t_params \in [Stack -> {"none", "live", "freed"}]
        /\ stacks \in [Stack -> {"none", "live", "freed"}]
    BY DEF Init
  <2>5. pc = [i \in Stack |-> "none"] /\ kernel_pc = [i \in Stack |-> "none"]
    BY DEF Init
  <2> QED
    BY <2>1, <2>2, <2>3, <2>4, <2>5, <2>6 DEF TypeOK
<1>2. \A i \in Stack : StackShape(i)
  BY DEF Init, StackShape
<1>3. MainShape
  BY NAssumption DEF Init, MainShape
<1>4. Counted
  <2>1. Done = {} /\ FirstPosts = {} /\ SecondPosts = {}
    BY DEF Init, Done, FirstPosts, SecondPosts
  <2> QED
    BY <2>1, FS_EmptySet DEF Init, Counted
<1>5. Settled /\ ParamsIntact /\ ExitAfterPools
  BY DEF Init, Settled, Passed, ParamsIntact, ExitAfterPools
<1> QED
  BY <1>1, <1>2, <1>3, <1>4, <1>5 DEF IInv

(* Every step of any thread keeps the invariant. *)
LEMMA StepInd == IInv /\ [Next]_vars => IInv'
<1> SUFFICES ASSUME IInv, [Next]_vars PROVE IInv'
  OBVIOUS
<1>1. Counted'
  BY CountInd
<1>2. (\A i \in Stack : StackShape(i))'
  BY StackShapeInd DEF Stack
<1> QED
  BY <1>1, <1>2, TypeInd, MainShapeInd, SettledInd, ParamsInd, ExitInd
  DEF IInv

(* The inductive invariant. *)
LEMMA Invariant == Spec => []IInv
  BY InitInd, StepInd, PTL DEF Spec

(* The variables keep to their types, for any number of stacks. *)
THEOREM TypeCorrect == Spec => []TypeOK
<1>1. IInv => TypeOK
  BY DEF IInv
<1> QED
  BY <1>1, Invariant, PTL

(* For any number of stacks, main frees the arguments of the threads after  *)
(* the last of them has been read.                                          *)
THEOREM ParamsIntactCorrect == Spec => []ParamsIntact
<1>1. IInv => ParamsIntact
  BY DEF IInv
<1> QED
  BY <1>1, Invariant, PTL

(* For any number of stacks, the application is served only when every      *)
(* stack polls.                                                             *)
THEOREM ServesWhenAllUpCorrect == Spec => []ServesWhenAllUp
<1>1. IInv => ServesWhenAllUp
  BY DEF IInv, MainShape, StackShape, ServesWhenAllUp
<1> QED
  BY <1>1, Invariant, PTL

(* For any number of stacks, main exits only when no stack thread makes     *)
(* mempools, unless it fails to create a thread or a stack posts thrice.    *)
THEOREM ExitAfterPoolsCorrect == Spec => []ExitAfterPools
<1>1. IInv => ExitAfterPools
  BY DEF IInv
<1> QED
  BY <1>1, Invariant, PTL

===============================================================================
