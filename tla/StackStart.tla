------------------------------ MODULE StackStart ------------------------------
(***************************************************************************)
(* How a process starts its protocol stacks: gazelle_network_init and      *)
(* init_protocol_stack in the main thread, the start of every stack thread *)
(* and kernel event thread (src/lstack/core/lstack_protocol_stack.c), and  *)
(* the listen thread (src/lstack/netif/lstack_ethdev.c).                   *)
(*                                                                         *)
(* The threads meet at semaphores that nobody takes down: main spins until *)
(* thread_phase1 and all_init are high enough, the stack threads until     *)
(* ethdev_init is.  Any step of initialisation may fail.  Three failures   *)
(* break what the waits rely on; rare tells which of them a behaviour may  *)
(* meet, and the properties say which they exclude:                        *)
(*   "create"   pthread_create or pthread_setname_np fails for a stack;    *)
(*   "third"    a stack fails after its posts and posts once more;         *)
(*   "listener" the listen thread cannot bind or listen.                   *)
(* LSTACK_EXIT in main ends every thread.                                  *)
(***************************************************************************)
EXTENDS Naturals, FiniteSets

CONSTANT N   \* stack_num, which is also num_queue

ASSUME NAssumption == N \in Nat \ {0}

Stack == 0..(N - 1)

VARIABLES
  use_ltran, is_primary,  \* the configuration
  rare,          \* the rare failures that may happen
  main,          \* where the main thread stands
  created,       \* stack threads it has created
  thread_phase1, ethdev_init, all_init,  \* values of the semaphores
  g_init_fail,
  t_params,      \* the argument of each stack thread
  stacks,        \* stack_group->stacks[], and whether it has been freed
  pc,            \* where each stack thread stands
  kernel_pc,     \* ... and each kernel event thread
  listener       \* ... and the listen thread

config   == <<use_ltran, is_primary, rare>>
sems     == <<thread_phase1, ethdev_init, all_init>>
mainVars == <<main, created, t_params, listener>>
vars == <<use_ltran, is_primary, rare, main, created, thread_phase1,
          ethdev_init, all_init, g_init_fail, t_params, stacks, pc,
          kernel_pc, listener>>

Rare == {"create", "third", "listener"}

Init ==
  /\ use_ltran \in BOOLEAN
  /\ is_primary \in BOOLEAN
  /\ rare \in SUBSET Rare
  /\ main = "pools"
  /\ created = 0
  /\ thread_phase1 = 0
  /\ ethdev_init = 0
  /\ all_init = 0
  /\ g_init_fail = FALSE
  /\ t_params = [i \in Stack |-> "none"]
  /\ stacks = [i \in Stack |-> "none"]
  /\ pc = [i \in Stack |-> "none"]
  /\ kernel_pc = [i \in Stack |-> "none"]
  /\ listener = "none"

-----------------------------------------------------------------------------
(***************************************************************************)
(* The main thread.                                                        *)
(***************************************************************************)
GoTo(from, to) == main = from /\ main' = to

(* The semaphores, and in the primary the mempools for all processes. *)
CreatePools ==
  /\ \E to \in {"create", "exited"} : GoTo("pools", to)
  /\ UNCHANGED <<config, created, sems, g_init_fail, t_params, stacks, pc,
                 kernel_pc, listener>>

CreateStack ==
  /\ GoTo("create", IF created + 1 = N THEN "phase1" ELSE "create")
  /\ created' = created + 1
  /\ t_params' = [t_params EXCEPT ![created] = "live"]
  /\ pc' = [pc EXCEPT ![created] = "start"]
  /\ UNCHANGED <<config, sems, g_init_fail, stacks, kernel_pc, listener>>

CreateStackFails ==
  /\ "create" \in rare
  /\ GoTo("create", "exited")
  /\ UNCHANGED <<config, created, sems, g_init_fail, t_params, stacks, pc,
                 kernel_pc, listener>>

(* Mutant of Phase1Posts: kernel event threads are not counted. *)
Phase1Posts_One == N

(* A post from the stack thread and one from its kernel event thread. *)
Phase1Posts == N * 2

WaitPhase1 ==
  /\ thread_phase1 >= Phase1Posts
  /\ GoTo("phase1", "free")
  /\ UNCHANGED <<config, created, sems, g_init_fail, t_params, stacks, pc,
                 kernel_pc, listener>>

FreeParams ==
  /\ GoTo("free", IF use_ltran THEN "check_fail" ELSE "listen")
  /\ t_params' = [i \in Stack |-> "freed"]
  /\ listener' = IF use_ltran THEN listener ELSE "start"
  /\ UNCHANGED <<config, created, sems, g_init_fail, stacks, pc, kernel_pc>>

WaitListener ==
  /\ listener = "listening"
  /\ GoTo("listen", "check_fail")
  /\ UNCHANGED <<config, created, sems, g_init_fail, t_params, stacks, pc,
                 kernel_pc, listener>>

CheckInitFail ==
  /\ GoTo("check_fail", CASE g_init_fail -> "exited"
                          [] ~g_init_fail /\ use_ltran -> "all_init"
                          [] OTHER -> "ethdev")
  /\ UNCHANGED <<config, created, sems, g_init_fail, t_params, stacks, pc,
                 kernel_pc, listener>>

(* init_dpdk_ethdev: only the primary needs every stack to be there. *)
InitDpdkEthdev ==
  /\ is_primary => \A i \in Stack : stacks[i] # "none"
  /\ GoTo("ethdev", "all_init")
  /\ ethdev_init' = ethdev_init + 1
  /\ UNCHANGED <<config, created, thread_phase1, all_init, g_init_fail,
                 t_params, stacks, pc, kernel_pc, listener>>

InitDpdkEthdevFails ==
  /\ GoTo("ethdev", "exited")
  /\ UNCHANGED <<config, created, sems, g_init_fail, t_params, stacks, pc,
                 kernel_pc, listener>>

(* Mutant of WaitAllInit: waits for one post, as for ethdev_init. *)
WaitAllInit_One ==
  /\ all_init >= 1
  /\ GoTo("all_init", "check_all")
  /\ UNCHANGED <<config, created, sems, g_init_fail, t_params, stacks, pc,
                 kernel_pc, listener>>

WaitAllInit ==
  /\ all_init >= N
  /\ GoTo("all_init", "check_all")
  /\ UNCHANGED <<config, created, sems, g_init_fail, t_params, stacks, pc,
                 kernel_pc, listener>>

(* ues_posix = 0: from now on the application's calls go to the stacks. *)
Serve ==
  /\ ~g_init_fail
  /\ GoTo("check_all", "serving")
  /\ UNCHANGED <<config, created, sems, g_init_fail, t_params, stacks, pc,
                 kernel_pc, listener>>

(* A stack has failed, or the primary cannot set its start flag. *)
GiveUp ==
  /\ g_init_fail \/ is_primary
  /\ GoTo("check_all", "exited")
  /\ UNCHANGED <<config, created, sems, g_init_fail, t_params, stacks, pc,
                 kernel_pc, listener>>

MainStep ==
  \/ CreatePools \/ CreateStack \/ CreateStackFails \/ WaitPhase1
  \/ FreeParams \/ WaitListener \/ CheckInitFail \/ InitDpdkEthdev
  \/ InitDpdkEthdevFails \/ WaitAllInit \/ Serve \/ GiveUp

-----------------------------------------------------------------------------
(***************************************************************************)
(* Stack thread i.  Nothing runs once main has exited.                     *)
(***************************************************************************)
Go(i, from, to) ==
  /\ main # "exited"
  /\ pc[i] = from
  /\ pc' = [pc EXCEPT ![i] = to]

(* gazelle_stack_thread reads its argument, stack_thread_init allocates. *)
AllocStack(i) ==
  /\ \E to \in {"init", "end2"} : Go(i, "start", to)
  /\ UNCHANGED <<config, mainVars, sems, g_init_fail, stacks, kernel_pc>>

(* init_stack_value enters the stack before it makes its mempool and rings; *)
(* init_stack_numa_cpuset. *)
InitStackValue(i) ==
  /\ \E to \in {"affiliate", "end2"} : Go(i, "init", to)
  /\ stacks' = [stacks EXCEPT ![i] = "live"]
  /\ UNCHANGED <<config, mainVars, sems, g_init_fail, kernel_pc>>

CreateAffiliateThread(i) ==
  /\ Go(i, "affiliate", "setup")
  /\ kernel_pc' = [kernel_pc EXCEPT ![i] = "start"]
  /\ UNCHANGED <<config, mainVars, sems, g_init_fail, stacks>>

(* create_thread also fails when only pthread_setname_np does: the kernel *)
(* event thread then exists, and posts for itself. *)
CreateAffiliateFails(i) ==
  /\ Go(i, "affiliate", "end2")
  /\ \/ UNCHANGED kernel_pc
     \/ "third" \in rare /\ kernel_pc' = [kernel_pc EXCEPT ![i] = "start"]
  /\ UNCHANGED <<config, mainVars, sems, g_init_fail, stacks>>

(* Affinity, huge pages, tcpip_init, and the registration with ltran. *)
SetUp(i) ==
  /\ \E to \in {"post", "end1"} : Go(i, "setup", to)
  /\ UNCHANGED <<config, mainVars, sems, g_init_fail, stacks, kernel_pc>>

PostPhase1(i) ==
  /\ Go(i, "post", IF use_ltran THEN "netif" ELSE "ethdev")
  /\ thread_phase1' = thread_phase1 + 1
  /\ UNCHANGED <<config, mainVars, ethdev_init, all_init, g_init_fail,
                 stacks, kernel_pc>>

WaitEthdev(i) ==
  /\ ethdev_init >= 1
  /\ Go(i, "ethdev", "netif")
  /\ UNCHANGED <<config, mainVars, sems, g_init_fail, stacks, kernel_pc>>

EthdevInit(i) ==
  /\ Go(i, "netif", "up")
  /\ UNCHANGED <<config, mainVars, sems, g_init_fail, stacks, kernel_pc>>

(* With ltran, main may still be waiting for thread_phase1. *)
EthdevInitFails(i) ==
  /\ ~use_ltran \/ "third" \in rare
  /\ Go(i, "netif", "end1")
  /\ UNCHANGED <<config, mainVars, sems, g_init_fail, stacks, kernel_pc>>

(* Mutant of End2: the post for the thread that was not created is missing. *)
End2_Once(i) ==
  /\ Go(i, "end2", "end1")
  /\ UNCHANGED <<config, mainVars, sems, g_init_fail, stacks, kernel_pc>>

(* "kernel event thread dont create, stack thread post sem twice" *)
End2(i) ==
  /\ Go(i, "end2", "end1")
  /\ thread_phase1' = thread_phase1 + 1
  /\ UNCHANGED <<config, mainVars, ethdev_init, all_init, g_init_fail,
                 stacks, kernel_pc>>

End1(i) ==
  /\ Go(i, "end1", "free")
  /\ thread_phase1' = thread_phase1 + 1
  /\ UNCHANGED <<config, mainVars, ethdev_init, all_init, g_init_fail,
                 stacks, kernel_pc>>

(* stack_group->stacks[] keeps the pointer. *)
FreeStack(i) ==
  /\ Go(i, "free", "failed")
  /\ stacks' = [stacks EXCEPT ![i] = IF @ = "live" THEN "freed" ELSE @]
  /\ UNCHANGED <<config, mainVars, sems, g_init_fail, kernel_pc>>

SetInitFail(i) ==
  /\ Go(i, "failed", "down")
  /\ g_init_fail' = TRUE
  /\ UNCHANGED <<config, mainVars, sems, stacks, kernel_pc>>

PostAllInit(i) ==
  /\ Go(i, "up", "polling") \/ Go(i, "down", "ended")
  /\ all_init' = all_init + 1
  /\ UNCHANGED <<config, mainVars, thread_phase1, ethdev_init, g_init_fail,
                 stacks, kernel_pc>>

StackStep(i) ==
  \/ AllocStack(i) \/ InitStackValue(i) \/ CreateAffiliateThread(i)
  \/ CreateAffiliateFails(i) \/ SetUp(i) \/ PostPhase1(i) \/ WaitEthdev(i)
  \/ EthdevInit(i) \/ EthdevInitFails(i) \/ End2(i) \/ End1(i)
  \/ FreeStack(i) \/ SetInitFail(i) \/ PostAllInit(i)

-----------------------------------------------------------------------------
(***************************************************************************)
(* Kernel event thread i, and the listen thread.                           *)
(***************************************************************************)
(* It takes idx from its argument, and the stack from stacks[idx]. *)
KernelReadParams(i) ==
  /\ main # "exited"
  /\ kernel_pc[i] = "start"
  /\ kernel_pc' = [kernel_pc EXCEPT ![i] = "post"]
  /\ UNCHANGED <<config, mainVars, sems, g_init_fail, stacks, pc>>

KernelPost(i) ==
  /\ main # "exited"
  /\ kernel_pc[i] = "post"
  /\ kernel_pc' = [kernel_pc EXCEPT ![i] = "waiting"]
  /\ thread_phase1' = thread_phase1 + 1
  /\ UNCHANGED <<config, mainVars, ethdev_init, all_init, g_init_fail,
                 stacks, pc>>

(* recv_pkts_from_other_process returns without a post when it fails. *)
Listen ==
  /\ main # "exited"
  /\ listener = "start"
  /\ \/ listener' = "listening"
     \/ "listener" \in rare /\ listener' = "ended"
  /\ UNCHANGED <<config, main, created, t_params, sems, g_init_fail, stacks,
                 pc, kernel_pc>>

KernelStep(i) == KernelReadParams(i) \/ KernelPost(i)

Next ==
  \/ MainStep
  \/ Listen
  \/ \E i \in Stack : StackStep(i) \/ KernelStep(i)

Spec == Init /\ [][Next]_vars

(* Every thread runs: the waits spin, and the scheduler is preemptive. *)
Fairness ==
  /\ WF_vars(MainStep)
  /\ WF_vars(Listen)
  /\ \A i \in Stack : WF_vars(StackStep(i)) /\ WF_vars(KernelStep(i))

FairSpec == Spec /\ Fairness

-----------------------------------------------------------------------------
(* Every variable keeps to the values the code can give it: no stack posts  *)
(* all_init twice, and main posts ethdev_init once. *)
TypeOK ==
  /\ use_ltran \in BOOLEAN
  /\ is_primary \in BOOLEAN
  /\ rare \subseteq Rare
  /\ main \in {"pools", "create", "phase1", "free", "listen", "check_fail",
               "ethdev", "all_init", "check_all", "serving", "exited"}
  /\ created \in 0..N
  /\ thread_phase1 \in Nat
  /\ ethdev_init \in 0..1
  /\ all_init \in 0..N
  /\ g_init_fail \in BOOLEAN
  /\ t_params \in [Stack -> {"none", "live", "freed"}]
  /\ stacks \in [Stack -> {"none", "live", "freed"}]
  /\ pc \in [Stack -> {"none", "start", "init", "affiliate", "setup", "post",
                       "ethdev", "netif", "up", "polling", "end2", "end1",
                       "free", "failed", "down", "ended"}]
  /\ kernel_pc \in [Stack -> {"none", "start", "post", "waiting"}]
  /\ listener \in {"none", "start", "listening", "ended"}

(* init_protocol_stack frees the argument of a stack thread only when the   *)
(* stack thread, which hands it on, and the kernel event thread have read   *)
(* it for the last time, although all main knows is a sum of posts          *)
(* (lstack_protocol_stack.c:612-617).                                       *)
ParamsIntact ==
  "third" \notin rare =>
    \A i \in Stack :
      \/ pc[i] \in {"start", "init", "affiliate"}
      \/ kernel_pc[i] = "start"
      => t_params[i] = "live"

(* The application is sent to the stacks only when every one of them, and   *)
(* not just as many as posted, polls, and its kernel event thread has been  *)
(* created (lstack_init.c:367-383).                                         *)
ServesWhenAllUp ==
  main = "serving" =>
    \A i \in Stack : pc[i] = "polling" /\ stacks[i] = "live"
                     /\ kernel_pc[i] # "none"

(* "exit in main thread, avoid create mempool and exit at the same time"    *)
(* (lstack_protocol_stack.c:459): main does not exit while a stack thread   *)
(* has its mempool and rings still to make.                                 *)
ExitAfterPools ==
  /\ main = "exited"
  /\ rare \cap {"create", "third"} = {}
  => \A i \in Stack : pc[i] \notin {"start", "init"}

(* Whatever fails, main finds out: the spins of wait_sem_value and the wait *)
(* for the listen thread end, and the process serves or exits.              *)
StartupEnds ==
  "listener" \notin rare => <>(main \in {"serving", "exited"})

=============================================================================
