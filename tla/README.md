# Gazelle in TLA+

Gazelle is a user-space TCP/IP stack. A client process links **liblstack**
(`src/src/lstack`): its socket calls are served by an lwip that runs in a few
*protocol stack threads*, one per core, each polling a DPDK queue or a shared
ring. Several clients may share one NIC through the daemon **ltran**
(`src/src/ltran`), which forwards packets between the NIC and the clients. lwip
itself, DPDK and the kernel are not in this repository. They are modelled from
the way the code uses them, and marked external in `PROJECT.json`.

Line numbers below are those of the files under `src/src/`.

## 1. Inventory

| component | state | operations | meets | hard to get right |
|---|---|---|---|---|
| RPC queue `lstack/include/lstack_lockless_queue.h` | `head`, `tail`, embedded `stub`, `next` of each node | push (any thread), pop and count (the stack thread) | every call into a stack thread | lock-free; a push has a gap between exchange and link; the stub is pushed by the consumer |
| RPC calls `lstack/core/lstack_thread_rpc.c` | per-thread pool of messages, `lock`, `self_release`, `func` | alloc, synchronous call, one-way call, `poll_rpc_msg`, free | queue, `stack_send` | three conventions for who frees a message |
| sending `lstack/core/lstack_lwip.c` | `send_ring`, `call_num`, `remain_len`, pbufs | `write_stack_data`, `notice_stack_send`, `stack_send`, `do_lwip_send`, `replenish_send_idlembuf` | RPC, lwip | a counter stands for "a message is under way" |
| receiving and epoll `lstack/api/lstack_epoll.c`, `lstack_lwip.c` | `recv_ring`, `event_list`, `in_wait`, mutex `wait`, `have_kernel_event` | create, ctl, wait, close, `add_sock_event`, `wakeup_stack_epoll`, kernel event thread | lwip, kernel epoll | sleeping and waking without a lock; level and edge triggers |
| poll `lstack_epoll.c` 513-719 | `wakeup_poll` of a thread, last fds | `lstack_poll` | as epoll | moves the kernel watch between stacks |
| rings `common/dpdk_common.h`, `common/gazelle_dfx_msg.h` | four cursors | enqueue, read, read over, dequeue, free | send and receive | two threads, one of which works on objects still in the ring |
| same-node rings `lstack_lwip.c` | shared memory rings of two processes | connect, read, write, close | rings | a peer process may go away |
| start-up `lstack/core/lstack_protocol_stack.c`, `lstack_init.c` | semaphores, `stacks[]` | create threads, three phases | registration | one thread fails while others wait |
| sockets and listening `lstack_protocol_stack.c` 84-164, 643-1019, `lstack/api/lstack_wrap.c` | the socket of each descriptor, a clone of a listening socket per stack, `conn_num`, `bind_stack` | socket, bind, listen, accept, connect, close, receive, options | RPC, lwip, kernel | partial failure; unsynchronised counter; descriptors handed out again; lwip's or the kernel's, decided at every call |
| client control plane `lstack/core/lstack_control_plane.c` | registration state, sockets to ltran | register, re-register, control server | ltran | broken connection at any stage |
| virtual device `lstack/netif/lstack_vdev.c` | `reg_buf`, `reg_head`, the rings shared with ltran | `ltran_rx_poll`, `ltran_tx_xmit`, `vdev_reg_xmit` | ltran's forward threads | slots reused while a reader may hold them |
| ltran registration `ltran/ltran_instance.c`, `ltran_stack.c`, `ltran_monitor.c` | `instances[]`, a tick per slot, address ranges, `gazelle_stack` list | register process, attach, register thread, log out | forward threads | memory freed under threads that take no lock |
| ltran tables `ltran/ltran_tcp_conn.c`, `ltran_tcp_sock.c`, `ltran_timer.c` | connections by quintuple, listening sockets by (ip, port), `tcp_con_num` | add, delete, find, age, log out | clients' registration messages | entries that outlive what they point to |
| ltran forwarding `ltran/ltran_forward.c` | per-stack packet buffers, backup buffer | upstream, downstream | both | order, drops, each mbuf freed once |
| ltran control loop `ltran/ltran_monitor.c`, `main.c` | connections, `g_dfx_fd_cnt` | accept, dispatch, hang-up, stop | registration, gazellectl | one thread for everybody |
| statistics `ltran/ltran_dfx.c`, `ltran_stat.c`, `lstack/core/lstack_stack_stat.c` | the commands of `gazellectl`, answers under way, latency switches | connect, ask, transfer, answer | both control threads | a dialogue of three over a connection that also registers; answers without headers; a wait of 60 seconds |
| configuration, DPDK set-up, fork and signal wrappers | - | - | - | sequential or input/output |

What makes each of them correct:

* RPC queue: a linearisable FIFO: nothing is lost, duplicated or reordered, no
  store hits a message already handed out.
* RPC calls: a synchronous call returns only after its handler ran; a message is
  freed once and never touched after that.
* Sending: data in the ring is sent without another write; a writer refused
  because the ring is full is told when there is room.
* Epoll: no lost wake-up; readable sockets are reported; every event reported
  is one.
* Registration: what a client got is given back once, whatever it died in the
  middle of, and never while a forward thread may look at it.
* Tables: at most one live entry per connection, counters that agree with it,
  no pointer to a freed entry.
* Forwarding: per-stack order; each packet delivered, or dropped and freed,
  once.
* Rings shared with ltran: no buffer is freed or written to while the other
  side uses it, and none is lost.
* Sockets: a descriptor somebody holds is live and leads to its owner; a
  listener is on every stack, or gone from every stack; a connection that waits
  is found.
* Statistics: every command returns; an answer reaches who asked, in the size
  he reads; ltran and a client find each other again after anything.
* Start-up: all threads get past the phases, or the process ends.

## 2. Modules

```
MpscFifo  <--implements--  LocklessQueue   <-- LocklessQueueProofs
                           Rpc             <-- RpcProofs    (its queue is the FIFO)
                           SendNotify      <-- SendNotifyProofs
             MCEpollWait -> EpollWait      <-- EpollWaitProofs
         MCLtranInstance -> LtranInstance  <-- LtranInstanceProofs
           MCLtranTables -> LtranTables
               VdevRings -> GazelleRing
                           StackStart      <-- StackStartProofs
               MCSockets -> Sockets         <-- SocketsProofs
                   MCDfx -> Dfx             <-- DfxProofs
```

An arrow to the right reads "extends". Every definition that stands for code is
listed in `PROJECT.json` under `map` with its lines. A definition whose name
has a suffix and which is used nowhere (`TxTry`/`TxTry_...`,
`PopReadHead_GiveUp`, ...) is a plausible bug in the definition it precedes;
`mutants` says which property notices it.

### LocklessQueue, MpscFifo - the RPC queue

Every load, store and exchange on `head`, `tail` and the `next` fields is one
step. A push is `StartPush`, `PushSwap` (the exchange), `PushLink` (the store
into the old head); pop is cut in the same way, including its own push of the
stub. The stack thread handles what it popped and may push it again, as
`stack_send` does. `lockless_queue_count` is a walk that other threads may
interrupt. Memory is sequentially consistent: pushes use an atomic exchange
and a store with release semantics, and the plain loads of the single consumer
are taken to be as strong.

`MpscFifo` is what callers rely on: a sequence, appended to at the exchange;
pop takes the first element, or returns NULL when the queue was empty or a push
was unfinished at some moment of the call (`excuse`). `ImplementsFifo` is the
refinement.

### Rpc - calls into a stack thread

The three ways a message is given back (`sync`, `arp`, `send`) over the FIFO.
`poll_rpc_msg` is cut where it reads a message the handler may have freed.
Handlers are a step that sets `handled`. `SyncCallProcessed` and
`NoUseAfterFree` depend on the pool: a freed message is put at the end of its
pool, so a message that `stack_send` freed and `poll_rpc_msg` still reads is
not reused as long as the pool holds more messages than a thread can have under
way. How many more is settled by the proof: `AppPool >= SendLimit + 3` is
enough, and with `SendLimit + 2` TLC finds a caller that returns too early.

### SendNotify - `call_num` and stack_send

The send ring is reduced to counts (written, sent, idle), `call_num` is an
integer modulo `CallNumMod`. The writer and the stack thread interleave at
every access to `call_num`. lwip may take less than there is, and the mbuf pool
may be empty at a refill: `setbacks` remembers it. With `ExpandSendRing` a
writer that finds no idle pbuf either attaches to the last one (`WriteMerged`) or
has the ring refilled by a synchronous call, `CallReplenish`, which the stack
thread answers in `RpcReplenish`; without it these two do not happen, so the
run, in which it is set, has the behaviours of both settings. That a `stack_send`
is not overtaken for ever (`SF_vars(Pop)`) is the FIFO order of the queue.

### EpollWait - receiving and waiting

The receive path (`recv_list`, `recv_ring`, `add_sock_event`), the waking of
waiters, the kernel event thread, epoll_create, ctl and wait, reading and
writing of `sock->events`. A section under `event_list_lock` is one step,
everything outside is cut at each shared access. The mutex `wait` is used by the
code as a token (unlocked by a thread that does not hold it) and modelled as
one. An application thread serves what it was told: a level-triggered socket
with a read, an edge-triggered one until it is empty. Only the threads of
`Waiter` call `epoll_wait`; the others of `App` call `epoll_ctl`, at any moment,
also while a waiter is inside its call. `by_ctl` is a history variable: the
sockets an `epoll_ctl` has listed or changed since the last walk of `event_list`
and no stack thread has added to since. No action reads it; `NoLostWakeup` needs
it to say which events come with a wake-up and which, by the code, do not.

### LtranInstance - registration and logout

The control thread handles one message at a time, in the steps the forward
threads can see; the two forward threads walk the slots without a lock. Memory
of an instance and of a stack is "free" or "used", so that a use after free is
a state. Clients die at any moment.

### LtranTables - which stack a packet goes to

Connection and listener chains, the four messages of a `reg_ring`, half-open
entries and ageing, logout scans, the mutex that keeps `gazellectl` and the
receive thread apart, and the registration in two phases after ltran has
restarted.

### GazelleRing, VdevRings - the rings between a stack thread and ltran

`GazelleRing` has the four cursors (modulo `Mod`) and the operations of
`dpdk_common.h`. An enqueue is two steps (objects, then `cons.head`); the others
touch one cursor. `VdevRings` uses it in the three ways of `lstack_vdev.c` and
`ltran_forward.c`; the variable `use` says which one a behaviour is about.
`due` is history: what is on its way, in order. Mbufs have a reference count;
`held` are those lwip keeps for retransmission. ltran copies one packet at a
time and may die at any step (`Restart`), after which its memory is lost and
the rings are as they were. The backup buffer, a ring by index, is a sequence.

### StackStart - the start of the stacks

`init_protocol_stack` and the rest of `gazelle_network_init` in the main
thread, each stack thread up to its polling loop, each kernel event thread, and
the listen thread. A post, a test of a semaphore and a read of shared data is a
step each; what one thread does alone in between is one step that succeeds or
fails. Main sees only sums: it frees the arguments of the threads after `2 *
stack_num` posts of `thread_phase1`, and serves the application after
`stack_num` of `all_init`. `LSTACK_EXIT` stops every thread. `rare` says which
of three failures a behaviour may meet, and each property which of them it
excludes (see "What lies outside the bounds"); the run has behaviours with all
of them. There is one process: `is_primary` only decides which steps can fail.

### Sockets - descriptors, listeners and the choice of a stack

Application threads call socket, bind, listen, accept, connect, close, receive
and the option calls (`lstack_wrap.c`). Each call is cut at every access to
`conn_num` and at every RPC: the thread waits (`call`), the stack thread runs
the handler (`Stack...`) on the same records and replies. `conn_num` is changed by a
load and a store; only the search for the least loaded stack holds `socket_lock`.
Closing in a stack is two steps, `StackClose` (lwip and
`gazelle_clean_sock`) and `CloseFn` (the kernel gets the number back), because
between them nobody may be given the number, and after it somebody is
(`CleanSock` is what both ways of closing share). The
kernel hands out the lowest free number. `listen_next` makes a listening socket
a chain, and `Reach(d)`, what a walk from `d` meets, is the least set closed
under it; `master` is the socket the application knows. `Cfgs` are the settings
that change the paths: `listen_shadow`, `tuple_filter` and
`seperate_send_recv`. Connections and datagrams arrive, are refused and leave
(`Arrives`, `PeerLeaves`) at any time. lwip's own work is external.

Assumed of the application: it does not close a descriptor another of its
threads is using, does not connect a socket twice, and gives a socket up when
`bind` or `listen` failed. Assumed of the process: initialised, its RPC pools
not empty, `lwip_close` succeeds. Calls that only reach the kernel and change
nothing here, `fcntl`, `ioctl` and the closing of epoll descriptors are left
out.

### Dfx - gazellectl, ltran's and lstack's control threads

Three programs over stream sockets. With ltran, `gazellectl` asks ltran on a
connection of its own (`chan`), and what only lstack knows ltran fetches on the
long connection (`link`) on which the client registered; without ltran it asks
lstack. `lt` is ltran's control thread: while it is in
`handle_resp_lstack_transfer` (`"xfer"`) it serves nobody. `ls` is lstack's
control thread, with the stages of the registration; `ring` is the
registration of each stack thread, for which ltran's control thread is needed
too. A frame has a kind, which stands for the size of the structure, the
request it answers, and `eof`; its contents are left out, and so is the layout
of what `gazellectl` prints: a print function is whether it reads one frame or
reads on until `eof`. gazellectl may be interrupted, lstack may die, ltran may
stop by command and be started again. The time-out of 60 seconds may strike
whenever ltran waits. An answer that comes after it is read by
`reg_conn_msg_proc` as requests to register, a chunk at a time (a
`gazelle_stack_dfx_data` is longer than a `reg_request_msg`); whole chunks are
not recognised, the rest is too short and ends in a logout. Two things are left
out there: between two chunks ltran goes back to its loop and may handle another
event, while `LtLate` stays with the connection until it is empty; and in the
middle of a very large frame a chunk may look like a request. Both concern only
the time after a wait that was given up, which `AnswersMine` and `DialoguesApart`
except.

Merged or left out: connecting and writing the request are one step; a
connection that is closed before it is accepted is accepted and closed in one;
no limit on the backlog; a client waits with a new connection until ltran has
closed the old one (what happens if it does not is in `LtranInstance`); a
failing allocation or `epoll_ctl` in `dfx_server_msg_proc`, which leaves
`g_dfx_fd_cnt` one too high; lstack blocking in a write to a `gazellectl` that
does not read.

## 3. Runs

| run | shows | bounds and why they are enough | time |
|---|---|---|---|
| `LocklessQueue` | `NoStoreIntoPopped`, `CountSound`, `ImplementsFifo`, `EveryMessagePopped` | two pushers, two messages: with the stub a list of three, the longest in which a gap, the stub and a message behind both can occur; the theorems have no bound | seconds |
| `Rpc` | `SyncCallProcessed`, `NoUseAfterFree`, every call returns | one caller with four messages and one ARP peer, `SendLimit` 1: the smallest pool for which the theorems hold; these have no bound on threads or pools | seconds |
| `SendNotify` | `SkipIsSafe`, `ThreeSendsAtMost`, all data is sent, a refused writer is served | `expand_send_ring`, a ring of two, six writes, `call_num` modulo 8: the ring is filled three times, and `call_num` wraps below zero | seconds |
| `EpollWait` | `NoLostWakeup`, `ReadableUntilCtl`; until somebody calls `epoll_ctl`, every packet is read (`EveryPacketRead`) and every kernel message unless its edge is covered (`KernelServedUnlessCovered`) | two stack threads, one with a socket, one with the kernel events; one waiter with timeouts, a second thread; of two packets, two kernel messages and one `epoll_ctl` (of the waiter between two calls or of the other thread at any moment) any three: a packet comes while another is read, a message while the flag of another is cleared, either or both packets before, during and after the `epoll_ctl`; a ring of one, so that it is full; room for every event. The two invariants are proved without a bound | two to three minutes |
| `EpollWait_add` | violation: `epoll_ctl` covers an event added meanwhile | one socket, one packet | seconds |
| `EpollWait_kernel` | violation of `KernelServed`: the clearing of `have_kernel_event` covers an edge | two messages, the least that can do it; fairness as in the other runs | seconds |
| `LtranInstance_safe` | `NoUseAfterFree`, `NothingLeaked`, `StaleEntryStaysOff` | two processes of two threads, of which one is refused; two connections, three slots of which two are walked; the safety properties are proved for any number | a minute |
| `LtranTables` | the tables agree with what the stacks listen on and hold | three stacks, the third with the tid of an earlier one; two addresses, two connections, five client calls or two and a restart | under a minute |
| `VdevRings` | `NoReuseWhileHeld`, `RefsExact`, `DueIntact`, `EverythingLeaves` | a ring of three, cursors modulo 8 so that they wrap; seven packets, so that ring, backup (2) and `pkt_buf` (2) are full and one is dropped; one retransmission or failed post; one restart | a minute |
| `StackStart` | `ParamsIntact`, `ServesWhenAllUp`, `ExitAfterPools`, `StartupEnds` | two stacks, in all four configurations and with any of the rare failures; the safety properties are proved for any number | seconds |
| `Sockets` | `HeldIsLive`, `ListenCovers`, `NoOrphan`, `NothingMissed`, `RouteAgrees` | two threads and two stacks, three descriptors: a listener, its clone and one that is handed out again meanwhile; `conn_num` modulo 3, so that it wraps; two clients, a queue of one so that it is full; the combinations of calls are in `MCSockets`; all are proved without a bound | two minutes |
| `Dfx` | `AnswersMine`, `FrameFits`, `DialoguesApart`, `CommandEnds`, `Healed` | two stacks, so that an answer has a frame that is not the last; every command by itself and two pairs that meet in ltran's control thread; `MaxDfx` 1, with which a connection is refused while earlier ones are not yet closed; one restart of ltran; four connections, which the longest command needs; the safety properties are proved for any number | two to three minutes |

Deadlock is checked except where a bound lets the system stop: writes
(`SendNotify`), packets (`EpollWait`, `VdevRings`), connections
(`LtranInstance`), client calls (`LtranTables`, `Sockets`), commands (`Dfx`),
and where the start is over (`StackStart`).

### Further configurations

Three questions have a configuration of their own beside those of the table:

* `LtranInstance_live.cfg` (module `MCLtranInstance`): `GoneIsFreed`, a client
  whose connection is gone is logged out in the end, because
  `wait_forward_done` does not wait for ever. It passes in seconds.
* `LtranTables_reregister.cfg` (module `MCLtranTables`): `ReregisteredServed`,
  which TLC refutes (see below).
* `EpollWait_ctl.cfg` (module `MCEpollWait`): `CtlWakes`, `NoLostWakeup` without
  its exception; TLC refutes it in seconds (see below), with one socket, one
  packet, one waiter and one other thread.

Each module has a type invariant `TypeOK`. It is proved for `LocklessQueue`,
`Rpc`, `SendNotify`, `EpollWait`, `LtranInstance`, `StackStart`, `Sockets` and
`Dfx`; in the other modules, and for `CountExact` of `LtranTables`, it is checked
by adding the name to `INVARIANTS`.

### The four disagreements

* `EpollWait_add`. `raise_pending_events` (`lstack_epoll.c` 133-167) computes an
  event, takes `event_list_lock` and stores the event over `sock->events`. A
  packet whose event was added in between is in `recv_ring`, and `EPOLLIN` is
  gone. `del_data_in_event` looks again for this very reason ("check again avoid
  cover event add in stack thread", `lstack_lwip.c:857`).
* `EpollWait_ctl.cfg`. The same function lists a readable socket (155-161) and wakes
  nobody: the wakeup is put on no stack's list, `wait` stays locked. A thread
  that blocks in `epoll_wait` while another one adds a socket with data to the
  instance goes on blocking until some other event comes, with the event listed.
  `README.md:11` promises an interface fully compatible with POSIX for
  unmodified applications; `epoll_wait` reports what is added while it waits.
  In the trace the waiter walks an empty list and blocks, a packet arrives and
  is read into `recv_ring` (nobody is interested yet), the other thread adds the
  socket, and nothing is left that would wake the waiter.
* `EpollWait_kernel`. `lstack_epoll_wait` polls the kernel (486), gets 0, and
  stores FALSE into `have_kernel_event` (488). A message that arrives in between
  has its edge taken by the kernel event thread, `wakeup_kernel_event` sets the
  flag and unlocks the waiter, and then the store covers the flag: the waiter
  takes the token, loops, does not ask the kernel, and blocks. The watch is
  `EPOLLET`, so this message causes no second edge, and stays unread until
  another one comes. `examples/README.md:29` says that epoll returns when any
  data becomes ready. The run `EpollWait` shows that this is the only way to
  lose one: as long as `EdgeCovered` never holds every message is read.
* `LtranTables_reregister`. A client re-registers its connections before its
  listeners to "avoid creating new conn" (`lstack_control_plane.c:603`), but
  each stack has a ring of its own, and ltran reads the rings one after the
  other: the listener of one stack can be read before the connections of the
  next, and a packet in between opens a half-open entry at the wrong stack,
  which the late registration confirms.

### What lies outside the bounds

These are things the code does, found while modelling, which the runs exclude:

* `Rpc`: with a pool drained to its last messages, a freed message is reused
  while `poll_rpc_msg` still reads it. The pool has `RPC_MSG_MAX` = 2048
  messages (`lstack_thread_rpc.h:29`) and a socket at most three under way
  (`ThreeSendsAtMost`), so this takes a thread that sends on about seven hundred
  sockets at a moment when the stack thread does not run.
* `EpollWait`: a full `events[]` makes the kernel call fail with -1, which is
  added to the count; one-shot events can leave an empty entry; an epoll fd
  shared by two waiters has one `in_wait` flag, so `NoLostWakeup` is claimed,
  checked and proved for one waiter only. An event that `epoll_ctl` overwrites
  may never be read: `EveryPacketRead` is for runs without `epoll_ctl`.
* `SendNotify`: a write that fills the last pbuf and then finds the ring full is
  two calls, and its `remain_len` is left out. Once lwip has taken less than offered, `stack_send` may free
  the last message with data left (`AllDataSent` says so).
* `LtranTables`: two listening addresses of one tid in the same hash bucket
  (`Hash` is injective in the run); after a listen-close `conn->sock` names
  freed memory, and its counter may go below zero (`SockAlive` and `CountExact`
  say when not); a connection registered twice around a restart stays counted;
  reuse of a quintuple while messages about it are unread; a full table.
  Messages are handled one at a time, the code reads up to 32 in a row.
* `Sockets`: when `listen` fails on one of the stacks,
  `stack_broadcast_listen` closes the descriptor the application still holds;
  the close that a POSIX program makes next may hit a number that was handed
  out again. That the kernel's own `listen` fails after those of the stacks is
  not an action: it changes nothing in the stacks, and what follows is the
  application's close.
* `Dfx`: a request whose sender is gone before ltran looks is not read
  (`EPOLLHUP` comes with `EPOLLIN`), so a command that only waits a moment to
  "give ltran time to read cmd" (`ltran_dfx.c:425`) is lost when ltran is busy
  for longer; the limit on `g_dfx_fd_cnt` lets one more in than it says; ltran
  does not know the requests for `xstats` and `aggregate`, which lstack answers
  without it; with ltran a late answer costs the client its registration, which
  it then repeats.
* `VdevRings`: `reg_head` advances when a post fails. After two posts that fail
  on a full ring a later post can overwrite a record ltran has not read
  (`MaxOdd` is 1). A retransmission takes another reference (`TxAgain`);
  `eth_dev_output` also rewrites the lengths and offsets of the mbuf
  (`lstack_ethdev.c` 812-862) while ltran may be copying it, and no property
  speaks of these. What an ltran that died had copied and not yet given back
  waits for the next packet (`Stranded`).
* `StackStart`: the comment "stack_num * 2: stack thread and kernel event thread
  will post sem" (`lstack_protocol_stack.c:612`) is not true of a stack that
  fails in `ethdev_init` with ltran, or whose kernel event thread could not be
  given a name: it posts a third time in the place of somebody else, and main
  frees arguments another thread has yet to read. A listen thread that cannot
  bind does not post, and main waits for ever. "exit in main thread, avoid
  create mempool and exit at the same time" (459) does not hold when main
  fails to create a second stack thread. A stack that fails after the creation
  of its kernel event thread is freed under it, and stays in `stacks[]`, where
  `dpdk_ethdev_init` may write to it.
* ltran's receive thread does not free a packet for no stack when kni is off
  (`ltran_forward.c` 367-399).

## 4. Fairness

* The stack threads, ltran's forward threads and the kernel event thread are
  loops that never block: weak fairness on their steps.
* Strong fairness is used where a loop visits several things in turn and each
  only now and then (`ReadRecvList`, `LoadInWait`, `WakeupKernelEvent`,
  `LeaveInstance`, `EndPass`, `HandleHup`): the loop gets to each of them in
  every round.
* lwip takes data in the end and a pool is not empty for ever (`LwipTake`,
  `Replenish`, `RxRefill`): strong fairness. They are external, and nothing is
  sent or received without them.
* `LtranInstance` assumes that a 64-bit loop counter does not come round while
  `wait_forward_done` looks away (`NoWrap`, from some time on), with `LoopMod` 3
  in the run.
* `StackStart`: every thread goes on; the waits for semaphores are spins, and
  the scheduler is preemptive.
* `Dfx`: weak fairness of a `gazellectl` that was started, of ltran's control
  thread, of lstack's control thread and of its stack threads. Each of them is a
  loop that blocks only where the model waits; a read of ltran returns after 60
  seconds (`SO_RCVTIMEO`), which is a step of its control thread. Nobody has to
  type a command, start ltran, interrupt or die.
* Application threads: only that a call under way goes on, and that a
  caller told of an event serves it; no `epoll_wait` has to time out. Nothing is
  assumed of writes, connects, packets or deaths.

## 5. Theorems

All are checked by TLAPS, for any values of the constants that meet the
assumptions in the modules.

**LocklessQueueProofs.** `IndInv` says what every thread inside push, pop or
count may rely on: the chain from `tail` to `head` (`ListIntact`), who owns a
node before its exchange (`PushPrivate`), which link a pusher is about to fill
(`LinkPending`), where the stub is in each stage of pop (`PopStage`), how the
FIFO relates to the chain (`Mirrors`), that without an excuse the first link is
there (`Excused`). None of the safety properties is inductive alone: a late
store is harmless only because its target is still in the chain, and that is
known only from the pusher's own stage. There is one lemma per action.
`TypeCorrect`, `ListIntactCorrect`, `NoStoreIntoPoppedCorrect`,
`OnePlaceCorrect`, `CountSoundCorrect` follow, and `Refinement` maps each step
to a step of `MpscFifo` or a stutter.

**SendNotifyProofs.** `CallNumBalance`: `call_num` is the messages queued or in
hand less the increments due, modulo its width. It is inductive together with
`TypeOK`; that a message is only posted while fewer than three are under way
bounds the difference, so that zero modulo the width means zero (`CallNumMod >=
4`). `SkipIsSafe` and `ThreeSendsAtMost` follow.

**EpollWaitProofs.** `TypeCorrect` needs no assumption: in particular
`recv_ring` is never overfilled. `NoLostWakeupCorrect` assumes one waiting
thread and `MaxEvents > 1`, and nothing of the other threads, which call
`epoll_ctl` and read as they like. `HandshakeInv` says that `in_wait` is only
false under a waiter when an unlock is on its way, and that what is listed since
the walk either has a wake-up coming or is in `by_ctl`; that the steps of other
threads keep the latter is `CallerHandshake`. `ReadableUntilCtlCorrect` is
for any number of threads and sockets and with kernel events; it assumes that
`events[]` has room for all (`Cardinality(Sock) < MaxEvents`), because the -1 of
a kernel call without room makes the caller overlook an entry. `QuietInv` says
in whose hands an edge-triggered entry is after it left `event_list`.

**StackStartProofs.** For any number of stacks: `TypeCorrect`,
`ParamsIntactCorrect`, `ServesWhenAllUpCorrect`, `ExitAfterPoolsCorrect`. What
main knows is a sum, so the invariant counts (`Counted`): while main waits,
`thread_phase1` is the number of stacks whose thread has made its last post
plus the number of those whose other post has been made, by the kernel event
thread or in its place. Each is at most `N`, so a sum of `2 * N` means that
both are all stacks (`Settled`), and that stays so. `StackShape` and `MainShape`
say what the place of a thread tells of the rest; without them neither count is
kept, because it depends on whether a kernel event thread exists which posts a
failed stack owes.

**LtranInstanceProofs.** For any number of processes, threads, connections and
slots, and loop counters of any width: `TypeCorrect`, `NoUseAfterFreeCorrect`,
`NobodyHoldsVictim`, `StaleEntryStaysOffCorrect`, `NothingLeakedCorrect`. Three
facts carry them. A slot's tick only grows, and a logout moves it before
anything else, so a remembered tick that is current belongs to the instance
listed now (`TickShape`, `StackShape`, `ConnsShape`). A forward thread takes an
instance only while it is listed and counts a pass only with empty hands, so as
long as it holds one that has been unlisted its counter is the one
`wait_forward_done` remembered; a counter that comes round can only prolong the
wait (`HoldShape`). And a lookup by pid finds the instance of this connection
and not of an earlier one of the same process (`ClientShape`, `FoundIsMine`),
without which a late message of a thread would be answered from the wrong
instance. `cur_instance_num` is a cardinality (`SlotCount`).

**RpcProofs.** For any number of threads: `TypeCorrect`,
`SyncCallProcessedCorrect`, `NoUseAfterFreeCorrect`, `QueuedOnceCorrect`, under
`AppPool >= SendLimit + 3`. A message is in one place: its pool, the queue, its
caller's hands, the stack thread's (`PoolShape`, `CallerShape`, `FlightShape`,
`StackShape`). The exception is the one look at `msg->func` after `stack_send`
has given the message away; `PassedShape` says that it is then queued again or
at the end of its pool, behind it at most the message of one synchronous call
whose caller was unlocked already. `Accounted` counts: what is not under way, and not in the
caller's hands, is in the pool. The condition is on the theorems and not on the
constant, because nothing in the code enforces it.

**SocketsProofs.** For any number of threads, stacks and descriptors:
`TypeCorrect`, `HeldIsLiveCorrect`, `RouteAgreesCorrect`, `NoOrphanCorrect`,
`NothingMissedCorrect`, `ListenCoversCorrect`.
A descriptor has one holder: the application, a call about to return it
(`Given`), a stack that has just accepted it (`Accepting`), a call that closes
it (`Closing`), or, for a clone, the list of a listener; and there is what
`stack_broadcast_close` has yet to close of a list it has taken apart (`Doomed`,
`NextOf`). `RoleShape` says that these exclude each other, `LinkShape` and
`ListShape` that `listen_next` makes disjoint lists that end. It has to be said
of every stage of a call, because the first socket of a list is freed, and its
number may be handed out, while the call goes on with a successor it noted
before. The lemmas on `Reach` (`ReachLeast`, `ReachClosed`, ...) replace
induction along the list: to bound what a walk meets, a set that is closed under
`listen_next` is given. `RouteAgrees` needs the stage of a call that connects
(`UseShape`, `Answered`): `do_connect` sets the type of the socket only when the
call is back from the stack. `NothingMissed` needs a second invariant on top,
`MissInv`, about what is in the queues: an accept waits in the queue of the stack
that has its socket, in front of any call that closes it (`EntryShape`); what it
found is still there, or another accept of the same descriptor took it, and then
nothing was there all the while; the sockets of a list are of one kind
(`TcpShape`), so that what `recvfrom` found is never taken by an accept, and
stays at or ahead of the place its walk has reached (`FoundShape`).
`MinAcceptFinds` shows that `get_min_accept_sock` finds a socket whenever one of
the list waits: among those of a list there is a first (`FirstOf`), because
lists end.
`ListenCovers` needs a third, `CoverInv`, about a `listen` that is half way round
the stacks: which of them have exactly one listener by now (`Listening`), whether
the one master is there already (`MasterSet`), and that the request which makes
the next clone or listener is in the queue of the stack the loop stands at
(`TurnShape`, `PlaceShape`). Two things are not obvious. The master is chosen by
`conn_num` before the loop and found again in it, which works because the choice,
also the default of stack 0, is always a receiving stack (`MinReceives`). And a
`listen` on a socket that listens already would make second clones; it never
gets to its end, because `stack_listen` refuses the first of them and then
everything is closed, unless the socket's own stack is the only receiving one
and there are no clones (`AgainShape`). That a step elsewhere touches nothing of
this is argued once (`Elsewhere`, `OthersKept`).

**DfxProofs.** For any number of `gazellectl` processes, of stacks and of
connections, any restarts of ltran, and whatever the users type: `TypeCorrect`,
`AnswersMineCorrect`, `DialoguesApartCorrect`, `FrameFitsCorrect`. The invariant
follows three dialogues.
* Registration: the stage of lstack and that of its instance in ltran determine
  what is on the way in either direction (`LinkShape`, `DnShape`). While lstack
  waits for the answer to its second message, requests for statistics may
  already be queued behind that answer, because ltran takes the process for
  attached as soon as it has answered; that is why the invariant speaks of the
  whole queue and not of its first message.
* Statistics on the long connection (`Dialogue`): unless a wait was given up, a
  request is not read yet, or is being answered, or its answer is there, and
  only one of these; only the last frame has `eof`, and when ltran has read it
  nothing of the transfer is left. This is what makes `AnswersMine` inductive:
  ltran reads an answer to its end also when its `gazellectl` has gone. `late`
  gives it up, until the long connection is closed.
* `gazellectl` and its server (`CtlShape`, `ReadShape`, `ChanShape`, `LtShape`):
  which request a process is at, which of its connections are unused, and how
  far the answer was read determine what is still on the way. "lstack show"
  needs more than a kind for each request: ltran's own frames, of which the last
  has `eof`, come in front of those it passes on (`TotalsFirst`), and it starts
  to pass on only when its own are written, so that the second loop of the print
  function begins exactly where they end.

`Counted` says that `g_dfx_fd_cnt` is the number of open connections. `Kept`
states what a server may do to a connection without breaking what a
`gazellectl` relies on; each action of ltran and lstack is shown to do only
that, so the part of the invariant about `gazellectl` is argued once.

In `SocketsProofs`, `RpcProofs`, `LtranInstanceProofs` and `DfxProofs` the
inductive invariant was checked by TLC on the instance of the run before it was
proved.

**Only model-checked:** everything about liveness (fairness is out of the
prover's reach), and all of `LtranTables` and `VdevRings`.

## 6. Not modelled

* `epoll_close`, `poll`, the moving of the kernel watch between stacks.
* The merging of data into the last pbuf of a send ring; same-node rings.
* Flow rules and the passing of packets between processes (`lstack_ethdev.c`).
* The contents of statistics and the counters they are read from.
* Configuration, DPDK set-up, fork and signal wrappers: sequential code or input
  and output. `components` in `PROJECT.json` gives the reason for each.

## 7. Plan

In this order, most important first:

1. Theorems: `OneLiveConn` and `OwnerServed` of `LtranTables` and the cursors of
   `VdevRings`, which are hard for the provers: sequences from which elements
   are removed in the middle, and arithmetic modulo `Mod`.
2. `EpollClose` and `PollWait`, extending `EpollWait`: a closed epoll fd that
   members still name; the wakeup of a thread's poll calls.
3. `SendRing`: `GazelleRing` as a socket's send ring: appending to the last
   pbuf under its lock, `do_lwip_send`, `replenish`; refinement of the counts
   of `SendNotify`. Then same-node rings.
4. Rings of the flow-rule and packet-transfer messages between processes.
