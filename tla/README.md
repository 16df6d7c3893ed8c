# Verification of FRR: zebra's RIB, BFD sessions, RCU, seqlocks and watchfrr

This directory holds TLA+ specifications of parts of FRRouting, TLC
configurations that check them on small instances, and TLAPS proofs for all
instances. `PROJECT.json` maps every definition to the lines it models and lists
components, runs, mutants, findings, hazards and theorems.

## 1. Inventory

FRR is a suite of daemons. Each runs a single-threaded event loop
(`lib/event.c`), some with helper pthreads. Routing daemons compute routes and
send them over ZAPI to **zebra**, which chooses the best route per prefix, puts
it into the kernel through an asynchronous **dataplane pthread**, tells the
owners how it went and redistributes the outcome. **bfdd** tells daemons whether
a neighbour is alive. **mgmtd**, **vtysh** and **watchfrr** configure and
supervise.

| Part | State | Operations | What makes it hard | Correct when |
|---|---|---|---|---|
| zebra RIB (`zebra_rib.c`) | `re_list`, `selected_fib`, status flags, meta queue | add, delete, `rib_process`, result handling | results arrive after the entry changed, was replaced or freed | kernel = best route at rest; no dangling pointer; results find their entry |
| zebra dataplane (`zebra_dplane.c`, `*_netlink.c`) | context queues, kernel table | batch, answer, read notifications | its own pthread, refused requests, lost acknowledgements, shortcuts | flags tell what the kernel has |
| zebra redistribution, owner notes | what each client was last told | update, delete, notify | several call sites at different times | the last word agrees with the FIB |
| zebra nexthop groups, NHT | reference counts, trackers | acquire, release, resolve | kept and resurrected groups | nothing freed in use |
| zebra label, table managers, GR | chunks, stale marks | assign, release, stale sweep | client restarts | chunks disjoint, nothing stale stays |
| bfdd sessions (`bfd.c`, `bfd_packet.c`) | session, timers, discriminators | packets, timers, configuration | loss, reordering, restart, both ends changing timers | Up only when two-way; no false Down; clients told |
| watchfrr | phases, child pids | ping, restart, kill | merged signals, timers racing exits | every dead daemon restarted |
| lib primitives (`seqlock`, `frrcu`, `workqueue`) | atomics, queues | wait/post, defer | lock-free interleavings | no lost wake-up, no early free |
| bgpd session layer | FSM, two connections, I/O and keepalive pthreads | open, collide, transfer, stop | simultaneous opens, shared queues | one connection survives |
| ospfd, ospf6d, isisd, eigrpd, vrrpd, ldpd, pimd | neighbour and protocol machines | events, timers | unreliable delivery | adjacency and election properties |
| mgmtd | datastores, locks, transactions | lock, commit | timeouts racing replies | all or nothing commit |
| vtysh, staticd, pbrd, sharpd, nhrpd, pathd, babeld, ripd | configuration and clients | | | clients of the above |

`PROJECT.json` lists every part with its status and every hazard at its line.

## 2. Modules

| Module | Content |
|---|---|
| `ZebraRib` | one prefix of zebra: RIB, dataplane pthread, kernel, owners, one redistribution client |
| `MCZebraRib` | instances of it |
| `ZebraRibProofs` | its theorems about the node: types, pointers, assertions, sequence numbers |
| `ZebraFibProofs` | the kernel and the FIB at rest, route-map verdicts |
| `ZebraReportProofs` | what zebra reports at rest: flags, redistribution, owners, failures |
| `BfdSession` | two bfdd processes, the session between them and the network |
| `MCBfdSession` | instances of it |
| `BfdSessionProofs` | its theorems about the handshake, what clients are told, and the timers |
| `Frrcu` | `lib/frrcu.c`: threads, the queue of retired objects, the sweeper |
| `MCFrrcu` | instances of it |
| `FrrcuInv` | its inductive invariant, lemmas about queue, epochs and threads, and a thread's own steps |
| `FrrcuProofs` | the steps of threads that come, go and retire, the sweeper's, and the theorems |
| `Seqlock` | `lib/seqlock.c`, both builds |
| `SeqlockSpec` | what `seqlock.h` promises |
| `MCSeqlock` | an instance of `Seqlock` |
| `SeqlockProofs` | its theorems |
| `Watchfrr` | watchfrr, the daemons it watches and the commands it runs |
| `MCWatchfrr` | an instance of it |
| `WatchfrrProofs` | its theorems |

### ZebraRib

State. `routes` is `dest->routes`: the list is newest first, so entries are
numbered as they are linked and the list order is the descending order of the
numbers. An entry holds its announcement (`adv`: type, distance, metric,
nexthop-group id, FIB override), the verdict on its nexthop (`active`), the flags
`SELECTED`, `CHANGED`, `REMOVED`, `INSTALLED`, `QUEUED`, `FAILED`,
`ROUTE_REPLACING` and `dplane_sequence`. `qindex` is the sub-queue the node
waits in, `early` the `EARLY_ROUTE` sub-queue. `dg_update_list`, `work_list` and
`rib_dplane_q` are the three queues a context passes; `kern` is the kernel's
route, `nlq` the unread kernel notifications. `owner` and `redist` are what the
clients were last told.

Actions. One per handler, with every state change the handler makes:
`rib_add_multipath`, `rib_delete`, `ip_protocol_rm` (inputs);
`process_subq_early_route_add`, `process_subq_early_route_delete`,
`rib_process`, `rib_process_result`, `rib_process_kernel_route_notif` (main
pthread); `kernel_dplane_process_func`, `kernel_update_multi`,
`dplane_incoming_read` (dataplane pthread); `KernelRouteLost` (environment).
Handlers of the main pthread are atomic because nothing else writes the RIB; the
dataplane pthread shares only the mutex-protected queues.

Abstractions. One prefix, one table, no source prefix. A route type is one instance of
a protocol, so the comparison of instances is gone with it. Static types carry
`ZEBRA_FLAG_RR_USE_DISTANCE`, as staticd sets it on every route: a static route replaces
or deletes only one with its metric and its distance. A nexthop group is an id;
`nexthop_active_check` is reduced to the verdict of the `ip protocol`
route-map. System types are connected routes on interfaces other than loopback.
`zebra_router_notify_on_ack()` holds (no asic offload). Providers that ask for
system-route notifications (`dplane_sys_route_add`) are absent. The sequence
number does not wrap. Import tables, EVPN, labels, NHT and startup sweeping are
left out. `kernel_update_multi` treats a batch one context at a time: the
answers of a batch reach `rib_dplane_q` in order, and the main pthread may take
them before the rest of the batch is answered, which allows more interleavings
than the code.

### BfdSession

State. `bs[n]` is the `struct bfd_session` of each end, including its timers
(ticks left, or `Off`), `txq` (its control packets in flight), `echoes` (an echo
packet is in flight) and `note` (what its clients were last told). `heard`
records the discriminators each end has accepted, for `TwoWay`.

Actions. Each C function is an operator from session to session with the name
of the function; the steps are the four timer callbacks, reception of a control
or an echo packet, loss, a configuration change (`Apply`), interface loss and
return (`Disable`, `Enable`), process restart (`Restart`) and, in timed runs,
`Tick`. bfdd is single threaded, so every callback is one step.

Time. With `Timed = FALSE` an armed timer may fire at any moment: safety is
checked for all timings. With `Timed = TRUE` a tick is the unit of the
intervals, packets arrive in the tick they are sent, and nothing due is
postponed. Jitter (75-100 % of the interval, 75-90 % with multiplier 1) is the
guard of `bfd_xmt_cb`: the packet may leave in the last quarter of the interval
in force when the timer fires. In whole ticks it shows for intervals of 4 ticks
or more, so in the slow interval before a session is Up; at the rates of
`bfd_rates` it rounds to nothing.

Abstractions. Single-hop software sessions. SBFD, hardware offload,
authentication, multihop TTL and profiles (only the effective configuration is
applied) are left out. VRF sockets are one flag per session; another session may
keep the VRF's receiving socket open after `Disable`. A restarted bfdd applies its
configuration before it handles packets. The desired echo interval is one tick,
and echo follows the path where the peer's address is known. The queue bound
`MaxQ` drops a packet sent into a full channel, which is one more way to lose it.

### Frrcu

State. `rcu[t]` is the thread's seqlock (0 when it is not held), `depth[t]` its
nesting, `rcu_seq` the global counter, `rcu_heads` the queue of what was retired,
cut into epochs by markers. An entry carries `by`, the thread that has appended it
and has still to link it to its predecessor: `atomlist_add_tail` is two steps, and
the sweeper finds only what is linked. The same function puts a thread on
`rcu_threads`, the threads the list reaches from its head: `last` is the list's pointer
to the last one, `adder[u]` the thread that has still to link `u`, and `up[u]` where `u`
hangs until then, so that a thread linked behind a half-linked one is known and yet not
reached. `spc`, `rcuval`, `todo` and `cur` are the
sweeper's place, its epoch and its walk over the threads. `ptr`, `refs` and `freed`
are a client: a shared pointer, the objects each thread still looks at, the objects
given back.

Actions. One per access to shared memory, so that `rcu_read_lock`,
`rcu_read_unlock`, `rcu_bump`, `rcu_enqueue`, `rcu_thread_unprepare`,
`rcu_shutdown` and `rcu_main` interleave inside. `pc[t]` is the place in the
function and `ret[t]` the caller that `rcu_bump` returns to. `MaxRegistering` bounds
the threads that are inside `rcu_threads_add_tail` at a time. The code has no such bound
(`rcu_start_mtx` is dropped before the call); section 4 says what depends on it.

Abstractions. Accesses are sequentially consistent: weaker orders are not
modelled. Waiting for a seqlock is one step here; `Seqlock` has what is inside.
`rcu_enqueue` by the sweeper itself (from a free function) and the statistics are
left out. Deleting a thread from the list is one step, and a link that starts from a
thread already deleted is made as if its memory were still there. `rcu_dirty` is kept with its race: two threads may overwrite each other's
note, after which the epoch is bumped "a bit later", as its comment says.

### Seqlock

State. `pos` is the word: held bit, waiters bit, a counter modulo `M`. `n`, a
history variable, is the counter that does not wrap. `cur[t]` is what a thread last
read. `futex` picks the build: a futex, or a mutex and a condition.

Actions. One per access to the word or system call. `seqlock_wait` and
`seqlock_timedwait` share their loop; a timed wait also returns FALSE on `EAGAIN`
and `EINTR`. Callers keep the numbers they wait for within `Span` of the counter, a
quarter of the circle at most; this is the condition of the code's assertions.
Nobody bumps a lock that its owner is about to take or release. `SeqlockSpec` has only
whether the lock is held, the number reached and what each caller waits for.

### Watchfrr

State. `gs` is watchfrr's memory: phase, `numdown`, `numpids`, each daemon with its
descriptor and timers, each `restart_info`. Outside it are each daemon's process, the
process of each command, that of "write integrated", and `sigchld`, one pending bit as
signals merge. `due` says that a callback has run since the signal came: the loop looks
for signals before every callback (`event.c:2449`), so the next step of watchfrr is
`sigchild`.

Actions. One per callback of the event loop, as an operator on `gs` with the name of
the C function (`daemon_down` calls `try_connect`, `phase_check`, `try_restart`,
`run_job`...); and the steps of the world: a daemon crashes, hangs, is too busy to
accept, resumes, answers; a command stops and starts its daemons, fails or gets
stuck; a second passes. Timers fire when the loop gets to them. Seconds are counted
where the code compares them.

Abstractions. A connect that is still in progress (`check_connect`,
`wakeup_connect_hanging`) is modelled only up to the failing read on the unconnected
socket. A daemon with a full accept queue empties it in time; if it never did,
watchfrr would go between CONNECTING and DOWN without restarting it. Clock jumps, a
failing `socket()`, `--dry`, the operational timeout, watch-only mode and the
signals that end watchfrr are left out. "ignore" is not given while a daemon is
CONNECTING or busy. `phase_check` and `sigchild` go through the daemons one by one;
`try_restart_each` and `restart_done_each` say what the whole loop does.

## 3. Runs

Passing runs of `ZebraRib`. `TwoProtocols` has a static and an IS-IS route that
changes its nexthop, the least that has a winner, a loser and an in-place
replacement; `Mixed` has a prefix connected on two interfaces, an NHRP shortcut that
overrides the FIB, IS-IS, and static routes of distance 1, 200 (a floating route, which
stays beside the first) and 255 (never used).

| Run | Checks | Instance |
|---|---|---|
| `rib_core` | types, the assertion of `rib_process`, kernel, flags and redistribution at rest, `VerdictsKept` | `Mixed`, kernel nexthop groups; adds, deletes, route-map changes; 4 external events |
| `rib_refused` | no false success, `OwnerTold` | `TwoProtocols`; the kernel refuses requests, acknowledgements are lost |
| `rib_faults` | structure of the node, `Converges` | all faults and events, allow-delete, dataplane queue limit 0 |

Passing runs of `BfdSession`.

| Run | Checks | Instance |
|---|---|---|
| `bfd_echo` | types, `TwoWay`, `ClientView`, `EchoRuns` | echo on, off, refused; loss, duplicates, restarts, interface loss |
| `bfd_rates` | `StaysUp` | timed: rate changes and demand mode at either end, any one packet lost |
| `bfd_live` | `ClientView`, `DetectionArmed`, `Recovers` | timed: demand, passive, shutdown, restarts and a loss |

Passing runs of the others.

| Run | Checks | Instance |
|---|---|---|
| `rcu` | types, `NoUseAfterFree`, `PopSafe`, `EndEmpty`, `SweeperAdvances` | the main thread and one that comes and goes, two objects, nested locks, one shutdown, one registration at a time |
| `seqlock` | types, `NoLostWakeup`, `CalInRange`, `Implements` | two bumpers, an owner, two waiters, four counter values, both builds |
| `watch` | types, `NumdownExact`, `GlobalAlone`, `RestartJustified`, `Recovers` | zebra and one daemon, any one fault, every set of daemons alive at the start |

No run reorders BFD packets: channels that hold two packets in any order are beyond
TLC together with the other faults. `BfdTwoWay` and `BfdClientView` are proved with
reordering. Nor does a run combine shutdown with interface loss, which `BfdClientView`
covers too.

Bounds. `MaxEnv` counts external events: everything the system does on its own is
unbounded. Four or five events suffice for a route to be added, replaced, beaten
and withdrawn with results in flight, and for the loser to return. `DplaneLimit` 2
lets contexts pile up and the limit be reached; 0 makes it bite always. For BFD,
`MaxQ` 1 in untimed runs keeps the channel finite, 6 in timed runs is never
reached; `MaxLoss` counts losses in timed runs, untimed losses are unlimited.
Untimed BFD runs use the symmetry of the two ends, which start alike; runs with a
temporal property do not. Two threads and two objects in `rcu` let three epochs be
open at once. Three threads are beyond TLC even with `MaxRegistering` 1 (more than 30
million states without an end); the theorems of section 5 are for any number. In
`seqlock` the counter starts just before it wraps and stops at
`MaxN`. `watch` has one fault in a behaviour, which already lets a command for one
daemon and the one for all overlap.

Deadlock. The RIB at rest with its external events used up, and an untimed BFD
session with its timers off (shut or passive), really may stop, so these runs do
not check for deadlock, nor does `rcu`, whose threads may all have ended. Timed BFD
runs, `seqlock` and `watch` do.

Fairness. `rib_faults` assumes weak fairness of each pthread as a whole: an event
loop with runnable work runs something, not any particular task. `bfd_live`
assumes that due timers are served and packets delivered, so that time goes on;
`Lose`, `Apply` and `Restart` are bounded by the run. Its weak fairness is written
with the enabling condition spelled out (`Busy`). `rcu` assumes that the scheduler
runs every thread and that every reader comes to its outermost unlock, as FRR's
event loop drops the lock around every poll. `seqlock` assumes strong fairness where
a thread needs a mutex that others take in turn, or a compare-exchange that may fail
spuriously. `watch` assumes that the loop runs what is due, that commands which are not
stuck end, and strong fairness of the two steps that wait for the loop to have no
input left.

## 4. Where the code and its comments differ

Three runs must find a counterexample; `PROJECT.json` quotes the comment.

| Run | Disagreement |
|---|---|
| `bad_lost_stale` | a late kernel deletion of a losing route puts that route back over the winner |
| `bad_rcu` | a thread that registers behind a half-linked one is not seen by the sweeper, and what it reads is freed |
| `bad_watch` | `sigchild` reaps one child for a signal that may stand for two, and the other is never reaped |

The same models show more of them. They explain the limits of the passing runs and
are kept here for whoever changes this code:

- `zebra_rib.c:1540`: the withdrawal of a redistributed route is suppressed for an
  announcement that is made only if its result still finds the entry in the FIB.
  `RedistAnnounced` therefore speaks of the route in the FIB, not of withdrawals.
- `zebra_dplane.c:8337`: the early answer to a same-group update overtakes older
  results, so the owner's last word can be REMOVED; after a refused install it sets
  INSTALLED falsely. `OwnerTold`, `InstalledInKernel` and `FailureReported` are
  checked without kernel nexthop groups.
- `zebra_rib.c:736`: a refused hand-over is logged and neither retried nor reported,
  so `rib_refused` leaves it out.
- An override in the FIB over a better selected route is told BETTER_ADMIN_WON when
  it is processed again, so `OwnerTold` is checked without overrides. Redistribution
  follows the override, not the selected entry as `zebra_rib.c:1481` says.
- `zebra_rib.c:4854`: a route-map change skips the unchanged entries of a node queued
  in sub-queues 0 to 5 (a connected one, say), and nothing makes up for it.
  `RIB_ROUTE_ANY_QUEUED` (`rib.h:264`) covers 6 of 12 sub-queues. `VerdictsKept` says
  that this skip is the only way to lose a verdict.
- `zebra_rib.c:1277`: the newest of equal routes wins, not the oldest.
- `zebra_rib.c:3044`: the path called dead is reached by every static route: the kernel
  reports it with metric 20 and distance 0, which no static route has.
- `zebra_rib.c:2103`: `ROUTE_REPLACING` stays on an entry that becomes the old side
  before its own result.
- `bfd.c:1434`: leaving demand mode during a poll, or polling from demand mode at a
  slow own rate, can bring the session down without loss; at unequal rates so can
  one lost Final (`bfd.c:1738`). `bfd_rates` keeps to changes between polls
  ("settled") at rates within a factor of two.
- `bfd.c:545`: a packet already queued brings a disabled session Up. `bfd.c:546`: an
  interface flap takes a shut session to Down and its state machine runs again,
  without a detection timer, so `DetectionArmed` is checked without interface loss.
- `bfd.c:1767`: a timer change requested while a poll is in progress counts as
  acknowledged by the Final of that poll, and the peer's detection timer may fire.
- `bfd_packet.c:1542`: the peer's Poll makes a Down session transmit fast.
- `bfd.c:1967`: a session made passive while Down comes Up without a transmission
  timer until the next Final.
- `bfd.c:1872`: echo is not restarted after shutdown and no shutdown, so `bfd_echo`
  has no shutdown.
- `frrcu.c:187`: the disagreement of `bad_rcu` needs two threads inside
  `rcu_threads_add_tail` at once. FRR's own pthreads are made by one thread, so it takes
  an external thread (`frr_pthread.c:270`, gRPC's for instance) registering beside
  another one or beside `frr_pthread_run`. `rcu` and the theorems of section 5 have one
  registration at a time.
- `frrcu.c:234`: the comment says that the free happens after the release below it; the
  sweeper may run it as soon as the thread is off the list.
- `watchfrr.c:606`: `daemon_down` does nothing for an ignored daemon, so its crash goes
  unnoticed even after "watch" is given again. `Recovers` leaves such daemons out.
- `watchfrr.c`: the command for one daemon may run beside the one for all once zebra is
  up again; only the start of the one for all waits (`GlobalAlone`).
- `watchfrr_vty.c`: vtysh dying between the start and the end of reading the
  configuration leaves `reading_configuration` set, and commands that are stuck are
  not killed any more.

## 5. Proofs

The theorems hold for every value of the constants that satisfies the named
assumption of the module: `RibAssumption`, `BfdAssumption`, `FrrcuAssumption`,
`SeqlockAssumption`, `WatchfrrAssumption`. They say that the constants have the shape
the code gives them. Four conjuncts are worth a word: a kernel route is never equal to
`None`, which stands for no route; threads and daemons are finite sets, so that they
can be counted; `4 * Span <= M` in `Seqlock` is the condition of the code's own
assertions; two `Nodes` share a BFD session. Where a theorem needs more, its `ASSUME`
says so.

### zebra, the node (`ZebraRibProofs`)

- `RibTypeCorrect`, `RibSelectedFibLinked`. They need each other: `selected_fib`
  indexes `routes` in the update and delete handlers. The inductive invariant is
  `TypeInv == TypeOK /\ SelectedFibLinked /\ Ranked`; `Ranked` says that every set of
  entries has a newest one, which the selection takes.
- `RibSelectedUnique`, `RibRemovedQueued`: the assertion of `rib_process` that one entry
  at most is SELECTED, and that a removed entry stays in a node that is queued. Both are
  inductive relative to `TypeInv`. `rib_process` clears the flag on `old_selected` alone,
  so the first one rests on itself: that entry was the only one.
- `RibSequenceIdentity`, `RibQueuedInFlight`. Inductive with `SeqBound` (no number
  above `seq` is in use), which makes each new number fresh. The queues are sequences;
  the proof treats their contents as sets of contexts and shows that each step moves a
  context from one to the next.

None of these has a hypothesis: they hold under every fault and event.

### zebra, at rest (`ZebraFibProofs`, `ZebraReportProofs`)

What holds once both pthreads are idle follows from an invariant about what is in
flight.

| Theorem | Hypotheses | Invariant |
|---|---|---|
| `RibFibMatches` | nothing refused, nothing lost, `NoTwins` | `OnItsWay`: the contexts in the two queues, served in order, take the kernel from what it holds to `Intended`, the route of `selected_fib`. `FibInv`: the selection is up to date unless it is due, and an announcement replaces the entry it equals |
| `RibVerdictsKept` | none | an action property: a step leaves every entry `Judged` (it has the current verdict, is marked for a selection that is due, or is removed), unless it was not, or the step is the skip behind `RIB_ROUTE_ANY_QUEUED` |
| `RibInstalledTruth` | no faults, nothing lost, `NoTwins` | `FlagInv`: no two contexts share a number, and the entry that will be INSTALLED when all are answered is the active entry in the FIB |
| `RibRedistAnnounced` | no faults, nothing lost, `OverridesReplace` | `Announced`: the client has the route in the FIB, or a result that will announce it is to come. `Apart`: a selected entry that is not in the FIB has another owner than the one that is |
| `RibOwnerTold` | no refused hand-over, `NoOverrides`, `BehindMask`, `~KernelNexthops` | `InOrder`: requests are answered in the order they were made. `Retracted`, `Told`: an owner whose last word is wrong will hear more, and the announcement of the route in the FIB comes after the withdrawals before it |
| `RibInstalledInKernel` | no refused hand-over, `~KernelNexthops` | `Newest`: the last request was made for the entry in the FIB. `Lasting`: it waits, or the kernel served it last and its answer is on the way, or the flags and the owner show how it went |
| `RibFailureReported` | the same | the same, and `Retracted` |

"Nothing lost" is `"lost" \notin Events`, "no faults" `Faults = {}`, "no refused
hand-over" `"enqueue" \notin Faults`, and "nothing refused" excludes "kernel" too but
allows lost acknowledgements. `OverridesReplace`: an announcement that overrides the FIB
is not of a type of which one owner can have several (only NHRP sets the flag).
`NoOverrides`: no announcement overrides the FIB. `BehindMask`: no type is filed in a
sub-queue that `RIB_ROUTE_ANY_QUEUED` covers. `~KernelNexthops` also excludes lost
routes, which the model has only with nexthop groups. The last three theorems allow the
kernel to refuse requests and to lose acknowledgements. For each hypothesis TLC finds a
small instance of `ZebraRib` without it that violates the property. Those that the runs
of section 3 leave open came out of the proofs:

- `NoTwins`: no two usable announcements of a type share a nexthop group, unless
  kernel nexthop groups are off or route-maps do not change. `rib_process_del_fib`
  leaves `selected_fib` on an entry whose nexthop a route-map took and which was
  deleted from the kernel. When the route-map permits it again and another static
  entry with another metric and the same group wins, the update names the same type
  and group on both sides, `kernel_dplane_process_func` (`zebra_dplane.c:8337`)
  answers it without the kernel, and the entry is INSTALLED while the kernel has no
  route.
- `~KernelNexthops` for the owners: an update within a group is answered ahead of a
  DELETE and an INSTALL that still wait in `work_list`. TLC finds the trace with adds
  and deletes alone.
- `OverridesReplace`: with a static route selected and another static route overriding
  it in the FIB, withdrawing the first makes `redistribute_delete` withdraw the type from
  the client, and nothing announces the second again.

### bfdd (`BfdSessionProofs`)

- `BfdTwoWay` and `BfdClientView`, for any loss, duplication, reordering and
  restarts. The invariant `HandshakeInv` says of every end that the discriminator
  it remembers, and those its packets in flight echo, are ones it has received;
  that a session that is Up remembers one and was itself heard by its peer; and
  that the last notification agrees with the state. The packets must be part of it:
  a session comes Up because of what a packet sent long ago echoes. One lemma per C
  function shows that it keeps this; the steps follow by composition.
- `BfdTypeCorrect`, `BfdDetectionArmed` (no interface is taken away) and `BfdEchoRuns`
  (no session is shut). `TimerInv` is about one session at a time: each C function is
  shown to leave a typed session whose detection timer runs if the session relies on
  it and whose echo, if active, is sent and watched. Section 4 has the paths that make
  the two hypotheses necessary.

### lib (`FrrcuInv`, `FrrcuProofs`, `SeqlockProofs`)

- RCU, any number of threads, objects and nested locks, for `MaxRegistering = 1`
  (`bad_rcu` is the counterexample for 2): `TypeCorrect`,
  `ReadersAreSafe` (`NoUseAfterFree`), `PopsAreSafe` (`PopSafe`), `EndIsLast`
  (`EndEmpty`). The inductive invariant `IInv` says where a thread can be and what it
  holds there (`Places`, `Holding`); that the queue has one marker per epoch, in order
  (`Ordered`); that a thread that looks at an object, or has still to link an entry,
  keeps the sweeper from the pops of that epoch (`RefProtected`, `LinkProtected`, both
  by `Protects`); that queued objects are different and not freed (`Objects`); and that
  `RCUA_END` is last (`Ending`). `Joining` is about the list: only the thread being
  added is off it, nobody hangs behind it, and its parent, which is inside the call, keeps
  the sweeper back for both. The counter lags behind the markers by exactly the
  number of threads between their marker and their bump; `Counted` states this with a
  list of those threads, since the induction over the set is out of reach.
- Seqlocks, any number of threads and any size of the counter: `TypeCorrect`,
  `NoWakeupIsLost`, `CalAlwaysInRange`, and `KeepsPromise`, by which every step is a
  step of `SeqlockSpec` or a stutter. `Inv` ties the word to a counter that does not
  wrap (`Counted`) and says that who is about to sleep has set the waiters bit on the
  current word or will be poked (`Sleepers`).

### watchfrr (`WatchfrrProofs`)

`TypeCorrect`, `NumdownAlwaysExact`, `RestartsAllAlone` (`GlobalAlone`) and
`RestartsAreJustified` (`RestartJustified`), for any daemons and any number of faults.
The two action properties come with the same induction. `numdown` is exact only if
timer, state and descriptor of each daemon agree (`Sane`), since `daemon_down` and
`daemon_up` count by the state. `try_restart` asks `numpids` whether a command runs, so
`IInv` has `numpids` exact and a pid for each child. A restart is justified because the
end of a connection is read before the daemon is started again (`Seen`), and because
during startup no command runs and a daemon in DOWN is dead. One lemma per C function
says what it may do to a daemon, the counters and the commands; one per callback
composes them.

`TryRestartNone` and `TryRestartLoop` prove that `try_restart_each` is the loop of
`phase_check` for any number of daemons in any order. The loop of `sigchild` finds the
one daemon, or all, whose command ended, and treats each by itself; that
`restart_done_each` is that loop is not proved.

### Only model-checked

- `StaysUp`, which is about real clocks at chosen rates.
- The liveness properties `Converges`, `Recovers` (bfdd and watchfrr),
  `SweeperAdvances` and the liveness part of `Implements`: fairness is out of the
  prover's reach.
- `FibMatchesRib`, `InstalledTruth` and the others at rest outside the hypotheses
  above; `rib_core` checks `FibMatchesRib` and `InstalledTruth` within them.

## 6. Plan

1. Primitives: work queues and the pthreads of `lib`.
2. zebra: nexthop-group reference counts and their composition with the RIB, label
   and table managers against a reference allocator, graceful restart, client
   sessions, the FPM provider.
3. Abstract specifications: a prefix as "best route, eventually in the kernel", and
   a BFD session as its clients see it, with the detailed modules shown to
   implement them.
4. bgpd session layer: FSM, collision detection, connection transfer, the
   keepalive and I/O pthreads.
5. mgmtd transactions, vrrpd election, ospfd neighbour and interface machines,
   eigrpd DUAL, BFD authentication window.
6. Proofs: the refinement steps of 3, and the invariants of the new modules.

Not planned: terminal I/O (vtysh), generated code, packaging, YANG models and
tools.
