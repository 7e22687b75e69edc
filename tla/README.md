# A TLA+ verification project for FRRouting

FRRouting is a suite of routing daemons. Each protocol daemon is a process built
on the event loop of `lib/`. It learns its configuration from `mgmtd` and the
CLI, exchanges packets with its peers, and hands its routes to `zebra`, which
chooses among the routes of all daemons and installs the winners in the kernel
from a second thread. `lib/` also has the lock-free lists and the RCU that its
threads share. This project models the parts whose correctness depends on
the order in which events, timers, messages and threads are handled, checks the
models with TLC, and proves their central invariants with TLAPS.

Contents: [inventory](#inventory), [plan](#plan), [modules](#modules),
[runs](#runs), [refinements](#refinements), [proofs](#proofs),
[disagreements](#disagreements), [not modelled](#not-modelled).

## Inventory

Modelled so far:

| Part | State | Operations | What makes it hard |
| --- | --- | --- | --- |
| SPF delay, `lib/spf_backoff.c` | state, hold-down and time-to-learn timers | new, free, schedule, two timers | timers of an older instability firing later |
| IS-IS SPF scheduling, `isisd/isis_spf.c` | SPF timer, age of the last run of each tree, BFD flag | trigger, run, (re)configure the delay, leave and join a level, BFD signal, circuit changes | reconfiguration under a pending timer; starvation by triggers |
| BFD sessions, `bfdd/` | two sessions, packets on the way, what each client believes | transmit, receive, detection timeout, configure, interface down and up, restart, register, deregister | loss, duplication, packets of an earlier incarnation, both sides polling, clients that come and go |
| zebra RIB for one prefix, `zebra/zebra_rib.c` | list of route entries with flags, `selected_fib`, early-route queue, meta queue, dataplane input queue, results, kernel FIB, redistribution | add, withdraw, disconnect, route-map change, early-route processing, selection, kernel update, result, deletion reported by the kernel | several requests in flight between two threads; results that name a type instead of an entry |
| mgmtd transactions, `mgmtd/mgmt_txn*.c`, `mgmt_be_adapter.c`, `lib/mgmt_be_client.c` | datastores, session locks, the commit and the initial downloads in progress, two sockets per daemon, each daemon's configuration | lock, edit, commit (apply, validate, abort, implicit), edit of running, rollback, connect, subscribe, refuse, time out, lose a connection, restart | a daemon that connects, goes away or answers late in any phase of a commit |
| atomic lists, `lib/atomlist.c` | links with deletion marks, last pointer, count, one operation per thread | add at head, at tail, sorted; delete, pop, traverse | every interleaving of single atomic accesses |
| RCU, `lib/frrcu.c`, `lib/seqlock.c` | sequence locks, epochs, queue of actions, the RCU thread | read lock and unlock, free, thread start and end, shutdown, sweep, sleep and wake | epochs that close while threads lock, start and end; lost wake-ups; numbers that wrap |
| OSPF adjacency, `ospfd/ospf_nsm.c`, `ospf_packet.c`, `ospf_flood.c` | neighbor state, three LSA lists, database, DD numbers and flags, scheduled events, packets on the link | Hello, DD, request, update, acknowledgment, three retransmission timers, origination, dead neighbor, restart, loss | the two ends disagree on the state of the adjacency while the database changes |

The rest of the system, with the state and the hazards a model would be about:

| Part | State and interactions | Properties worth stating |
| --- | --- | --- |
| IS-IS database, OSPF ageing and flushing | sequence numbers, ages, retransmission lists; lossy links | a purge is not undone by an old copy |
| bgpd connection FSM | two peer structures per neighbour during collision, timers, an I/O pthread | at most one established connection per neighbour; the survivor keeps its capabilities |
| bgpd graceful restart | stale flags, deferral timer, End-of-RIB | no stale path outlives its timer; selection is not deferred for ever |
| northbound in `lib/` | candidate and running configuration | abort restores what prepare took |
| zebra nexthop groups | reference counts, keep-around timer, dependencies | no group freed while used, none leaked |
| zebra label and table managers | chunks by owner | disjoint chunks, release on disconnect |
| zebra client graceful restart | stale timer per client instance | stale routes go, refreshed routes stay |
| vrrpd | master, backup, three timers | one master once the network is quiet |
| watchfrr | state per daemon, restart phases and back-off | a dead daemon is restarted, a start-up is not interrupted |
| lib event loop | events handed across pthreads, cancellation | a cancelled event does not run |
| pimd assert, eigrpd DUAL, ldpd labels | timers and per-neighbour states | one forwarder; no routing loop while active; no label in use is released |

`PROJECT.json` lists every part with its sources, and every hazard with its line.

## Plan

Done: SpfBackoff, IsisSpf, BfdSession, Bfd, ZebraRib and MgmtCommit with proofs;
BfdTimed, Atomlist, Frrcu and OspfAdjacency, model-checked; refinements of
AtomicConfig by MgmtCommit (proved) and of AtomicList by Atomlist.

Next, the most important behaviour first:

1. **Frrcu, proofs**: `EpochsInStep`, then `NeverDry` and `NoUseAfterFree`, from an
   invariant on the epochs of the queue.
2. **MgmtCommit, proofs**: `Synced`, from an invariant on whole message queues.
3. **bgpd connection collision** (`bgp_fsm.c`, `bgp_network.c`): two speakers
   opening to each other; one established session, and liveness.
4. **Nexthop groups**, composed with ZebraRib: reference counts and the
   keep-around timer.
5. **OSPF ageing and flushing**, and three routers, so that flooding crosses one.
6. **VRRP** and **watchfrr**: small timer machines, mostly for liveness.

No module that theorems are about uses RECURSIVE operators.

## Modules

| Module | Code | Role |
| --- | --- | --- |
| SpfBackoff | `lib/spf_backoff.c`, `lib/event.c` | the back-off object |
| IsisSpf | `isisd/isis_spf.c` and its callers | the scheduler of one level |
| MCIsisSpf | | instance |
| IsisSpfProofs | | theorems about IsisSpf |
| BfdSession | `bfdd/bfd.c`, `bfd_packet.c`, `event.c`, `ptm_adapter.c` | the handlers of one session as functions |
| Bfd | same | two sessions, clients, network, disturbances |
| BfdTimed | same | Bfd with time in rounds, for progress |
| MCBfd, MCBfdTimed | | instances |
| BfdHandlerProofs, BfdProofs | | theorems about BfdSession and Bfd |
| ZebraNode | `zebra/zebra_rib.c`, `redistribute.c`, `zebra_dplane.c` | the handlers of one prefix as functions |
| ZebraRib | `zebra/zebra_rib.c`, `zebra_dplane.c`, `kernel_netlink.c`, `rt_netlink.c` | queues, threads, kernel, clients, disturbances |
| ZebraProofs | | theorems about ZebraNode and ZebraRib |
| MCZebra | | instance |
| AtomicConfig | comments of `mgmtd/` | what a commit promises: the abstract specification |
| MgmtTxn | `mgmtd/mgmt_txn_cfg.c`, `mgmt_txn.c`, `mgmt_ds.c`, `mgmt_be_adapter.c` | mgmtd's transactions as functions |
| MgmtCommit | same, `mgmt_fe_adapter.c`, `mgmt_history.c`, `lib/mgmt_be_client.c` | sessions, sockets, daemons, faults |
| MgmtTxnProofs, MgmtProofs | | theorems about MgmtTxn and MgmtCommit |
| MCMgmt | | instance |
| AtomicList | comments of `lib/atomlist.h` | what the lists promise: the abstract specification |
| Atomlist | `lib/atomlist.c`, `atomlist.h` | the lists, one action per atomic access |
| MCAtomlist | | instance |
| Seqlock | `lib/seqlock.c`, `seqlock.h` | positions and their unsigned arithmetic |
| Frrcu | `lib/frrcu.c`, `seqlock.c`, `frr_pthread.c` | threads, queue, RCU thread |
| MCFrrcu | | instances |
| OspfNbr | `ospfd/ospf_nsm.c`, `ospf_packet.c`, `ospf_flood.c`, `ospf_lsa.c` | the neighbor of one router as functions |
| OspfAdjacency | same, the event loop of `lib/event.c` | two routers, the link, faults |
| MCOspf | | instance |

Operators named `X_Fault` with a comment "Seeded fault" are wrong variants of
`X`. No specification uses them. Each property is tried against one of them, to
show that it would notice the mistake.

### SPF delay and IS-IS scheduling

A timer is an integer: the ticks until its handler is due, -1 when its event
pointer is NULL. `event_add_timer*` leaves a scheduled timer alone, and
`event_cancel` also removes an event that is due but has not run, so a cancelled
handler never runs. Time advances only while no timer is due; due handlers run in
any order. `Parameters` are the settings that can be configured; reconfiguring takes
any of them. A level that is left triggers the back-off first when its database
is not empty, as every LSP that is destroyed does. Two ghost variables record the age of the oldest trigger not served
(`waited`) and the time since the last trigger (`calm`).

### BFD

A handler of BfdSession maps a session to the session it leaves behind, the
packets it sends and what it tells clients, so that calls compose as in C. Bfd
adds the queues towards each peer. `Receive` reads the head, `Duplicate` delivers
it now and again behind the others, `Lose` drops it. Discriminators are numbered
by incarnation, so a restart takes the next one. In Bfd an armed timer may fire
at any moment, which covers all relations between the timers. BfdTimed takes time
in rounds of one transmission interval, as progress depends on packets arriving
before detection expires. A queue at its bound `Cap` takes no more packets, as a full
socket buffer does. A restarted daemon has no clients until they register again,
each in a step of its own. `Intervals` are pairs of a transmission and a reception
interval; new ones are "overlap" when they meet a poll sequence of the same side,
"intervals" otherwise. The ghost `heard` records which incarnation has
accepted a packet of which.

### zebra

One prefix. An entry of `node.routes` is a `route_entry`; its `id` stands for its
address and for its place, as entries are linked at the head of the list. `Types`
are route types with one client each, `System` those the kernel installs itself.
`Payloads` stands for nexthops and attributes, `Distance` is fixed per type and
metrics are equal, so the older entry wins a tie.

The main thread takes one item at a time from the early-route queue, and from the
route queue when that is empty, unless the dataplane queue is above its limit
(`meta_queue_process`). A context carries the types, payload and sequence numbers
that `dplane_ctx_route_init` copies. The second thread turns it into what
`netlink_put_route_update_msg` sends: nothing for a connected route, except that
one replacing a route of zebra's deletes it. The kernel is external; a new route
replaces any of zebra's, as zebra always sends the same metric with
NLM_F_REPLACE, and a deletion names a protocol and removes its route only.

Environment events: a client disconnects (`close`), the route-map of a type
changes (`rmap`), the kernel refuses (`refuse`), it answers with an error that
counts as success (`netdown`), another program deletes the route (`outside`).
The ghost `history` records those after which the kernel may rightly, or by a
known disagreement, differ from the selection; the properties say which they
exclude.

Assumed: owners asked for notifications; `allow_delete` is off; the nexthop group
of an entry is installed or queued when the entry is sent.

### mgmtd

MgmtTxn has one function on mgmtd's state per C function, as a commit that needs
nobody's answer ends inside the call that starts it. A datastore is a set of data
nodes. MgmtCommit adds front-end sessions, the operator's rollback, the sockets
and the backend library in each daemon. A socket is first-in first-out. Closing
it appends EOF, and a reader that finds EOF may lose what precedes it. `m.fate` and
`m.change` are history: they say what became of each transaction and what it was
about, which is what AtomicConfig is about. An assertion of mgmtd that fails stops
the model with `m.failed`: "unlock" when a client unlocked what another session
or mgmtd holds, "assert" for all others. The faults are such an unlock, a refusal, a lost
connection, a restarted daemon, an expired commit timer, a session that logs out
in the middle, and a change mgmtd itself finds invalid or cannot prepare.

### Atomic lists and RCU

Every action is one access to shared memory. In Atomlist, `op[t]` holds the place
of a thread in the C function and its locals. Each list is used with the
operations some user in the code combines (`Usages`), as the header allows only
some combinations. Traversals run in one thread (`Readers`), as they change nothing
that others see. An item may be deleted as soon as its addition has returned,
even where it cannot be reached yet because the addition in front of it is not
over; `early` records it. No list of the code is used like that: on `rcu_threads`,
`rcu_heads` and `zlog_targets` no two threads add at the tail while a third
deletes what they add. In Frrcu, what a call has still to do is the sequence `todo`
of its accesses; the lists RCU uses are taken at the granularity that Atomlist
justifies: adding to `rcu_threads` is one step, as only one thread at a time starts
others. `rcu_shutdown` is called when all other threads have been joined
(`frr_pthread_finish`), and that `rcu_threads` then has one entry is an assertion
that `AssertionsHold` covers. Both models take memory to be sequentially consistent: they say
nothing of the memory orders the code names. A wake-up is one step with the
exchange that finds `SEQLOCK_WAITERS`. Sequence numbers are `Width` bits wide and
start so near their end that they wrap in every program.

### OSPF

OspfNbr follows the call tree of ospfd for one neighbor on a point-to-point
interface, so TwoWay is passed without stopping. An instance of an LSA is a
sequence number and a checksum, which stands for the contents. Contents are told
apart for the first instance of an external LSA, the one a restarted router
originates anew; router-LSAs have sum 0. The timers `t_db_desc` and `t_ls_rxmt`
run exactly in the states `DbDescTimed` and `ls_rxmt` describe, so they are not
variables. Updates collect in `ls_upd_queue` and leave in the next round as one
packet, behind what was sent meanwhile. Direct and delayed acknowledgments are one
list, sent at any time.

In OspfAdjacency a round of the event loop runs all scheduled events, in order,
as one step. Packets may be read before that, as `ospf_read` takes up to twenty
in a row, and so may zebra's routes (`Originate`). Timers come after the events of
the round; a waiting update does not hold them up. A neighbor that is deleted
takes the packets not yet written with it (`nsm_kill_nbr`). A Hello is put in front of packets not yet written
(`ospf_packet_add_top`), so it may overtake any of those on the way; Hellos that
would only restart the inactivity timer are left out. The timers' intervals are
longer than an answer takes, except `hurry` times: then a timer expires while its
answer is on the way, an LSA arrives within MinLSArrival of its predecessor, or a
duplicate DD arrives after RouterDeadInterval. The random DD numbers are those of
`Randoms`, all different. DD numbers are taken modulo 8 and wrap.

## Runs

All runs take at most about two minutes with two workers.

| Run | Distinct states | What it shows |
| --- | --- | --- |
| `isis_spf` | 113,292 | timers agree with the state, no trigger lost or delayed beyond the largest delay, QUIET only after a full hold-down of calm, every trigger served |
| `bfd_restart` | 883,491 | `HandshakeComplete` with restarts, duplicates, interface flaps and deregistration |
| `bfd_admin` | 772,446 | client views, shutdown, detection timer and negotiated intervals while modes or intervals change or packets are lost |
| `bfd_progress` | 328,844 | `ComesUp` and `PollEnds` after all disturbances |
| `zebra_rib` | 244,100 | soundness of the entry list, kernel, flags and notifications at rest, and that rest is reached |
| `mgmt_commit` | 665,693 | commits are atomic (`Refines`), no assertion fails by mgmtd's doing, initial downloads are current, served daemons have the running configuration (`Synced`), every transaction ends |
| `atomlist` | 316,777 | the lists are atomic (`Refines`), deleted items are out of reach, traversals miss nothing, the count is exact, operations end |
| `rcu` | 203,086 | nothing is freed while in use, epochs of the queue and the counter agree, the queue never runs dry, assertions hold, no wake-up is lost, shutdown returns |
| `ospf_adjacency` | 485,229 | Full routers owe each other whatever differs (`BehindIsOwed`), only faults throw an adjacency back, it always becomes and stays Full |
| `zebra_close`, `mgmt_init`, `ospf_checksum` | | [disagreements](#disagreements) |

Bounds. For SPF there are two settings, with delays of 1, 2 and 4 or 0, 1 and 2,
hold-down 3, time-to-learn 4 or 2, and the minimum interval is 3: a storm outlives a
time-to-learn, several triggers fall into one delay, and time-to-learn expires
before or after a quiet period would have begun. For
BFD there are up to three disturbances, two incarnations per side and
one or two packets per direction: enough for a packet of the first incarnation to
meet the second, and for both sides to be in any pair of states. BfdAdmin has one
disturbance and intervals of 1 or of 3, the slow one, on each side, so that slow,
configured and negotiated values differ and rise or fall by a new configuration.
All its properties also held with two disturbances (3.2 million states), and with
one and different transmission and reception intervals (all pairs of 1 and 3, 7.6
million). For zebra there are three requests, one event, three
types (connected, static, IS-IS), two payloads and a queue limit of 1: enough for
a replaced route to be replaced again before the first result. The safety
properties of `zebra_rib` also held with four requests (4.6 million states) and
with two events (3.2 million).

For mgmtd there are two daemons, one of which subscribed to both nodes and the
other to one and connects late; one session, two requests, one fault of any kind,
and a history of two commits for the rollback. That is enough for a connection,
a loss or a timeout to fall into each phase of a commit or of an initial download,
and for the next commit to follow it. For the lists, three threads and three
items, one of them on the list: two additions race with a deletion, or with a pop
at the end of the list, where the last pointer changes. For RCU, six programs of
up to three threads with one or two objects: a reader, a thread that ends, two
writers, a thread started by another one, and two shutdowns. For OSPF, three LSAs,
one header or key per packet, so that the exchange takes several packets and LSAs
change in the middle of it. `Mixes` allows one fault (a lost packet, a dead
neighbor, or a restart with a smaller or larger checksum), or one hurry and one
new instance together. A fault and a new instance together also held, with an
unchanged checksum (3.5 million states, fifteen minutes). A fault followed by a hurry is not covered. With two
hurries `NeverAborted` is refuted, as it should be: a duplicate DD later than
RouterDeadInterval aborts the adjacency (RFC 2328).

Symmetry is used in the BFD safety runs only, over the two peers and the clients,
which nothing tells apart there.

Deadlock is checked in `isis_spf`, `bfd_progress` and the OSPF runs. It is not in
the others, as requests and disturbances are bounded and a RIB at rest, daemons
without a commit, threads between operations, or sessions that are shut down,
really have nothing to do.

Fairness. The event loop runs due timers and time passes (`isis_spf`). In
`bfd_progress`, time passes and event loops do not stop; disturbances are bounded,
and a round ends only when all packets and due timers of it are handled. In
`zebra_rib`, either thread keeps working while it has work; nothing is assumed of
clients. In `mgmt_commit` daemons read their sockets and serve their events; that
a commit timer expires is not assumed. In `atomlist` every thread that is in the
middle of an operation is scheduled. In `rcu` a call that began goes on and the
RCU thread runs when it is awake; which calls are made is not assumed, so `Swept`
is stated for threads that leave their read locks again and again. In
`ospf_adjacency` routers handle what they have, Hellos that are due are sent, and
a router's timers that are due again and again expire (strong fairness: they are
periodic, and the link is quiet between two expiries); faults and new LSAs are
bounded. `FairSpec` writes weak and strong fairness with the actions' guards
instead of ENABLED, which TLC evaluates slowly on these actions.

## Refinements

`MgmtCommit!Refines` maps `m.running`, the daemons' configurations and the history
of transactions to AtomicConfig. There a transaction is open until it is applied or
dropped, and running and the daemons change only by applied ones. What the mapping
has to withstand: a daemon applies a change it prepared after mgmtd gave up on the
transaction, and a session that logs out in the middle of its commit. TLC checks it on the instance; `MgmtAtomic` proves it for
all constants.

`Atomlist!Refines` maps the linked items without a deletion mark to the contents
of AtomicList, where each operation is one step. An `add_tail` becomes visible when
the items it hangs on are, so several may appear at once, in order. That is the one
place where the promise had to be stated more weakly than "one item at a time".

## Proofs

IsisSpfProofs, for all settings and changes between them. `SpfTimers`: `TimersMatchState`. `SpfTriggers`:
`NoTriggerLost`. `SpfSafety`: the type invariant and `SpfDelayBounded`. `SpfQuiet`:
`QuietOnlyAfterHolddown`. The inductive invariant `SpfInv` adds two facts: hold-down
time left and calm so far add up to `holddown` (otherwise expiry says nothing about
calm), and a level that was left has neither a pending run nor an unserved trigger
(otherwise joining it again could inherit one).

BfdProofs, for all intervals, multipliers, numbers of clients, restarts, faults
and packets on the way, from the assumptions `SlowAssumption` and
`BfdAssumption`:

- `TypeCorrect`, `Announced` (`UpIsAnnounced`);
- `Handshake` (`HandshakeComplete`). It is not inductive alone. `Inv` adds that a
  session in INIT or UP names an incarnation it has heard (`SessionsOK`), and that
  a packet on the way in INIT or UP names an incarnation its sender has heard
  (`PacketsOK`). A session goes up only on such a packet addressed to itself, so
  the sender has heard it. `heard` only grows, so old packets keep the property;
- `DownAnnounced` (`DownIsAnnounced`), if no client deregisters;
- `Watched` (`DetectionArmed`) and `ShutDown` (`ShutdownNeverUp`), if moreover
  interfaces stay.

The last three carry their assumption because the property fails without it: see
`BfdDeregisterSilent.cfg`, and a queued packet that takes a disabled session up.
BfdHandlerProofs follows the call tree of bfdd with one lemma per function.

ZebraProofs, for all sets of types and payloads, all distances, any number of
requests, events and contexts on the way, from `NodeAssumption` (at least one
payload) and the assumptions of ZebraRib. `RibWellFormed`: `WellFormed`. The
inductive invariant `RibInv` adds what each handler needs of the queues: the
identifier of the next entry is above those of the entries and of the queued
requests, so an addition is fresh; queued requests, contexts and results are well
typed; and an addition that replaces an entry withdraws the one before it, so two
live entries of a type never meet. One lemma per function of `zebra_rib.c` says
what it preserves of the node. The list is a set of entries of which the largest
identifier is first; that a finite set of them has a largest is proved from the
library's theorems on finite sets.

MgmtTxnProofs and MgmtProofs, for any number of sessions, daemons, data nodes, transactions and
faults, from `BackendsAssumption` (finitely many daemons), `SessionsAssumption`
and `CommitAssumption` (names are distinct):

- `MgmtTypes` (`TypeOK`), `MgmtAssertions` (`NoAssertFails`) and `MgmtInitial`
  (`InitIsCurrent`), also for sessions that do not wait for the answer to a commit.
  `NoAssertFails` is about every assertion but one: the lock mgmt_ds_unlock finds
  on the UNLOCK message of a client is the client's to hold, and an UNLOCK without
  it is a fault of the model that ends in "unlock" (`MgmtUnlock.cfg`). Unlocks that
  mgmtd makes itself, at the end of a commit, a download, a rollback or a
  session, are among those proved;
- `MgmtAtomic`: the refinement of AtomicConfig, if sessions do wait. TLC refutes it
  when they do not.

The inductive invariant `MgmtInv` is about mgmtd (`Core`, `CommitOK`) and about each
daemon (`BackendOK`). Its point is who may change running and when: while initial
downloads are in progress running is locked for them, and a commit that would
apply is not started (`Exclusive`); a commit in the apply phase has a transaction
whose fate is already "applied" and the locks of its session (`Pending`,
`Protected`); and a transaction that a daemon has prepared, or has been told to
apply, was recorded with the change it carries. The counter of readers is a
cardinality, and waiting sets shrink to the empty set by steps, which is why
Backends is finite. MgmtTxnProofs has one lemma per function of MgmtTxn, MgmtProofs
one per action of MgmtCommit.

Where a fact needs induction over numbers, it is stated for the least
counterexample, which the library's theorem on well-founded relations provides
without an operator parameter (`LeastNat`).

Only model-checked: all liveness properties (`TriggerServed`, `ComesUp`,
`PollEnds`, `Settles`, `Ends`, `Swept`, `ShutdownReturns`, `Converges`), which are
beyond the prover; `SettledDetectionCovers`, which needs an invariant over the
whole poll exchange; `FibIsBest`, `InstalledIsInFib` and `RefusalReported`, which
relate the entries to everything on the way to the kernel and back; `Synced`, which
does so for the sockets of the daemons; all of Atomlist, Frrcu and OspfAdjacency so
far, the refinement of AtomicList included.

## Disagreements

Three are runs, quoted in `PROJECT.json`:

- `zebra_close`: the disconnection of one client frees the queued requests of
  all others with the same instance number (`&&` in place of `||`).
- `mgmt_init`: a daemon that connects while running is locked is never sent its
  configuration. The retry "a bit later" cannot happen, as the failure is not
  returned.
- `ospf_checksum`: `ospf_db_desc_proc` requests an LSA when `ospf_lsa_more_recent`
  returns -1, but "more recent by checksum" is any negative number. A router that
  restarts with other contents under the same sequence number is not asked for
  them, and both are Full with different databases.

The others have a configuration of their own, with which TLC refutes the property
named:

- `IsisSpfMinInterval.cfg` (MCIsisSpf, `MinIntervalKept`): with several trees,
  "ran in this second" is taken for "never ran", and SPF runs again before
  `min_spf_interval`, against `isis_spf.c:2201`, "wait configured
  min_spf_interval before doing the SPF".
- `BfdPassiveRestart.cfg` (MCBfdTimed, `ComesUp`): a session that learned its
  peer's discriminator while DOWN names it for ever; a passive peer that restarts
  is never reached again.
- `BfdDeregisterSilent.cfg` (MCBfd, `DownIsAnnounced`): the deregistration of one
  client takes the session down for the others without telling them.
- `BfdPollOverlap.cfg` (MCBfd, `SettledDetectionCovers`): intervals change while a
  poll sequence is under way, and the final bit of this one ends the next. Where
  changes do not meet a poll sequence of the same side the property holds
  (`bfd_admin`).
- `ZebraRedist.cfg` (MCZebra, `RedistSelected`): a redistributed route is replaced,
  the winner is announced again before the result of the replacement arrives, and
  the subscriber keeps the old route.
- `MgmtResync.cfg` (MCMgmt, `Resynced`): a daemon disconnected because it was slow
  keeps nodes deleted before it reconnects, though it is disconnected "so they
  will resync config state on reconnect".
- `MgmtRollback.cfg` (MCMgmt, `RollbackResumes`): a rollback that interests no
  connected daemon ends before the command has stored its vty.
- `MgmtUnlock.cfg` (MCMgmt, `UnlockTolerated`): `fe_session_handle_lock` says "unlock
  even if one or both of the lock indicators is wrong"; where the lock belongs to
  another session, `mgmt_ds_unlock` asserts. mgmtd's own vty front end asserts
  before it sends UNLOCK that it holds the lock (`mgmt_vty_frontend.c`).
- `AtomlistEarly.cfg` (MCAtomlist, `NeverStranded`): two threads add at the tail, and
  the second item is deleted before the first addition has linked the two. The
  deletion does not find the item and returns, the first addition makes it
  reachable, against `atomlist.h`, "completion is however guaranteed for all reads
  starting later"; and a later `add_tail` that finds its mark at the end starts over
  again and again. `NeverReached` and `Ends` make an exception for such items.
- `RcuThreadExit.cfg` (MCFrrcu, `ThreadFreedLast`): a thread that ends is off
  `rcu_threads` before it releases its lock, so its structure may be freed before,
  against "this free() happens after seqlock_release() below".
- `RcuForeign.cfg` (MCFrrcu, `NoUseAfterFree`): a thread made known by
  `frr_pthread_non_controlled_startup` counts a read lock it does not hold.

Also seen while modelling, without a property of their own:

- A deletion reported by the kernel is handled after zebra has moved to another
  route; re-installing the reported one displaces the selected route
  (`process_subq_early_route_delete`).
- `rib_update_table` skips a node that is already queued without marking its
  entries, so a route-map change may have no effect on them.
- An owner that was told BETTER_ADMIN_WON may be told INSTALLED afterwards, by
  the result of an older context.
- After a refused update, an entry can be INSTALLED because an older result of
  its type succeeded, with nexthops the kernel does not have. The selected
  entry is not affected (`RefusalReported`).
- A superseded entry keeps ROUTE_ENTRY_ROUTE_REPLACING.
- A BFD session that is disabled because its interface went away can be taken up
  by a packet still in the socket, and one that is shut down can come up after a
  deregistration put it to DOWN.
- A session that does not wait for the answer to its commit can edit the candidate
  meanwhile; running then gets the edited candidate, the daemons the one that was
  validated. The runs assume that sessions wait; with "pipeline" among the
  `Disturbances` of `MgmtCommit.cfg` TLC refutes `Refines`.
- `atomlist_add_tail` behind an item that is being deleted spins until the deleter
  goes on, so it is not lock-free in the strict sense.
- When `rcu_dirty` falls behind, an action stays queued until the next one; the
  comment of `rcu_bump_maybe` accepts it.

## Not modelled

- SPF: the computation itself, the flooding that triggers it.
- BFD: echo mode, SBFD, authentication, the hardware data plane, profiles beyond
  the values they set.
- zebra: kernel-type, local and table routes, FIB override, equal types with
  different instances, metric ties, unequal distances within a type, infinite
  distance, several interfaces with one connected prefix, nexthop groups owned by
  a protocol, refusal to enqueue a context, offload notifications, IPv6 kernel
  semantics without replace, graceful restart, the sweep at start, MPLS, EVPN and
  FPM side effects, nexthop tracking.
- mgmtd: reading of operational state, RPCs and notifications, the vty front end,
  configuration files, the limit on commit records, encoding and batching.
- lib: weak memory, the signal and cancellation handling of pthreads, RCUA_CLOSE
  and RCUA_CALL as different from RCUA_FREE.
- OSPF: broadcast networks and designated routers, ageing, flushing and
  MaxSequenceNumber, opaque LSAs, several areas, graceful restart, flood
  reduction, authentication, contents of router-LSAs.
- The parts listed as not modelled in `PROJECT.json`, with the reasons there. Most
  of FRRouting is protocol daemons of this kind, each with its own state machines,
  and the code around them that parses, prints and configures.
