# MatterThreads: TLA+ specifications and proofs

MatterThreads simulates a Matter-over-Thread mesh in a delivery van (node processes, a
broker that carries their frames, faults, a border router), runs a cloud *fleet
gateway* that controls many such vans through `chip-tool`, and ships an iOS SDK
with a relay server. This directory models the program's own logic in TLA+, checks
it with TLC on small instances and proves the safety properties that the passing runs
check, all but one (section 4), and more, for all instances with TLAPS.

Paths below are relative to the repository root; inside `src/` the directory name
is left out where the file name is unique.

## 1. Inventory

### Fleet gateway (`src/gateway`, one process, one thread)

`GatewayMain.cpp` polls the HTTP server every 10 ms and, once a second, calls
`sessions.tick(now)` then `subscriptions.tick(now)`. Every call into the driver
blocks that thread for up to 30 s, so time passes unevenly between handlers.

| Component | State | Operations | Hard part | Correct when |
|---|---|---|---|---|
| `SessionPool` | a record per van: state, last activity, last keepalive, next reconnect, attempts | `connect`, `disconnect`, `touchActivity`, `tick` | keepalive, idle timeout and backoff in one pass over records that commands also touch | silence is noticed, an outage ends, attempts stay in the budget, observers hear every change |
| `CommandRelay` | none | `invoke`, `timedInvoke`, `readAttribute`, `writeAttribute` | activity counted without an answer | see the pool |
| `OfflineBuffer` | a deque of events per van, a running total, the next id | `push`, `drain*`, `clear*`, `evict` | two limits, hand-kept total, cursors of consumers that outlive the events | paging neither skips nor repeats, the oldest goes first |
| `FleetSubscriptionManager` | rules; per van the subscriptions with their driver ids, last report, missed reports | `addRule`, `removeRule`, `subscribeVan`, `unsubscribeVan`, `tick` | records and the driver's processes must match across resubscription and loss | no process without a record, a live subscription is not declared lost |
| `FabricManager` | tenants, NOC credentials, next node and fabric ids | `createTenant`, `removeTenant`, `issueNOC`, `revokeNOC` | two tables kept in step | a van belongs to one tenant, counts within the limit |
| `VanRegistry` | van records | `registerVan`, `updateVan`, `deregisterVan` | sessions and subscriptions keep copies of its data | deletion reaches every component |
| `GatewayServer` | routes, a listening socket | 24 REST handlers | one handler calls several components; one `recv()` per connection | handlers leave the components consistent, requests are answered, ticks are not put off |

### Hardware bridge (`src/hw`)

`ProcessManager` (processes with a timeout: `start`, `poll`, `wait`, `kill`),
`ChipToolDriver` (one-shot commands and long-running subscription processes, `tick`
reaps them), `ChipToolOutputParser` (text to results), `HardwareNode`,
`OTBRClient` (REST client). Hard: a process that ends, is killed or times out
while its owner still counts it, and process ids that are used again.

### Network simulation (`src/net`, `src/broker`, `src/fault`)

`Broker` accepts node connections, then forwards frames with loss, delay and
reordering and serves a control channel; `Channel` (link quality and RNG),
`FaultInjector` (match rules, actions), `Discovery` (services and browsers), `SelfHealing`
(lost neighbours and partitions), `Socket`, `Frame`; `FaultPlan`, `Scheduler` and
`Chaos`, which no program uses. Hard: nodes that crash and come back, delayed frames
overtaken by others, a loop that blocks on one peer.

### Thread stack (`src/thread`, `src/node`)

`ThreadNode` (frames in and out, timers) with `MLE` (advertisements), `Routing`
(distance vector), `ChildTable`, `Leader`, `AddressManager`, `BorderRouter` (proxy
table), `SRP` (leases and service registry), `MeshTopology`, `PathTracer`, and
`PowerManager` (ordered shutdown on battery and ordered boot). Hard: distance-vector
convergence after a loss, one registration with two durations, routes and neighbours
timed separately, power lost in the middle of a shutdown.

### Matter stack (`src/matter`)

`Exchange` (retransmission), `SubscriptionManager` (min and max intervals,
liveness), `Session`, `InteractionModel`, `CASE`, `PASE`, `Fabric`, `DataModel`,
`TLV`. Hard: retransmissions racing late answers, time points that were never set,
reports due while one is deferred.

### Controller (`app/Main.cpp`), metrics (`src/metrics`), tools and iOS

`app/Main.cpp` launches, crashes and restarts the broker and the node processes from a
console or a scenario and serves the dashboard (`DashboardServer`) in the same thread;
`metrics` collects counters; `tools/sim-relay` and `tools/sim-tunnel` relay requests
between phones and a simulator over WebSockets; `ios/MatterAI` routes device operations
over several backends. Hard: process ids kept after the process was waited for,
a shutdown while something blocks.

How they meet: the controller starts broker and nodes and asks the broker over its
control port; nodes exchange frames only through the broker; each node process ticks a
Thread stack and a Matter stack from one loop; the gateway reaches vans only through the
driver, which runs one `chip-tool` process per command or subscription; the registry,
pool, subscriptions, buffer and fabrics of the gateway meet in its HTTP handlers.

## 2. Modules

| Module | Models | Kind |
|---|---|---|
| `SessionContract` | what the pool promises its users: a link that is up, down or retrying with a finite budget | abstract specification |
| `SessionPool` | `SessionPool.cpp`, `CommandRelay.cpp`, the gateway loop | detailed, implements the contract |
| `OfflineBuffer` | `OfflineBuffer.cpp`, the two event handlers of `GatewayServer.cpp`, consumers that page | detailed |
| `FleetSubscriptions` | `FleetSubscriptionManager.cpp` over the subscription processes of `ChipToolDriver.cpp` and `ProcessManager::poll` | composition |
| `Gateway` | `GatewayMain.cpp`, `GatewayServer.cpp` over `VanRegistry.cpp`, `FabricManager.cpp`, sessions and subscriptions | composition |
| `HardwareBridge` | `HardwareNode.cpp`, `ChipToolDriver.cpp`, `ProcessManager.cpp`, what `ChipToolOutputParser.cpp` decides, over the kernel's process table | composition |
| `PowerManager` | `PowerManager.cpp` | detailed |
| `PathTracer` | `PathTracer.cpp`, the presets of `MeshTopology.cpp` | pure operators |
| `Broker` | `Broker.cpp`, `Channel.h`, the life of a node process, composed with `PathTracer` | composition |
| `Controller` | `app/Main.cpp`, `DashboardServer.cpp`, the children as the kernel sees them; extends `PathTracer`, which `trace` prints | composition |
| `ThreadMesh` | `ThreadNode.cpp`, `MLE.cpp`, `Routing.cpp`, `SelfHealing.cpp`, the loop of `NodeMain.cpp` | several nodes composed |
| `BorderRouter` | `SRP.cpp`, `Discovery.cpp`, `BorderRouter.cpp` | composition |
| `MatterNode` | `Exchange.cpp`, `SubscriptionManager.cpp`, `Session.cpp`, `InteractionModel.cpp` | composition |
| `*_proofs` | theorems: `Gateway_proofs` about `Gateway` and `HardwareBridge`, `Node_proofs` about `ThreadMesh` and `MatterNode`, `Simulator_proofs` about `PathTracer`, `Controller` and `Broker`, the others about the module they are named after | proofs |
| `MC*` | the instances TLC checks | instances |

Conventions. A variable carries the name of the member it stands for, or says it in its
comment; variables marked *history* exist for properties only and no guard reads
them. A definition that ends like another one with a word added (`KeepaliveDueWhenIdle`)
and stands before it under a `(Mutant: ...)` comment is a plausible bug that
`PROJECT.json` pairs with the property that rejects it; nothing else uses it.
Clocks are kept as ages, or as distances to the present, cut off where the code no
longer tells them apart, so that state spaces are finite although time is not bounded.

### SessionPool

State: `sessions` is `sessions_` (an entry `Absent` means no entry; the fields `idle`,
`quiet` and `wait` are `now - last_activity`, `now - last_keepalive` and
`next_reconnect - now`); `reachable` is the environment; `told` in a record, `tries`,
`answered` and `gap` are history. Each of the seven calls of `notifyEvent` is one
`NotifyEvent` of its own, with the state its place in the code passes, and a pass that
sets two states makes two of them one after the other; `ObserversInStep` compares what
was told last with what is. `Connect`, `Disconnect` and `Command` are the calls handlers
make; `Tick` is one whole pass over all vans, keepalive first, then the idle check
or the reconnection, as the code orders them; `Elapse(d)` stands for any time between
two handlers, a driver call that blocks the loop included. The state `Connecting`
exists only inside `connect()` and no one can observe it.

What can go wrong and does not: commands count as activity even if the van never
answered, but a connected session that looks idle always has its keepalive due in
the same pass (`IdleNeedsKeepalive`), so the idle check closes only vans that did not
answer (`IdleOnlyWhenDead`) and everything still connected after a pass was heard of
within the keepalive interval (`FreshAfterTick`). This relies on
`KeepaliveFirst`, the order of the two defaults (60 s and 300 s), which nothing in the
code enforces. `KeepsContract` is the refinement of `SessionContract` with `link` and
`left` computed from the records (`LinkOf`, `LeftOf`).

The contract has one exception, and names it: an outage gets all its tries unless the
pool was served too late. A van whose keepalive fails in a pass that comes more than
`Slack` (timeout less keepalive, 240 s) after the last one may be closed by the idle check
of the same pass, with no try made; `late` is `gap > Slack`, and `Abandon` needs it. A pool
that is ticked in time never does that, which is what `PoolKeepsContract` proves (section 5
says how the gateway gets late).

### OfflineBuffer

State: `events` is `buffers_` as one set (a deque is the events of a van ordered by
id), `next` is `next_sequence_id_`, `total` the running `total_count_`. `Push`
enforces the van limit and then the total limit, `Evict`, `Clear` and `ClearAll` are
the calls; an event has the stamp its caller gave it, of any age and up to `Lead` ahead of the
clock, whatever is buffered before it. `Fetch(c)` is a consumer's request with its cursor,
whose answer's last id becomes the next cursor (`LastOf`, as `drainAll()` sorts). The module is one gateway
process: ids begin at 1 again in the next one (see section 5).

### FleetSubscriptions

State: `rules`, `nextRule` and `subs` are `rules_`, `next_rule_id_` and `van_subs_`;
`processes` and `nextSub` are the driver's `subscriptions_` and `next_sub_id_`. A
subscription is a record in one table and a process in the other, joined by an id;
records and processes go their own ways through `SubscribeVan` (which drops the
records of an earlier call and leaves their processes), `UnsubscribeVan` (which
cancels active records only), `RemoveRule` (which touches neither), a process that
exits, and `Tick` (liveness of records, then polling of processes, which ends every process
it finds running: see the findings). The properties say that they stay matched all the
same.

### Gateway

State: `device` is the registry, `sessions` and `subscribed` are the vans that have an entry
in the pool and in the subscriptions (modules of their own), `tenants`, `creds`,
`nextTenant` and `nextNode` the fabric manager; `conn`, `backlog` and `serving` are the
connections, `at` where the loop is. `Poll` accepts the oldest connection, `Serve` is
`handleClient()` with its one `recv()` (of a request in two parts only the first is seen,
and its body is missing) and the handler that `Dispatch` chooses, `TickIfDue` the
once-a-second work. `Die` is every way a request ends the process: exceptions that nobody
catches (`std::stoul` on a path, `:351`, `:461`, `:593`, `:608`; a JSON member of another
type or a text that is no UTF-8, `:303-306`, `:332-333`, `:447-453`, `:578`, `:614`), and
SIGPIPE at the send to a client that has gone (`:267`). `Adopt` (`connect()`, which asks
nobody whether the van is registered), `RemoveTenant` and `RevokeNOC` are calls that no
handler makes and the scenario tests do; they fall between two turns of the loop.

### HardwareBridge

State: `table` is the kernel's process table (a child runs, is a zombie until it is
waited for, and then its id is free for anybody), `mgr` one `ProcessManager` for
commands and one for each subscription handle, `thread` the call in progress. A call is
cut at its system calls, since a child may end between any two of them: `PollEnded`,
`PollRunning` and `PollTimeout` are the first `waitpid()` of `poll()`, `GraceEnds` the
one after SIGTERM and 100 ms, `Kill` SIGKILL, `LastWait` the blocking one. What a command
printed is kept as whether the parser's text is in it (`Exits`, `Success`). The reply has both
what the driver says (`ok`) and what `HardwareNode` makes of it (`told`): the two differ for
`invokeCommand()`, which looks at no success flag.

### PowerManager

State: `system` is `state_`, `on` and `off` partition the registered nodes by state,
`due` is the time to the scheduled change, `battery` what is left of the battery.
`PowerTick` is `tick()`: an empty battery is looked at first (`TickBatteryOut`), else the
nodes that are due go off (`TickShutdown`) or on (`TickBoot`). `joined`, `share` and
`unseen` are history for the two orders and for `BatteryIsEnough`. Groups that are due in the
same pass go down in one step: `ShutdownInOrder` is about the order between passes, and
says nothing of the order in which one pass walks over the sorted nodes.

### PathTracer, Broker, Controller

`TracePath` is the breadth-first search, step by step (queue, seen, prev, in the
order of node ids) and `Within` the definition it is compared with. `Broker` is the
process around it: registration in arrival order until the count is reached (`Accept`),
then the poll loop (`Forward` for a node's frame, `DeliverDelayed`, `Hangup`,
`Control`). Nodes are processes with numbered incarnations that `Start`, `Greet` (write
their two registration bytes), `Send` and, killed or not, end (`NodeDies`); a connection is what was written and
not yet read. The link model's result for a frame (`Fates`) is a choice: lost on a link
that is down, lossy or under the chaos rule, or delivered with a delay up to `MaxDelay`.
In tracer mode a unicast is relayed hop by hop (`Relay`), in default mode it is sent
to the first connected other node (`Star`), as the code does. A frame carries the node id
itself, where the code makes an address of it and takes it back out (`Broker.cpp:316`,
`:323`); where the count of a drop is made (`:358`, `:366`, `:425`, `:432`) is one operator,
`Count`, so that one of these places going wrong alone is not told apart.

`Controller` looks at the same processes from their parent: `table` is the kernel's,
`pidOf` is `node_pids` and `broker_pid`, and of the broker only its phases are kept. `at`
is the controller's program counter, from `Spawn` over the loop (`Loop`, `Read`, the
commands, `Serve` for the dashboard) to `Stop` and `Wait`. A restart is three steps
(`Restart`, `Reap`, `Respawn`), a status is one that reaps and leaves the id in
`node_pids`, and a question to the broker waits (`Ask`, `Answered`). Every answer to a
dashboard client (`SendResponse`) may be the controller's last: `at` is then `"killed"`, and
the children go on without it.

### ThreadMesh

State, per router: `route` is the `RoutingTable` (next hop, cost, age), `heard`, `prev`
and `lost` the `SelfHealingEngine`, `air` its last advertisement and who has still to get
it. `Tick` is `ThreadNode::tick()` in its order (advertise, expire, look), `Receive` is
`processMLEFrame()`. `LinkDown`, `LinkUp`, `Lose` and `Restart` are the environment. The
unit of time is the advertisement interval: every node ticks once in it and frames
arrive or are lost within it.

### BorderRouter

State: `lease` is the SRP server's, `record` the registry's, `client` the devices' SRP
clients, `proxy` the proxy table in its order. `Boot`, `Move`, `Poll` and `Oversleep` are
what devices do, `ServerTick`, `ExpireStale` and `ExpireIdle` the sweeps, `AddEntry`,
`RemoveEntries`, `Touch`, `UpdateRLOC` and `Refresh` the table's operations. A device has one
service. The three components are a library with tests: no program of the repository builds
them, so nothing is assumed of when the sweeps are made.

### MatterNode

State: `session`, `sub` and `exchange` are the three managers' records, with ages
instead of times; `Never` is a time point that was never set, where the code asks for it,
and an age past every limit where the code subtracts it. `InteractionTick` is
`InteractionModel::tick()`: exchanges, subscriptions, idle sessions. `Complete` is
`completeExchange()`, which may come at any moment and ends an exchange without a handler.
`dirty` (changes no
report has told) and `outcome` (the handlers that were called) are history.

## 3. What the runs check

| Run | Instance | What it shows |
|---|---|---|
| `SessionPool_sessions` | two vans over two devices, keepalive 2, timeout 3, backoff 1 to 3, 3 attempts, up to 2 units between handlers | observers hear every transition in order; idling closes dead vans only; the refinement of `SessionContract`; silence is noticed and an answering van recovers |
| `Gateway_requests` | two vans, one device, two clients, two tenants of one van each, 4 operations; apart from it the buffer with two vans, a consumer for each and one for both, 2 events per van, 3 in total, 4 events | credentials stay sound, a deletion reaches every component, requests are answered and the clock is kept as long as no client is silent for ever; a cursor skips nothing that was there to be read, what a push drops is the oldest |
| `Gateway_silence` | the same gateway with one client | violated: a client that says nothing stops the keepalives (finding) |
| `FleetSubscriptions_timeout` | one van, two rules | violated: a subscription has a timeout, and it is zero (finding) |
| `PowerManager_orders` | border router, relay, two sensors, batteries of 0, 3 and 8 units, late ticks of up to 3; apart from it the subscriptions of one van, two rules (intervals 0 and 1), loss after 2 misses, 4 subscriptions | system state and nodes agree, groups go off in order, an ordered shutdown ends before the battery does, both transitions end; every active record owns its process, dead records are given up |
| `HardwareBridge_commands` | two process ids, two subscriptions, a timeout of 1 | no child is forgotten, a success is one, a cancellation hits its own process, every call returns |
| `Controller_commands` | two nodes and a broker over four process ids, two lines of input; four mesh nodes and all 4096 sets of links for the routes | a node is one process and known by its id, a shutdown leaves no child, a signal ends it unless something holds it for ever, `trace` prints shortest routes |
| `Controller_disconnect` | the same | violated: an answer to a client that has gone may kill the controller (finding) |
| `Broker_frames` | three nodes in a chain, one frame, two control commands, delays up to 1, either mode | every copy has one fate, drops are attributed, starting nodes are accepted |
| `Broker_restart` | two nodes that may start twice | violated: a restarted node is never attached again (finding) |
| `ThreadMesh_routing` | three routers that can be in range of each other and are in a chain at first, expiry after 2 units, cost 4 as infinity, two changes (links, losses, restarts) | a lost neighbour carries no route; routes come to the shortest and healing engines settle once links stay |
| `MatterNode_ticks` | a session, a subscription and an exchange, intervals 2 and 3, session idle after 2, retransmission after 1, 2 retransmissions, 2 misses, lags up to 2; apart from it the border router's tables, two devices, two controllers, two addresses, lease 4, time to live 2, renewal 1, idling 3, one entry, 4 events | exchanges have one outcome and end, changes are reported, dead peers are noticed; what is published is leased, what is renewed is listed, a session in use stays in the table |

Three runs hold two parts that meet in no handler. Their next-state relation explores each
part with the other at its start, so that the states add up and are not multiplied.

Why the bounds are enough. *Session pool*: scaled times keep the order base <
keepalive < timeout = cap and a lag long enough to skip over any deadline; vans
interact only through a shared device and through being served in one pass, so two
vans and two devices contain every pair; three attempts cover the doubling and the
cut. *Buffer*: the van limit and the total can each be the one hit, alone or
together, and four events wrap each of them; stamps are old, new or ahead of the clock. *Subscriptions*: two rules are the least
that make one call start several processes and fail on one of them; four processes
allow a resubscription with both rules; vans share only the id counter, and the
theorems cover any number of them. *Power*: three priorities with two nodes in one
group; batteries that give a spacing of zero, of zero but not empty, and of two. *Routes*: four
is the simulator's own number of nodes (`MESH_NODES`), so that part is exhaustive.
*Controller*: with four ids one is always foreign or free, so that an id can end, be given to
another process and be signalled; two lines allow any command after any other.
*Broker*: three nodes are the least with a relay; frames interact only through counters and
the order of delays. *ThreadMesh*: three routers are the least where a route leads
over a neighbour and two routers can keep a dead route alive between them; an
infinity of 4 lets them count up to it; two changes can isolate a router, or add a
link and then cut the one it shortens. *Border router*: the limits keep their order
(renewal < time to live < idling < lease) and the table is full with one entry. *Gateway*: one tenant can be
full while another is not, and one client waits while another is served. *Matter*: the three tables share the
tick and nothing else, so one entry of each is enough; the lag jumps over the smallest limit.
*Hardware bridge*: two ids, commands, two subscriptions and foreign processes make an id
that is reused between any two system calls.

Deadlock is checked except for the broker and the gateway: the broker's bounded numbers of frames and
restarts let everything come to rest, and the gateway may stop.

Fairness. The gateway loop (`GatewayMain.cpp:80-99`) ticks while the process runs, and
driver calls return (they have timeouts): weak fairness of `Tick` and of time in
`SessionPool` and `FleetSubscriptions`, of the loop's steps in `Gateway`. Nothing makes a
client speak: `recv()` has no timeout (`GatewayServer.cpp:234`), so that
`RequestsAreAnswered` and `ClientsDoNotStopTime` say what they say of behaviours in which
the loop is again and again not held by a silent client, and `Gateway_silence` shows what
happens in the others. `PowerManager` is ticked by its owner; its liveness is conditional
on that. The broker's loop serves every ready descriptor in each round, so `Accept` and `Hangup` are
fair, and so is `Greet`, since a node writes its registration right after it connects.
In the controller the thread itself is fair, a child that was killed ends and a started child
comes up. Two calls may hold it for ever, the question to a broker that waits for a node and
the `recv()` of a silent dashboard client (`Stuck`); `SignalEnds` is about behaviours in which
it is again and again not held by either. In `HardwareBridge` only the thread, time and the end of a
killed child are fair: a command may run for ever. In `ThreadMesh` something of a unit is always done, and a unit only ends when all of it is: every node's main loop
(`NodeMain.cpp:125-256`) ticks and what is on the air and not lost arrives;
`Converges` and `HealingSettles` are about what happens after the bounded number of changes.
`MatterNode` is ticked by the same loop. `BorderRouter` has no fairness: no program ticks it, and its
properties are safety. Nothing is assumed of crashes, restarts,
commands, devices that come back, or frames that are sent.

Findings. Each is what a document or a comment says, stated as a property that the code
does not have.

* `Broker_restart`: `README.md:186` describes restarting a node as putting it back into the
  mesh; the broker stops listening for registrations once the first phase is over
  (`Broker.cpp:197`), so the new process connects, writes its two bytes and is never read.
* `FleetSubscriptions_timeout`: `ChipToolDriver.cpp:464` says that a subscription has no
  timeout and passes `Duration(0)`, which `ProcessManager::poll()` (`ProcessManager.cpp:145`)
  takes for one that has passed: the first pass ends every subscription.
* `Gateway_silence`: `FLEET_GATEWAY.md` has the pool read an attribute every 60 s; a client
  that connects and says nothing holds `recv()` (`GatewayServer.cpp:234`), and with it the
  one thread, for as long as it likes.
* `Controller_disconnect`: `DashboardServer.cpp:352` calls its send best-effort since the
  client might disconnect; the send has no `MSG_NOSIGNAL` and SIGPIPE its default, so that
  the disconnection may end the controller. Its children run on.

`PROJECT.json` lists the hazards, each with its line and the properties against it.

## 4. What is proved

TLAPS proves the following for every value of the constants that satisfies the
modules' assumptions. For each model a single inductive invariant carries everything.

* `SessionPool_proofs`: `PoolTypeCorrect`, `ObserversAreInStep`,
  `AttemptsAreBounded`, `IdleHasKeepaliveDue`, `IdleClosesOnlyTheDead`,
  `ConnectedIsFresh`, `FailureUsesTheBudget` and `PoolKeepsContract`. Assumptions:
  positive intervals, and keepalive not longer than the timeout. The invariant
  `PoolInv` is one predicate per van (`VanInv`), what its observers were told included, and
  relates the clocks of a record to the time since the last pass: that bounds how far idle
  time can have run ahead, and so when an outage may lose its tries. Needed
  beyond the properties: while a van is connected, the time since its last answer
  *is* the time since its last keepalive (commands change only the activity), without
  which freshness is not inductive. A pass is proved for one record
  and lifted to all of them. `PoolIsAsTheGatewaySeesIt` relates the pool to `Gateway`, which
  keeps of each record only none, up or down: the pool does to this view nothing that the
  actions of `Gateway` do not do to its `session`.
* `OfflineBuffer_proofs`: `BufferTypeCorrect`, `TotalIsExact`, `LimitsHold`,
  `IdsNameEvents`, `PagingSkipsNothing`, `PagingRepeatsNothing`,
  `EvictionStopsAtTheYoung`, `PushIsFair`. `BufferInv` adds finiteness (for counting) and
  cursors below the next id that bound what was seen. Nothing is assumed of the stamps, so
  what is proved of `evict()` is what it does with any: it takes only what is too old, and
  what it leaves that is too old is behind something younger.
* `FleetSubscriptions_proofs`: `SubsTypeCorrect`, `CancellationIsExact`,
  `LostAreReaped`, `LossIsEarned`. `SubsInv` adds that all ids in use are below the
  next one (so that a new call cannot collide with an old process), that a process no
  time has passed for belongs to a record that is not silent (so that whatever gives
  the record up also finds the process to be reaped), and that an active record has
  misses left. `FreshIds` counts the ids of one call.
* `PowerManager_proofs`: `PowerTypeCorrect`, `SystemAgreesWithNodes`,
  `ShutdownIsOrdered`, `BootIsOrdered`, `BatterySuffices`. `PowerInv` adds the
  schedules themselves (`due` follows the priorities, for the nodes that were there
  when it was made) and `ShareIsKept`: the last node is due a whole share before
  the battery ends, less what has passed unseen.
* `Gateway_proofs`, the gateway's half: `GatewayTypeCorrect`, `CredentialsStaySound`,
  `DeletionReachesEverything`. The invariant is the tables' half (`TablesInv`) and the loop's
  half (`LoopTypeOK`). Tenant ids are below the next one (`TenantsAreOld`): only
  because an id is never used twice has a new tenant no credentials. Issuing, taking away
  and creating are a lemma each about the counts.
* `Gateway_proofs`, the bridge's half: `BridgeInvariant`, `NoneIsLeftBehind`,
  `SuccessesAreReal`, `CancelHitsOnlyItsChild`, for any number of process ids, handles and
  any timeout. `BridgeInv` ties the kernel's table, the managers and the thread's place in a
  call together: the thread goes from one system call to the next at one manager
  (`ThreadAtManager`); a manager that runs is that of the command in progress or of a handle
  (`RunningAreKnown`); its process is its own, and a child until a `waitpid()` of this call
  may have taken it (`RunningHaveChildren`, `MayBeReaped`); there are no other children
  (`ChildrenHaveManagers`). After the second `waitpid()` of `poll()` nothing is known of the
  process any more, which is why `CancelHitsItsChild` can be about `kill()` only.
  `ResultStands` keeps a success next to the answer it was given for; of `invokeCommand()` it
  is only claimed for what the driver says, since what `HardwareNode` says is no result.
* `Node_proofs`, the Thread half: `RoutingTypeCorrect`, `NoRouteOverTheLost`. `RoutesAreBacked`
  says for every entry what the property says of next hops; it is kept because one frame
  refreshes both tables, one tick expires both by the same limit, and the age of a
  neighbour never exceeds that of a route over it.
* `Node_proofs`, the Matter half: `MatterInvariant`, `ExchangesHaveOneOutcome`. An exchange's
  record says which handlers it may have called (`OutcomeFollowsState`), so that a late answer
  finds nothing to call, and one that was completed before its answer ends with none; changes are kept for active subscriptions only, and these have
  misses left (`DirtyCanBeReported`).
* `Simulator_proofs`, the paths: `TracedRouteIsShortest` for any number of nodes and any set of
  links, and from it `RoutesStayShortest`. The invariant of the search (`SearchInv`) gives
  every node it has found a depth: links that were used lead one deeper (`LinksDeepen`), the
  queue is in the order of depths and these differ by one at most (`QueueInOrder`), and
  whoever has left the queue has found its neighbours (`Spread`). As many rounds as there are
  nodes are enough since each takes one node out (`Counted`). Then a depth is the number of
  hops of the route that is walked back (`Trails`), and what is within fewer hops
  (`NearAreFound`) has a smaller depth.
* `Simulator_proofs`, the controller: `ControllerInvariant`, `EachHasOneProcess`,
  `ShutdownLeavesNone`, for any number of nodes and ids. The last is about a controller that
  returns from `main()`; one that SIGPIPE kills leaves its children, and no theorem says otherwise. Beyond the properties the invariant
  needs `OldProcessesAreGone`: whoever is to be forked next, and whoever the end has waited
  for, has no process. An id that was reaped and is somebody else's by now makes a
  `waitpid()` return at once, but then its child had ended before.
* `Simulator_proofs`, the broker: `BrokerInvariant`, `CopiesAddUp`, `EveryDropHasItsAccount`,
  for any mesh, preset and bounds. Copies can be counted because frames differ wherever they
  are (`FramesDiffer`), which rests on ids and on connections that never come back
  (`OnlyTheBorn`). That nodes which
  are all there have always been there (`StayersWereThere`) is what makes the sum exact. The
  drops of the links are a sum over a set: `TotalIsRecursive` unfolds the fold,
  `DeathsAdd` says what a death adds to it, and that the links of a relayed route exist is
  `TracedRouteIsShortest`.
* `BorderRouter_proofs`: `LeaseTypeCorrect`, `PublishedHasLease`, `RenewedIsListed`.
  `Agree` adds that a lease belongs to a client that has registered and that a record is
  never older than the last success of its client, so that what has expired in the registry
  is nothing a client still counts on. Assumed: renewal is not later than the time to
  live (60 s and 120 s in the code).

Recursion and folds. The library's induction theorems take an operator, which the provers
cannot instantiate, so inductions run over sets of numbers (`UpTo`: a set with 0 that has
the next number of each of its numbers) and of sets of links (`TakenOneByOne`). That a
recursive function exists at all is shown the same way (`Iterates`, `SumExists`), and only
then does the `CHOOSE` it stands for have its rounds.

Only model-checked: every liveness property (fairness and `ENABLED` are out of the prover's
reach), and `SessionsInUseStay` of `BorderRouter`, whose proxy table is a sequence that
`SelectSeq` with a `LAMBDA` takes entries from, of which the provers know nothing.

## 5. Where the code differs from its documents, and what is not modelled

The models follow the code. Where that is not what a document or a neighbouring part
leads one to expect, it is written down here; the four findings of section 3 have runs of
their own.

* *Pool*. A keepalive that fails schedules a retry, which the idle check of the same pass
  may discard by closing the session (`SessionPool.cpp:97`; `FLEET_GATEWAY.md:116` has
  every failure followed by a reconnection with backoff). This takes a van that was silent
  to everything for the whole timeout when its keepalive fails, so a pass that comes more
  than 240 s after the last (the contract's `late`): a driver call takes up to 30 s, so eight
  or nine dead vans in one pass, or a silent HTTP client, put the next one off for that long. A
  `connect()` that fails is never retried, and `connect()` takes vans that nobody registered. Nothing in `GatewayMain.cpp` connects a van, although
  `FLEET_GATEWAY.md:3` speaks of persistent sessions.
* *Buffer*. Ids begin at 1 again in a new process (`OfflineBuffer.h:46`), while the cursors of
  consumers (`FLEET_GATEWAY.md:123`) live on.
* *Subscriptions*. The first poll ends every subscription process, since a timeout of zero
  has always passed (finding). A van's records stay active until they have missed their
  reports, and only then is a loss told.
* *Gateway*. Deleting a van leaves its credential and its buffered events; a new device id
  for a van leaves the session on the old one (`GatewayServer.cpp:333`); one bad request ends
  the process, the vans' sessions with it (`Die`); a request that arrives in two parts is
  served without the second (`:234`); the `send()` of an answer larger than the socket's buffer
  waits for a client that may never read (`:267`), which is not modelled; `FabricIndex` is cut to its width
  (`FabricManager.cpp:80`); nothing calls `setVanState`.
* *Hardware bridge*. `HardwareNode::invokeCommand` answers without looking at the result's
  success (`HardwareNode.cpp:129-137`), so a command that failed or timed out is answered as
  done: `told` in the model, and `SuccessIsReal` claims nothing for it. `poll()` sends SIGKILL without asking what the second `waitpid()`
  returned (`ProcessManager.cpp:150`), so the id may be somebody else's by then: `CancelHitsItsChild`
  holds for `kill()`, and `poll()` is excluded from it. A command that ended while its
  timeout was handled is reported as timed out.
* *Power*. A node registered during a boot is scheduled without regard to those before it
  (`PowerManager.cpp:14`; `POWER_LIFECYCLE.md:90` gives the order). Groups that a late tick
  finds due together go down in the order of `std::sort` (`:173`), which the model has as one
  step.
* *Broker*. It counts registrations and not nodes (`Broker.cpp:277`); a crashed relay goes on
  relaying traced frames (`:410`); a traced unicast to a node that has left is handed to
  another (`:324`), which no property speaks about; forwarding rewrites the destination to the next hop, which takes the
  frame for its own; sends are made without `MSG_NOSIGNAL` (`Socket.cpp:94`). Traces and
  probes use the preset topology whatever has been cut since.
* *Controller*. SIGPIPE at the dashboard's send (finding) takes a client that reset its
  connection before the answer. A client that says nothing holds the `recv()` of the
  dashboard (`DashboardServer.cpp:298`), and with it the commands and the signals that are
  looked at between them. `status` and the dashboard reap nodes and keep their ids; a failed `fork()`
  leaves -1, which later signals address to every process of the user; `quit`
  leaves only the line loop and the process runs on until a signal (`Main.cpp:459`; its help at `:487` and
  `docs/CLI.md` say it shuts down); backhaul and tunnel commands only print and record; the hardware
  console's help lists `write` and `invoke`, which have no branch.
* *Thread*. `PartitionDetected` is told without a `RouteRecalculated` (`SelfHealing.cpp:158`)
  and recovery times are always 0 (`:25-32`). A payload whose first byte is 1 is taken for an
  advertisement.
* *Border router*. Nobody ticks `expireIdle()` (`POWER_LIFECYCLE.md:84` has entries expire
  after five minutes, `:128` calls it at the shutdown only), and `NodeMain.cpp` builds none of
  `BorderRouterProxy`, `SRPServer` and `SRPClient`: node programs publish with
  `ThreadNode::registerServices` (`ThreadNode.cpp:151-177`), with no lease. A client with two
  services would postpone the renewal of the first with each registration of the second
  (`SRP.h:122`, `SRP.cpp:175`), which a device with one service leaves out. The lease is two
  hours and the record two minutes; a client whose lease is
  gone never registers again; `clearRLOCChanged` is called by nobody; a full proxy table
  refuses new sessions, where `README.md:135` has the oldest idle one go;
  `DiscoveryClient::scan` tells of a name once for ever (`Discovery.cpp:112-121`), also of one that has gone and
  come back.
* *Matter*. Nothing sets an exchange's `sent_time` before its first retransmission
  (`Exchange.cpp:62`), which therefore comes with the first tick; the model does the same, and
  no property is about it. Exchange ids are 16 bits wide and wrap without a look at what is pending; `on_timeout`
  may change the map that is being walked. The initiator of `CASE` and `PASE` has no last step.

Not modelled: encodings (TLV, MAC frames, JSON, the tracer's binary records), text patterns of
`chip-tool` output, command lines, statistics, logging and pages: data without a protocol.
The delivery estimate of `PathTracer` is floating-point arithmetic. `CASE`, `PASE` and
`Fabric` are straight-line code without cryptography that no program starts. `FaultPlan`,
`Scheduler` and `Chaos`, children and address assignment in `ThreadNode`, and data frames
are driven by tests only; a node process is told its role on the command line. Blocking writes with full socket buffers in both
directions (`Broker.cpp:484`) need the capacity of the buffers and are a hazard that no
property covers. The relay and tunnel in `tools/` are JavaScript over a WebSocket library, the iOS
app is views and calls into vendor SDKs on the platform's actors, and the
exercises under `ios/MatterAI/Core/Questions` are no part of the program.

## 6. Plan

Done: the components that the three programs (gateway, broker with its nodes, controller)
keep state in over time, and the invariants and action properties of their runs as theorems,
`SessionsInUseStay` excepted. Open, in this order:

1. The subscriptions of `Gateway` as a view of `FleetSubscriptions`, the way its sessions
   are one of `SessionPool` (`PoolIsAsTheGatewaySeesIt`), and then one tick for all three.
2. The safety half of the liveness properties: measures that no step but a fault
   raises, such as the distance of the routes from the shortest in `ThreadMesh`, or the
   misses that a silent peer has left in `MatterNode`.
3. A model of the relay in `tools/sim-relay` (pending requests, their timeout, the
   tunnel's reconnection).
