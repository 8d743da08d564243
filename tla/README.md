# TLA+ models of the zeppelin meta server

These modules model the meta server in `src/src/meta/zp_meta_server.cc`.
The meta server is the leader of a floyd consensus group. It keeps the cluster
topology for the data servers: which data servers exist, whether each is UP or
DOWN, and which data server is master and which are slaves of each partition.
`PROJECT.json` lists every component, run, mutant, finding and hazard, and maps
each definition to the source lines it translates.

## 1. Inventory

### Components and how they interact

| Component | Code | State | Operations |
|---|---|---|---|
| Consensus KV adapter | floyd, `Set` (115-123), `GetAllNode`, `GetMSInfo`, `PartitionNums` | keys `ND` (Nodes table), `MT` (partition table + version), `PN` (partition count), `PART:<id>` (Replicaset) | Read/DirtyRead/Write; a write or a dirty read may fail |
| Placement | `Reorganize` (147-178), layout loop of `Distribute` (203-232) | pure | bucket the UP nodes by host, round-robin them, lay out master and two slaves per partition |
| Topology state machine | `AddNode`, `SetNodeStatus`, `OnNode`, `OffNode`, `Distribute` (180-585) | the keys above and the cached epoch `version_` | each holds `node_mutex_` from its first read to its last write |
| Liveness tracker | `node_alive_`, `AddNodeAlive` (262-283), `CheckNodeAlive` (486-504), `UpdateNodeAlive` (506-516) | `node_alive_` under `alive_mutex_` | JOIN marks, PING refreshes, the cron sweeps timed-out entries and enqueues REMOVE |
| Update worker | `ZPMetaUpdateThread` (not under `src/`, spec 4.D) | FIFO of (endpoint, ADD/REMOVE) | ADD runs `AddNode`, REMOVE runs `OffNode`; the status is dropped |
| Command dispatcher | command table (745-765); handlers not under `src/` | none of its own | JOIN → `AddNodeAlive`, PING → `UpdateNodeAlive`, INIT → `Distribute`, PULL reads |
| Leader lifecycle | `IsLeader`, `BecomeLeader`, `RedirectToLeader`, `CleanLeader`, `InitVersion` (89-113, 614-737) | `leader_first_time_`, `leader_ip_`, `leader_cli_`, `version_` | poll the floyd leader, become leader (restore liveness, reload epoch), or redirect |
| Data worker counters | `src/src/node/zp_data_worker_thread.h` | `thread_querynum_`, `last_thread_querynum_`, `last_sec_thread_querynum_` | increment per query, per-second rate in the cron |

The data flow is:

1. A data server sends JOIN, then PING.
2. JOIN marks the node alive and runs `AddNode`, then enqueues ADD.
3. The cron sweeps timed-out entries and enqueues REMOVE.
4. The update thread runs each task: `AddNode` (which runs `OnNode` when a node comes back UP) or `OffNode`.
5. INIT runs `Distribute` once to create the partitions.

### Hard behaviours

- **Concurrent threads.** Three kinds of thread act on the same data: the dispatcher workers, the cron and the update thread. `AddNodeAlive` takes `alive_mutex_`, then `node_mutex_` (inside `AddNode`), then the queue. It releases each lock before taking the next, so the sweep can run between any two of these steps.
- **Failed floyd calls.** Any floyd write or DirtyRead may fail, and each operation reads and writes several keys in sequence. A failure part-way leaves the earlier keys written and the later ones not; every caller returns on a failed read.
- **Cached epoch.** `version_` is a cache that every MT write trusts without reading MT back.
- **The Reorganize loop.** It ends only when an accumulated counter equals the bucket count exactly.
- **Time.** Time enters only through the `kNodeMetaTimeoutM` comparison.

### Properties per component

| Component | Properties |
|---|---|
| Placement | `SpreadsHosts` (P7), `ReorganizePlacesAllNodes` (returns the spec's round robin) |
| Topology | `EpochIncrementsByOne` (P1, I4), `ReplicasetPreserved` (failover permutes a partition's replica set), `MasterIsUp` (P2, P5), `TableMatchesPartitionNum` (I2, P4), `NoOrphanWithUpSlave` (P6, I5), `PartitionTableRefined` (MT implements the abstract `PartitionTable`) |
| Liveness tracker and update worker | `CrashedNodeEventuallyDown`, `RunningNodeEventuallyServed` (I6 in its eventual form) |
| Leader lifecycle | `LifecycleSettles` (peers settle once floyd's leader is stable), `EpochAcrossLeaders` (all peers' MT writes implement `PartitionTable`'s epoch order, spec 5) |

## 2. Modules

- **`Placement.tla`** models `Reorganize` and the `Distribute` layout as operators.
  - `Buckets` maps each host to its nodes in input order.
  - `VisitBucket` is the body of the inner `for`: an empty bucket increments `empty_count`; otherwise the bucket's last node moves to the output.
  - `Pass` folds `VisitBucket` over the hosts in key order.
  - `Loop` is the `while (true)`. It is RECURSIVE, and it returns `Diverged` once `empty_count` has passed the bucket count, because from then on the loop can never exit.
  - `SpecReorganize` is the round robin that spec 4.E describes, as a reference definition.
  - `Layout` is the loop that builds partitions `0..num-1`.
- **`MCPlacement.tla`** enumerates every Nodes table of up to `MaxNodes` entries. It grows the table by AddNode's append branch and flips entries with `SetNodeStatus`. It then states the properties of `Reorganize` applied to the table's UP list.
- **`Topology.tla`** holds the floyd keys (`nodes`, `mt`, `pn`, `part`), the cached epoch `version`, the flag `hung` (a `Distribute` stuck in `Reorganize`, which keeps `node_mutex_` for good), and the count of failed floyd calls.
  - `AddNode`, `OffNode` and `Distribute` are each one atomic step, because each holds `node_mutex_` throughout.
  - `SetNodeUp` is `SetNodeStatus(UP)` followed by `OnNode`, which adopts orphans and writes MT only if one changed.
  - `Distribute` is refused when `PartitionNums` is not 0. A failed DirtyRead of PN makes `PartitionNums` return 0, so one failed read lets a second INIT through; it spends the same failure budget as a failed write.
  - An operation picks `f`, the ordinal of the floyd call that fails (0 means none). `AddNode` and `OffNode` make up to four calls, in code order: the ND read (`GetAllNode`), the ND write, the MT read (`GetMSInfo`, in `OnNode` or `OffNode`) and the MT write. The operation follows the code's error path from the failed call: a failed read is returned (in `OffNode` the ND read fails before anything is written, the MT read after the node was written DOWN); `Distribute` returns after a failed ND read or PART write, logs a failed MT write and goes on, and `version_++` only on success (`WriteMSInfo`).
  - The returned status is the argument `ok`.
  - When `MT` was never written, floyd may either return an error from DirtyRead or return an empty value, so the caller's status is left free there.
- **`MetaServer.tla`** composes `Topology` with the liveness map (`alive`, plus the subset `expired` whose timeout has passed), the update queue and the data servers (`running`, `needsJoin`).
  - JOIN is three actions, split at the code's lock boundaries: `JoinMarkAlive`, `JoinAddNode` and `JoinSchedule`.
  - `Ping` is `UpdateNodeAlive`. An unknown node gets the REJOIN answer.
  - `CheckNodeAlive` erases every expired entry and enqueues REMOVE tasks in key order.
  - `UpdateTask` runs the head of the queue.
  - `Crash`, `Restart` and `Expire` are the environment. `Expire` is the timeout passing: always possible for a crashed server, and at most `MaxSuspicions` times for a running one (late pings).
- **`PartitionTable.tla`** is the abstract specification of key MT: `epoch` and `table`. `Create` writes the first table once, with ids 0..n-1. `Reconfigure` is a failover: same partitions, the same replica set in each, and the next epoch. It models what spec sections 3, 4.E and 5 promise, not code. `MetaServer` and `LeaderLifecycle` each instantiate it with a refinement mapping (`epoch <- mt.version`, `table <- mt.info`) and check `Abstract!Spec` as a property.
- **`LeaderLifecycle.tla`** models the meta peers of one floyd group. `floydLeader` is what `GetLeader` reports. `Elect` is floyd's election, the environment of this code, and stands for no line of `src/`.
  - Each peer has `started`, `version_`, `leader_first_time_`, `leader_ip_` and whether `leader_cli_` is open.
  - `Start` waits for a leader and runs `InitVersion`.
  - Each peer has two threads that call `IsLeader`: the cron's leader poll and a dispatcher worker. `GetLeaderCall` is the read of floyd's leader before `leader_mutex_` (lines 614-626). `IsLeader` is the locked part (628-681), using the leader that this thread read, which may be stale by then. It has three outcomes: already connected; this peer is leader (with `CleanLeader` and `BecomeLeader` the first time); or connect to that leader. `serving` is the result of the peer's latest call.
  - `BecomeLeader` can fail its read of ND and return before `InitVersion`.
  - `RedirectFails` is a failed Send or Recv in `RedirectToLeader`.
  - The topology writes are reduced to what the leader logic affects. `Distribute` writes MT at `version_ + 1` in the handler (lines 237-241); its PN check (line 182) is approximated by "MT exists", which is exact while writes do not fail. `ScheduleUpdate` is a JOIN or sweep that queues a task, and `UpdateWrite` is the update thread's MT write at `version_ + 1`, which does not consult `IsLeader`. A task whose `OffNode` or `OnNode` finds nothing to rewrite writes nothing; such a task is simply never scheduled here, since `ScheduleUpdate` is optional.
  - The constant `ReadMissingNotFound` selects what floyd's Read returns for a missing key: NotFound, or an empty value.
- **`MCMetaServer.tla`** defines the data server sets and `JoinedInit`: the state once every data server's first JOIN has completed, before INIT. The safety run starts from `JoinedInit` so that its budget goes to failover rather than to the many orders of the first JOINs. The runs that start from `Init` cover those orders.

## 3. Runs

| Run | Cfg | Bounds | Expect | What it shows |
|---|---|---|---|---|
| placement_spread | MCPlacement.cfg | 3 hosts × 2 ports, ≤5 entries | pass | `SpreadsHosts` whenever `Reorganize` returns (29,893 states) |
| reorganize_places | MCPlacement_places.cfg | same | violation | hosts 1,1,2: `Reorganize` never returns, so `Distribute` holds `node_mutex_` forever. The property also covers the other outcome of the same counter, a return that leaves a node out. That happens for bucket sizes 1 and 4, which need `Ports` of size 4; TLC reports the shorter hang first. |
| meta_safety | MCMetaServer_joined.cfg | 3 servers, INIT 1, 1 failed floyd call, 2 crashes, 1 late ping | pass | `TypeOK`, `ReplicasetPreserved`, `EpochIncrementsByOne` (about 914k states, ~2 min) |
| pn_without_table | MCMetaServer_pn.cfg | 3 servers, 1 write failure | violation | INIT's MT and PN writes are not atomic: a failed MT write still sets PN, leaving no table, and INIT is refused for good |
| master_up | MCMetaServer_masterup.cfg | 3 servers, INIT 2, 1 crash | violation | INIT with one UP node gives master a with slaves a, a; `OffNode(a)` keeps the DOWN node a as master |
| crashed_down | MCMetaServer_crash.cfg | 3 servers, 1 crash, fair | violation | a sweep between `AddNode` and the ADD enqueue makes the queue run REMOVE then ADD; the crashed node ends UP with no liveness entry |
| running_served | MCMetaServer_live.cfg | 2 servers, INIT 1, 1 crash, 1 late ping, fair | pass | a server that stays up ends UP and in `node_alive_` for good (85,886 states) |
| meta_reliable | MCMetaServer_refines.cfg | 3 servers, INIT 1 or 2, no write failure, 2 crashes, 1 late ping | pass | `PartitionTableRefined` and `NoOrphanWithUpSlave` (334k states, ~30 s) |
| orphan_after_failure | MCMetaServer_orphan.cfg | as meta_safety | violation | all three replicas go DOWN; the first to return is written UP, but its `OnNode` MT write fails and the orphan is never adopted |
| leader_settles | MCLeader_settles.cfg | 2 peers × 2 threads, 2 leader changes, 1 failed connect, 1 failed redirect, 1 failed ND read, 2 writes, fair | pass | `LifecycleSettles` (303k states, ~1 min) |
| leader_epoch | MCLeader_epoch.cfg | same, no fairness | violation | p1 still serves after p2 became leader and loaded version -1; p1's INIT writes epoch 0 and p2's update thread writes epoch 0 again |
| initversion_hang | MCLeader_initversion.cfg | 3 peers, Read of a missing key is NotFound | violation | no peer gets past `InitVersion` on a fresh cluster |

**Bounds.**

- Three data servers on three hosts is the smallest setting in which a partition has three distinct replicas. The no-live-slave branch of `OffNode` needs three DOWN events, which is why `meta_safety` allows 2 crashes and 1 late ping.
- One failed floyd call reaches every failing-read and failing-write branch, one per behaviour.
- INIT with one partition is enough for safety, because every partition is handled alike. `master_up` uses two partitions so that the layout repeats a node.
- `meta_reliable` has no write failure because a failed write already breaks the refinement (findings 2 and 5). It allows two partitions so that `OnNode` can adopt two orphans at once.
- `leader_settles` has two peers: three peers with two threads each reach more than 5M states. Two peers are enough for a follower to follow through every change and for A to B to A. `leader_epoch` keeps three peers.
- The leader runs allow two leadership changes: enough for A to B and for A to B to A. With one failure of each kind, every error path of `IsLeader`, `BecomeLeader` and `RedirectToLeader` is taken.
- The Placement runs cover every UP list of up to 5 entries over 3 hosts. That includes all bucket-size patterns up to (1, 4) and (2, 2, 1).

**Mutants.** Each property of a passing run is broken by a plausible bug in the definition it is about:

| Mutant | What the bug is | Property it breaks |
|---|---|---|
| `VisitBucketDrains` | drains a whole bucket at once | `SpreadsHosts` |
| `MSInfoIdFromOne` | numbers partition ids from 1 | `TypeOK` |
| `DemoteDropsMaster` | forgets to append the old master | `ReplicasetPreserved` |
| `WriteMSInfoBumpAlways` | runs `version_++` on failure too | `EpochIncrementsByOne` |
| `PingCreatesEntry` | `UpdateNodeAlive` inserts the missing entry | `RunningNodeEventuallyServed` |
| `AdoptsAnyMaster` | `OnNode` takes over partitions that still have a master | `PartitionTableRefined` |
| `OnNodeInfoFirstOnly` | `OnNode` stops after the first orphan | `NoOrphanWithUpSlave` |
| `ConnectedIpKept` | a failed connect keeps `leader_ip_` | `LifecycleSettles` |

## 4. Fairness

The fairness assumptions, and the code behaviour that justifies each:

- The cron calls `CheckNodeAlive` every tick: weak fairness.
- The update thread drains its queue: weak fairness.
- A dispatcher that has begun a JOIN finishes it: weak fairness on each JOIN step.
- Time passes, so a crashed server's entry does expire: weak fairness on `Expire` for servers not running.
- A running data server keeps sending PING and, after an error or a REJOIN hint, JOIN: weak fairness on `Ping` and `JoinMarkAlive`.
- Crashes, restarts, late pings and INIT are the environment's choice and get no fairness.
- In `LeaderLifecycle`, floyd elects some leader when there is none. Each peer's `Start` loop and its cron's leader poll keep running, every `IsLeader` call that has read a leader finishes (a worker calls only when a request comes), and its update thread drains its queue: weak fairness on each. Leadership changes, requests and network failures get no fairness.

## 5. Findings

1. **`Reorganize` can hang or drop nodes (line 163).** `empty_count` is never reset per pass. For some unequal bucket sizes `Reorganize` never returns (hosts 1, 1, 2) and for others it drops nodes (sizes 1 and 4); other unequal sizes, such as (1, 3) and (2, 4), come out complete.
2. **INIT writes MT and PN non-atomically (line 251).** A failed MT write still sets PN, so INIT is refused for good with no table. A failed PN write leaves the table with PN unset, so `Distribute`, which checks only PN (line 182), accepts a second INIT. That INIT replaces the live table with other replicas.
3. **`OffNode` uses a stale UP list (line 415).** It takes the UP list before the node's own DOWN write. With fewer than three UP nodes, the DOWN node stays master.
4. **A crashed node can come back UP for good (line 282).** JOIN's ADD can be queued behind the sweep's REMOVE. The update thread then resurrects a crashed node as UP, and nothing removes it again. A failed DirtyRead of ND in `OffNode` (line 408) reaches the same end state without the race: the sweep has already erased the entry, `OffNode` returns, and the REMOVE is dropped. That path is in the model (`meta_safety` lets one read fail), but `CrashedNodeEventuallyDown` is checked only with reliable floyd calls, where the race already violates it.
5. **A failed `AddNode` in the update thread is never retried (lines 338-349).** The status is dropped.
   - If `OnNode`'s MT write fails after the node was written UP, the partitions orphaned while it was DOWN keep no master. Their slave is UP, and later JOINs find it UP and skip `OnNode`.
   - If the ND write fails, the node stays DOWN while its pings succeed. Run `orphan_after_failure` shows the first case.
6. **Epochs repeat across leaders (lines 239, 478, 639, 670).** Each of these keeps writing MT with its own `version_` after another peer loaded the same value and wrote:
   - a peer that last saw itself as leader;
   - its update thread;
   - a leader that missed an A to B to A change;
   - a leader whose `BecomeLeader` read of ND failed.
7. **`InitVersion` hangs on a fresh cluster if floyd reports a missing key as NotFound (line 106).** The NotFound branch is commented out, so no peer ever starts.

Two spec scenarios disagree with the code:

- The first epoch `Distribute` writes is 0 (`version_` starts at -1), while spec scenario S2 says 1.
- The spec accepts colliding replicas when fewer than 3 nodes are UP. Finding 3 is one consequence.

## 6. Not modelled, and the plan

Not modelled, and why:

- **Data worker counters** (`src/src/node/zp_data_worker_thread.h`). The RWLock is a temporary and holds nothing. But the counters' callers are not under `src/`. The class has its own `CronHandle`, so the increment and the per-second reset run on the same worker thread, and other threads read single 64-bit words. No interleaving is left to check.
- **`RestoreNodeAlive`.** `node_alive_` is in `MetaServer`, which has one leader, so `BecomeLeader`'s rebuild of it is not composed with `LeaderLifecycle`. The hazard is that a leader that missed `BecomeLeader` sweeps an old `node_alive_`.
- **`PartitionNums`' `std::stoi`.** It would throw on an empty value, but PN is only ever written by `Distribute` with `std::to_string`, and a missing PN is a failed DirtyRead, which returns 0. This is not a hazard of this code.
- Protobuf encoding and TextFormat logging are assumed lossless.
- The floyd log itself is outside this repository.
- Process shutdown (`Stop`, `CleanUp`) only ends threads.
- PULL only reads.

What is left, and why it stays out:

- Every operation of `src/` that changes state is an action of a module, except `RestoreNodeAlive` (above) and the thread start and stop code.
- `RestoreNodeAlive` needs `LeaderLifecycle` composed with the liveness map. With the split `IsLeader`, two peers already take about 300k states. Adding one data server and its liveness entry multiplies that past what TLC checks in five minutes. A smaller composition (one thread per peer) would drop the interleaving that `leader_settles` is about. The likely effect is also benign: a node the stale map does not know gets REJOIN on its next PING, and a stale entry for a DOWN node only queues a REMOVE that `OffNode` turns into a no-op.
- `Get` and `Delete` (lines 124-146) have no caller in `src/`. `PartitionId2Key` and the command table only build strings and pointers.
