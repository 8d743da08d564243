----------------------------- MODULE MetaServer -----------------------------
(***************************************************************************)
(* The leader meta server as a whole: the topology state machine          *)
(* (Topology), the liveness map node_alive_ with its sweep, the update     *)
(* thread's queue, and the JOIN, PING and INIT requests that data servers  *)
(* and operators send.  This module keeps one peer as the floyd leader;    *)
(* leader changes are the subject of a later module.                       *)
(*                                                                         *)
(* Threads and locks (zp_meta_server.cc):                                  *)
(*  - a dispatcher worker runs one request handler at a time; AddNodeAlive *)
(*    (lines 262-283) takes alive_mutex_, then node_mutex_ inside AddNode, *)
(*    then enqueues, so its three steps are three actions here;            *)
(*  - the cron's CheckNodeAlive (486-504) runs under alive_mutex_;         *)
(*  - the update thread pops one task at a time and runs AddNode or        *)
(*    OffNode under node_mutex_.                                           *)
(*                                                                         *)
(* Time is abstracted to whether a node_alive_ entry is older than         *)
(* kNodeMetaTimeoutM: Expire(e) is the timeout passing for e.  It happens  *)
(* to a crashed data server's entry, and to a running one's at most        *)
(* MaxSuspicions times (its pings were late).                              *)
(***************************************************************************)
EXTENDS Topology

CONSTANTS Nums,            \* partition counts an INIT may carry
          MaxCrashes,      \* bound on data server crashes
          MaxSuspicions    \* bound on timeouts of running data servers

ASSUME Nums \subseteq 1..MaxNum

kOpAdd == "kOpAdd"
kOpRemove == "kOpRemove"

\* States of a JOIN being handled by AddNodeAlive for endpoint e.
Idle == "Idle"           \* no JOIN of e in a dispatcher
Marked == "Marked"       \* node_alive_[e] set (lines 263-268)
Added == "Added"         \* AddNode returned OK (line 275)

VARIABLES
  alive,       \* DOMAIN node_alive_
  expired,     \* entries of node_alive_ older than kNodeMetaTimeoutM
  queue,       \* the update thread's tasks [ip_port, op]
  joinPc,      \* progress of the JOIN of each endpoint
  needsJoin,   \* the data server will send JOIN (startup, REJOIN hint, error)
  running,     \* data servers that are up
  crashes,     \* crashes so far
  suspicions   \* timeouts of running data servers so far

metaVars == <<alive, expired, queue, joinPc, needsJoin, running, crashes,
              suspicions>>
vars == <<topoVars, metaVars>>

Task == [ip_port : DataNodes, op : {kOpAdd, kOpRemove}]

TypeOK ==
  /\ TopoTypeOK
  /\ alive \subseteq DataNodes /\ expired \subseteq alive
  /\ queue \in Seq(Task)
  /\ joinPc \in [DataNodes -> {Idle, Marked, Added}]
  /\ needsJoin \in [DataNodes -> BOOLEAN]
  /\ running \subseteq DataNodes
  /\ crashes \in 0..MaxCrashes /\ suspicions \in 0..MaxSuspicions

Init ==
  /\ TopoInit
  /\ alive = {} /\ expired = {}
  /\ queue = <<>>
  /\ joinPc = [e \in DataNodes |-> Idle]
  /\ needsJoin = [e \in DataNodes |-> TRUE]
  /\ running = DataNodes
  /\ crashes = 0 /\ suspicions = 0

-----------------------------------------------------------------------------
(* Data servers.                                                            *)

Crash(e) ==
  /\ e \in running /\ crashes < MaxCrashes
  /\ running' = running \ {e}
  /\ crashes' = crashes + 1
  /\ UNCHANGED <<topoVars, alive, expired, queue, joinPc, needsJoin, suspicions>>

\* A restarted data server announces itself with JOIN.
Restart(e) ==
  /\ e \notin running
  /\ running' = running \cup {e}
  /\ needsJoin' = [needsJoin EXCEPT ![e] = TRUE]
  /\ UNCHANGED <<topoVars, alive, expired, queue, joinPc, crashes, suspicions>>

\* kNodeMetaTimeoutM passes since e's entry was last refreshed.
Expire(e) ==
  /\ e \in alive \ expired
  /\ e \in running => suspicions < MaxSuspicions
  /\ expired' = expired \cup {e}
  /\ suspicions' = IF e \in running THEN suspicions + 1 ELSE suspicions
  /\ UNCHANGED <<topoVars, alive, queue, joinPc, needsJoin, running, crashes>>

-----------------------------------------------------------------------------
(* Request handlers.                                                        *)

\* A plausible bug for Ping: UpdateNodeAlive creates the missing entry.
PingCreatesEntry(e) ==
  /\ e \in running /\ ~needsJoin[e] /\ joinPc[e] = Idle
  /\ alive' = alive \cup {e}
  /\ expired' = expired \ {e}
  /\ UNCHANGED <<topoVars, queue, joinPc, needsJoin, running, crashes, suspicions>>

(***************************************************************************)
(* PING: UpdateNodeAlive (lines 506-516) refreshes a known entry; for an   *)
(* unknown one it returns false and the data server is told to JOIN again. *)
(***************************************************************************)
Ping(e) ==
  /\ e \in running /\ ~needsJoin[e] /\ joinPc[e] = Idle
  /\ expired' = expired \ {e}
  /\ needsJoin' = [needsJoin EXCEPT ![e] = e \notin alive]
  /\ UNCHANGED <<topoVars, alive, queue, joinPc, running, crashes, suspicions>>

\* JOIN, AddNodeAlive lines 263-268: node_alive_[e] = now.
JoinMarkAlive(e) ==
  /\ e \in running /\ needsJoin[e] /\ joinPc[e] = Idle
  /\ alive' = alive \cup {e}
  /\ expired' = expired \ {e}
  /\ joinPc' = [joinPc EXCEPT ![e] = Marked]
  /\ needsJoin' = [needsJoin EXCEPT ![e] = FALSE]
  /\ UNCHANGED <<topoVars, queue, running, crashes, suspicions>>

(***************************************************************************)
(* AddNodeAlive lines 270-279: AddNode; on an error the handler returns    *)
(* it and the data server sends JOIN again.  The handler runs on whether   *)
(* or not the data server is still up.                                     *)
(***************************************************************************)
JoinAddNode(e) ==
  /\ joinPc[e] = Marked
  /\ \E ok \in BOOLEAN :
       /\ AddNode(e, ok)
       /\ joinPc' = [joinPc EXCEPT ![e] = IF ok THEN Added ELSE Idle]
       /\ needsJoin' = [needsJoin EXCEPT ![e] = ~ok]
  /\ UNCHANGED <<alive, expired, queue, running, crashes, suspicions>>

\* AddNodeAlive lines 280-282: ScheduleUpdate(ip_port, kOpAdd).
JoinSchedule(e) ==
  /\ joinPc[e] = Added
  /\ queue' = Append(queue, [ip_port |-> e, op |-> kOpAdd])
  /\ joinPc' = [joinPc EXCEPT ![e] = Idle]
  /\ UNCHANGED <<topoVars, alive, expired, needsJoin, running, crashes,
                 suspicions>>

\* INIT: Distribute(num).
InitCmd(num) ==
  /\ Distribute(num)
  /\ UNCHANGED metaVars

-----------------------------------------------------------------------------
(* Background threads.                                                      *)

\* std::map order of the "ip:port" keys.
KeyLess(a, b) == a[1] < b[1] \/ (a[1] = b[1] /\ a[2] < b[2])

(***************************************************************************)
(* CheckNodeAlive (lines 486-504): erase every timed-out entry and         *)
(* schedule kOpRemove for it, in key order, all under alive_mutex_.        *)
(***************************************************************************)
CheckNodeAlive ==
  /\ expired # {}
  /\ alive' = alive \ expired
  /\ expired' = {}
  /\ queue' = queue \o [k \in 1..Cardinality(expired) |->
                          [ip_port |-> SetToSortSeq(expired, KeyLess)[k],
                           op |-> kOpRemove]]
  /\ UNCHANGED <<topoVars, joinPc, needsJoin, running, crashes, suspicions>>

(***************************************************************************)
(* The update thread: a kOpAdd task runs AddNode, a kOpRemove task runs    *)
(* OffNode (section 4.D of the spec); the returned status is only logged. *)
(***************************************************************************)
UpdateTask ==
  /\ queue # <<>>
  /\ \E ok \in BOOLEAN :
       IF Head(queue).op = kOpAdd THEN AddNode(Head(queue).ip_port, ok)
                                  ELSE OffNode(Head(queue).ip_port, ok)
  /\ queue' = Tail(queue)
  /\ UNCHANGED <<alive, expired, joinPc, needsJoin, running, crashes,
                 suspicions>>

Next ==
  \/ \E e \in DataNodes :
       \/ Crash(e) \/ Restart(e) \/ Expire(e) \/ Ping(e)
       \/ JoinMarkAlive(e) \/ JoinAddNode(e) \/ JoinSchedule(e)
  \/ \E num \in Nums : InitCmd(num)
  \/ CheckNodeAlive
  \/ UpdateTask

Spec == Init /\ [][Next]_vars

(***************************************************************************)
(* Fairness.  The cron runs CheckNodeAlive every tick, the update thread   *)
(* drains its queue, and a dispatcher finishes a handler it has started:   *)
(* each is weakly fair.  Time passes, so a crashed data server's entry     *)
(* does time out.  A running data server keeps sending JOIN until one      *)
(* succeeds and keeps sending PING.  Crashes, restarts, late pings and     *)
(* INIT are the environment's choice and get no fairness.                  *)
(***************************************************************************)
Fairness ==
  /\ \A e \in DataNodes :
       /\ WF_vars(e \notin running /\ Expire(e))
       /\ WF_vars(JoinMarkAlive(e)) /\ WF_vars(Ping(e))
       /\ WF_vars(JoinAddNode(e)) /\ WF_vars(JoinSchedule(e))
  /\ WF_vars(CheckNodeAlive)
  /\ WF_vars(UpdateTask)

FairSpec == Spec /\ Fairness

-----------------------------------------------------------------------------
(* Properties.                                                              *)

\* The endpoints a partition's master and slaves name.
Members(p) == ({p.master} \cup Range(p.slaves)) \ {NoNode}

(***************************************************************************)
(* Every change of the table at MT gives it the epoch one above the one    *)
(* it replaces (P1, I4), also when floyd writes fail: OffNode, OnNode and  *)
(* Distribute write version_ + 1 without reading MT's own version, so this *)
(* holds only while version_ tracks MT through every failed and successful *)
(* write.                                                                  *)
(***************************************************************************)
EpochIncrementsByOne ==
  [][mt' # mt => mt'.version = mt.version + 1]_mt

(***************************************************************************)
(* Refinement: the table at MT, read as the abstract PartitionTable, is   *)
(* created once by Distribute and then changed only by failovers that     *)
(* advance the epoch by exactly one (P1, I4) and keep every partition's   *)
(* replicas.  INIT is refused once PN is set, and OffNode and OnNode     *)
(* each rewrite only the partitions they demote or adopt in.              *)
(***************************************************************************)
Abstract == INSTANCE PartitionTable WITH epoch <- mt.version, table <- mt.info

PartitionTableRefined == Abstract!Spec

(***************************************************************************)
(* Failover moves endpoints between master and slave slots but never in or *)
(* out of a partition: the members of every partition at MT are those of  *)
(* the Replicaset Distribute stored for it.  OffNode's swap and append and *)
(* OnNode's move-last-and-shrink must each preserve this.                  *)
(***************************************************************************)
ReplicasetPreserved ==
  \A k \in DOMAIN mt.info :
    Members(mt.info[k]) = Range(part[mt.info[k].id])

(***************************************************************************)
(* I2 and P4: PN is the number of partitions in the table at MT, whose   *)
(* ids are 0 .. PN-1, and PN is 0 exactly while there is no table.        *)
(* Distribute writes MT and then PN, and goes on to the PN write after a  *)
(* failed MT write; INIT is refused exactly while PN is set.              *)
(***************************************************************************)
TableMatchesPartitionNum ==
  /\ Len(mt.info) = pn
  /\ {mt.info[k].id : k \in DOMAIN mt.info} = 0..pn - 1

(***************************************************************************)
(* P6 and I5: no partition stays without a master while one of its slaves *)
(* is UP.  OffNode orphans a partition only when none of its slaves is in *)
(* the UP list, and OnNode, run by SetNodeStatus on every DOWN to UP      *)
(* change, must adopt every orphan the returning node is a slave of:      *)
(* nothing else ever fills an empty master.                               *)
(***************************************************************************)
NoOrphanWithUpSlave ==
  \A k \in DOMAIN mt.info :
    mt.info[k].master = NoNode =>
      \A j \in DOMAIN mt.info[k].slaves : ~IsUp(mt.info[k].slaves[j])

(***************************************************************************)
(* P2/P5: a partition's master is either ip "" port 0 or a node that is UP *)
(* in the Nodes table.                                                     *)
(***************************************************************************)
MasterIsUp ==
  \A k \in DOMAIN mt.info :
    mt.info[k].master = NoNode \/ IsUp(mt.info[k].master)

(***************************************************************************)
(* A data server that has crashed while UP in the Nodes table is           *)
(* eventually marked DOWN (by the sweep and OffNode) unless it comes back: *)
(* otherwise it stays master of its partitions for good.                   *)
(***************************************************************************)
CrashedNodeEventuallyDown ==
  \A e \in DataNodes :
    (e \notin running /\ IsUp(e)) ~> (~IsUp(e) \/ e \in running)

(***************************************************************************)
(* A data server that stays up is eventually UP in the Nodes table with a  *)
(* node_alive_ entry for good, through late pings, sweeps, OffNode, the    *)
(* REJOIN answer to a PING and the JOIN retried after an error.            *)
(***************************************************************************)
RunningNodeEventuallyServed ==
  \A e \in DataNodes :
    <>[](e \in running) => <>[](IsUp(e) /\ e \in alive)
=============================================================================
