------------------------------ MODULE Topology ------------------------------
(***************************************************************************)
(* The topology state machine of the meta server                           *)
(* (src/src/meta/zp_meta_server.cc): the records it keeps in the floyd     *)
(* consensus store (Nodes at key ND, the partition table at MT, the        *)
(* partition count at PN, one Replicaset per partition at PART:<id>), the  *)
(* cached epoch version_, and the operations that run under node_mutex_:   *)
(* AddNode (with SetNodeStatus and OnNode), OffNode and Distribute.        *)
(*                                                                         *)
(* Each operation holds node_mutex_ from its first read to its last write, *)
(* so it is one atomic action here.  A floyd Write or DirtyRead may fail;  *)
(* an operation is given the ordinal f of the floyd call that fails (0:    *)
(* none), and follows the code's error path from that call on.  At most    *)
(* MaxWriteFailures calls fail in a behaviour.  The status an operation    *)
(* returns is the argument ok, which the caller constrains or ignores.     *)
(***************************************************************************)
EXTENDS Placement

CONSTANTS DataNodes,          \* endpoints <<ip, port>> of data servers
          MaxNum,             \* largest partition count an INIT asks for
          MaxWriteFailures    \* bound on failed floyd calls

ASSUME DataNodes \subseteq Node /\ MaxNum \in Nat /\ MaxWriteFailures \in Nat

kNodeUp == 0
kNodeDown == 1

\* The master of a partition with no live master: ip "" and port 0.
NoNode == <<0, 0>>

(***************************************************************************)
(* The value GetMSInfo reads when key MT was never written.  Whether       *)
(* floyd's DirtyRead of a missing key fails (GetMSInfo returns an error)   *)
(* or yields "" (which parses as an empty table, and the caller returns    *)
(* OK) depends on the floyd build, so a caller's status is left free then. *)
(***************************************************************************)
NoMT == [found |-> FALSE, version |-> -1, info |-> <<>>]

VARIABLES
  nodes,           \* key ND: sequence of [node, status]
  mt,              \* key MT: [found, version, info], info a sequence of partitions
  pn,              \* key PN: the partition count, 0 when unset
  part,            \* keys PART:<id>: the Replicaset of each partition
  version,         \* version_, the epoch cached in memory
  hung,            \* a Distribute stuck in Reorganize, holding node_mutex_
  failures         \* floyd calls that have failed so far

topoVars == <<nodes, mt, pn, part, version, hung, failures>>

Partition == [id : 0..MaxNum - 1, master : DataNodes \cup {NoNode},
              slaves : Seq(DataNodes)]

TopoTypeOK ==
  /\ nodes \in Seq([node : DataNodes, status : {kNodeUp, kNodeDown}])
  /\ mt.found \in BOOLEAN /\ mt.version \in Int /\ mt.info \in Seq(Partition)
  /\ pn \in 0..MaxNum
  /\ part \in [0..MaxNum - 1 -> Seq(DataNodes)]
  /\ version \in Int
  /\ hung \in BOOLEAN
  /\ failures \in 0..MaxWriteFailures

TopoInit ==
  /\ nodes = <<>>
  /\ mt = NoMT
  /\ pn = 0
  /\ part = [i \in 0..MaxNum - 1 |-> <<>>]
  /\ version = -1           \* InitVersion reads an empty MT
  /\ hung = FALSE
  /\ failures = 0

(***************************************************************************)
(* GetAllNode (lines 285-303): the DirtyRead of ND, failing (Corruption)   *)
(* when readOk is FALSE.  ND is only ever appended to, so an empty list is *)
(* a key never written: NotFound.                                         *)
(***************************************************************************)
GetAllNode(readOk) ==
  CASE ~readOk      -> "Corruption"
    [] nodes = <<>> -> "NotFound"
    [] OTHER        -> "OK"

(***************************************************************************)
(* GetMSInfo (lines 587-601): the DirtyRead of MT, failing (Corruption)    *)
(* when readOk is FALSE; "Missing" is a key never written (see NoMT).      *)
(***************************************************************************)
GetMSInfo(readOk) ==
  CASE ~readOk   -> "Corruption"
    [] ~mt.found -> "Missing"
    [] OTHER     -> "OK"

\* The choices of the failing call for an operation making k floyd calls.
FailChoice(k) == IF failures < MaxWriteFailures THEN 0..k ELSE {0}

\* failures after an operation in which call f failed iff it was reached.
Spend(f, reached) == failures' = failures + (IF f # 0 /\ reached THEN 1 ELSE 0)

\* FindNode (lines 314-322) and the index SetNodeStatus updates (327-329).
FindNode(e) == \E i \in 1..Len(nodes) : nodes[i].node = e
IndexOf(e) == SelectInSeq(nodes, LAMBDA ns : ns.node = e)
IsUp(e) == FindNode(e) /\ nodes[IndexOf(e)].status = kNodeUp

\* GetAllAliveNode (lines 305-312): the UP entries in table order.
GetAllAliveNode ==
  LET up == SelectSeq(nodes, LAMBDA ns : ns.status = kNodeUp)
  IN  [i \in 1..Len(up) |-> up[i].node]

\* The same list as the set IsAlive (lines 393-400) searches.
AliveNodes == Range(GetAllAliveNode)

(***************************************************************************)
(* OnNode (lines 546-562): every orphaned partition that has e among its   *)
(* slaves takes e as master; the last slave moves into e's slot and the    *)
(* list shrinks by one.                                                    *)
(***************************************************************************)
Adopt(p, e) ==
  LET j == SelectInSeq(p.slaves, LAMBDA s : s = e)
  IN  [p EXCEPT !.master = e,
                !.slaves = Front([p.slaves EXCEPT ![j] = Last(p.slaves)])]

\* A plausible bug for Adopts: a partition with a live master is adopted too.
AdoptsAnyMaster(p, e) == Contains(p.slaves, e)

Adopts(p, e) == p.master = NoNode /\ Contains(p.slaves, e)

\* A plausible bug for OnNodeInfo: only the first orphan is adopted.
OnNodeInfoFirstOnly(info, e) ==
  LET first == SelectInSeq(info, LAMBDA p : Adopts(p, e))
  IN  [i \in DOMAIN info |-> IF i = first THEN Adopt(info[i], e) ELSE info[i]]

OnNodeInfo(info, e) ==
  [i \in DOMAIN info |-> IF Adopts(info[i], e) THEN Adopt(info[i], e)
                                                ELSE info[i]]

(***************************************************************************)
(* OffNode (lines 431-461) for a partition whose master is e: the first    *)
(* slave in the UP list alive_nodes swaps places with e; with none, e is   *)
(* appended to the slaves and the master becomes ip "" port 0.             *)
(***************************************************************************)
\* A plausible bug for Demote: the former master is not kept as a slave.
DemoteDropsMaster(p, alive_nodes) ==
  LET j == SelectInSeq(p.slaves, LAMBDA s : s \in alive_nodes)
  IN  IF j # 0
        THEN [p EXCEPT !.master = p.slaves[j], !.slaves[j] = p.master]
        ELSE [p EXCEPT !.master = NoNode]

Demote(p, alive_nodes) ==
  LET j == SelectInSeq(p.slaves, LAMBDA s : s \in alive_nodes)
  IN  IF j # 0
        THEN [p EXCEPT !.master = p.slaves[j], !.slaves[j] = p.master]
        ELSE [p EXCEPT !.master = NoNode, !.slaves = Append(@, p.master)]

OffNodeInfo(info, e, alive_nodes) ==
  [i \in DOMAIN info |-> IF info[i].master = e THEN Demote(info[i], alive_nodes)
                                               ELSE info[i]]

\* The table a successful SetMSInfo of info leaves at MT: version_ + 1.
NewMT(info) == [found |-> TRUE, version |-> version + 1, info |-> info]

\* A plausible bug for WriteMSInfo: version_++ whether or not the write
\* succeeded.
WriteMSInfoBumpAlways(info, write, ok) ==
  /\ mt' = IF write /\ ok THEN NewMT(info) ELSE mt
  /\ version' = IF write THEN version + 1 ELSE version

(***************************************************************************)
(* SetMSInfo (lines 527-534) of info at version_ + 1, made when write      *)
(* holds and succeeding when ok holds, and the caller's                    *)
(* if (s.ok()) version_++ (lines 240-241, 478-479, 579-580).               *)
(***************************************************************************)
WriteMSInfo(info, write, ok) ==
  /\ mt' = IF write /\ ok THEN NewMT(info) ELSE mt
  /\ version' = IF write /\ ok THEN version + 1 ELSE version

(***************************************************************************)
(* OnNode (lines 536-585), after a successful ND write: read MT (call 3;  *)
(* a failure is returned), let e adopt every partition with no master of  *)
(* which it is a slave, and if one changed write MT at version_ + 1 (call  *)
(* 4), advancing version_ on success.  Its status is the one SetNodeStatus *)
(* returns.                                                                *)
(***************************************************************************)
OnNode(e, f, ok) ==
  LET info == OnNodeInfo(mt.info, e)
      should_rewrite == info # mt.info
  IN  CASE GetMSInfo(f # 3) = "Corruption" ->
             ~ok /\ Spend(f, TRUE) /\ UNCHANGED <<mt, version>>
        [] GetMSInfo(f # 3) = "Missing" ->
             Spend(f, FALSE) /\ UNCHANGED <<mt, version>>
        [] OTHER ->
             /\ ok = (~should_rewrite \/ f # 4)
             /\ Spend(f, should_rewrite)
             /\ WriteMSInfo(info, should_rewrite, f # 4)

(***************************************************************************)
(* SetNodeStatus(e, kNodeUp) from AddNode (lines 324-356): write ND (call  *)
(* 2) and, when it succeeds, OnNode.                                       *)
(***************************************************************************)
SetNodeUp(e, f, ok) ==
  IF f = 2
    THEN /\ ok = FALSE /\ Spend(f, TRUE)
         /\ UNCHANGED <<nodes, mt, version>>
    ELSE /\ nodes' = [nodes EXCEPT ![IndexOf(e)].status = kNodeUp]
         /\ OnNode(e, f, ok)

(***************************************************************************)
(* AddNode (lines 358-391): read ND (call 1; a failure is returned); a     *)
(* known endpoint goes through SetNodeStatus (a no-op when it is already   *)
(* UP); an unknown one, or any when ND is NotFound, is appended UP and ND  *)
(* is written (call 2).  The partition table is not touched then.          *)
(***************************************************************************)
AddNode(e, ok) ==
  /\ ~hung
  /\ \E f \in FailChoice(4) :
       CASE GetAllNode(f # 1) = "Corruption" ->
              ~ok /\ Spend(f, TRUE) /\ UNCHANGED <<nodes, mt, version>>
         [] IsUp(e) ->
              ok /\ UNCHANGED <<nodes, mt, version, failures>>
         [] FindNode(e) ->
              SetNodeUp(e, f, ok)
         [] OTHER ->
              /\ ok = (f # 2) /\ Spend(f, f = 2)
              /\ nodes' = IF f # 2
                            THEN Append(nodes, [node |-> e, status |-> kNodeUp])
                            ELSE nodes
              /\ UNCHANGED <<mt, version>>
  /\ UNCHANGED <<pn, part, hung>>

(***************************************************************************)
(* OffNode (lines 402-484): read ND (call 1; a failure or NotFound is      *)
(* returned), take the UP list, then SetNodeStatus(e, DOWN) (NotFound for  *)
(* an unknown e; no write when e is DOWN already; else call 2, the ND      *)
(* write), read MT (call 3; a failure is returned with e left DOWN),       *)
(* demote e in every partition it masters and, if one changed, write MT   *)
(* at version_ + 1 (call 4).                                              *)
(***************************************************************************)
OffNode(e, ok) ==
  LET alive_nodes == AliveNodes
      down == [nodes EXCEPT ![IndexOf(e)].status = kNodeDown]
      info == OffNodeInfo(mt.info, e, alive_nodes)
      should_rewrite == \E i \in DOMAIN mt.info : mt.info[i].master = e
      nd_write == IsUp(e)
  IN
  /\ ~hung
  /\ \E f \in FailChoice(4) :
       CASE GetAllNode(f # 1) = "Corruption" ->
              ~ok /\ Spend(f, TRUE) /\ UNCHANGED <<nodes, mt, version>>
         [] ~FindNode(e) ->
              ~ok /\ UNCHANGED <<nodes, mt, version, failures>>
         [] nd_write /\ f = 2 ->
              ~ok /\ Spend(f, TRUE) /\ UNCHANGED <<nodes, mt, version>>
         [] GetMSInfo(f # 3) = "Corruption" ->
              /\ nodes' = down /\ ~ok /\ Spend(f, TRUE)
              /\ UNCHANGED <<mt, version>>
         [] GetMSInfo(f # 3) = "Missing" ->
              nodes' = down /\ Spend(f, FALSE) /\ UNCHANGED <<mt, version>>
         [] OTHER ->
              /\ nodes' = down
              /\ ok = (~should_rewrite \/ f # 4)
              /\ Spend(f, should_rewrite /\ f = 4)
              /\ WriteMSInfo(info, should_rewrite, f # 4)
  /\ UNCHANGED <<pn, part, hung>>

\* A plausible bug for MSInfo: partition ids counted from 1.
MSInfoIdFromOne(layout, num) ==
  [k \in 1..num |-> [id |-> k, master |-> layout[k - 1].master,
                     slaves |-> layout[k - 1].slaves]]

\* The partitions Distribute adds to ms_info (lines 223-231).
MSInfo(layout, num) ==
  [k \in 1..num |-> [id |-> k - 1, master |-> layout[k - 1].master,
                     slaves |-> layout[k - 1].slaves]]

(***************************************************************************)
(* PartitionNums (lines 603-612): PN, or 0 when floyd's DirtyRead of it    *)
(* fails, so that a failed read lets Distribute past its "Already          *)
(* Distribute" check.  readOk is whether the read succeeded.              *)
(***************************************************************************)
PartitionNums(readOk) == IF readOk THEN pn ELSE 0

(***************************************************************************)
(* Distribute (lines 180-260), the INIT handler.  Refused when             *)
(* PartitionNums is not 0; a failed read of PN (failure num+3) counts as  *)
(* 0; a failed read of ND (failure num+4) is returned.  Writes PART:0 ..  *)
(* PART:num-1 (writes 1..num; a failure returns with                     *)
(* the earlier ones written), then MT at version_ + 1 (write num+1; a      *)
(* failure is only logged), then PN (write num+2).  A Reorganize that     *)
(* never returns leaves node_mutex_ held for good.                         *)
(***************************************************************************)
Distribute(num) ==
  LET alive_nodes == Reorganize(GetAllAliveNode)
      layout == Layout(alive_nodes, num)
      Replicas(i) == <<layout[i].master>> \o layout[i].slaves
      info == MSInfo(layout, num)
      PartsUpTo(n) == [i \in 0..MaxNum - 1 |-> IF i < n THEN Replicas(i)
                                                       ELSE part[i]]
  IN
  /\ ~hung
  /\ AliveNodes # {}
  /\ \E f \in FailChoice(num + 4) :
       /\ PartitionNums(f # num + 3) = 0
       /\ CASE GetAllNode(f # num + 4) = "Corruption" ->
              /\ Spend(f, TRUE)
              /\ UNCHANGED <<nodes, mt, pn, part, version, hung>>
         [] alive_nodes = Diverged ->
              /\ hung' = TRUE /\ Spend(f, f = num + 3)
              /\ UNCHANGED <<nodes, mt, pn, part, version>>
         [] OTHER ->
              /\ part' = PartsUpTo(IF f \in 1..num THEN f - 1 ELSE num)
              /\ WriteMSInfo(info, f \notin 1..num, f # num + 1)
              /\ pn' = IF f \in {0, num + 1, num + 3} THEN num ELSE pn
              /\ Spend(f, TRUE)
              /\ UNCHANGED <<nodes, hung>>
=============================================================================
