--------------------------- MODULE MCMetaServer ---------------------------
(***************************************************************************)
(* Model-checking instance of MetaServer: three data servers on three     *)
(* hosts, so Reorganize returns for every UP list (its divergence is      *)
(* checked in MCPlacement).                                              *)
(***************************************************************************)
EXTENDS MetaServer

MCDataNodes == {<<1, 1>>, <<2, 1>>, <<3, 1>>}

\* Two data servers, for the liveness runs.
MCDataNodes2 == {<<1, 1>>, <<2, 1>>}

(***************************************************************************)
(* A state the server reaches once every data server's JOIN has completed *)
(* (in ip order) and before INIT: all UP in the Nodes table, all in        *)
(* node_alive_, no MT yet.                                                 *)
(***************************************************************************)
JoinedInit ==
  /\ nodes = [k \in 1..Cardinality(DataNodes) |->
                       [node |-> SetToSortSeq(DataNodes, KeyLess)[k],
                        status |-> kNodeUp]]
  /\ mt = NoMT /\ pn = 0 /\ part = [i \in 0..MaxNum - 1 |-> <<>>]
  /\ version = -1 /\ hung = FALSE /\ failures = 0
  /\ alive = DataNodes /\ expired = {}
  /\ queue = <<>>
  /\ joinPc = [e \in DataNodes |-> Idle]
  /\ needsJoin = [e \in DataNodes |-> FALSE]
  /\ running = DataNodes
  /\ crashes = 0 /\ suspicions = 0

JoinedSpec == JoinedInit /\ [][Next]_vars
=============================================================================
