---------------------------- MODULE MCPlacement ----------------------------
(***************************************************************************)
(* Checks Reorganize over every UP list the Nodes table can hand to        *)
(* Distribute.  The table grows by AddNode (a new endpoint is appended     *)
(* UP) and entries flip between UP and DOWN by SetNodeStatus; Distribute   *)
(* reads it through GetAllAliveNode, which keeps the UP entries in table   *)
(* order.  Every reachable table is one Distribute may see.               *)
(***************************************************************************)
EXTENDS Placement

CONSTANT MaxNodes   \* bound on the length of the Nodes table

kNodeUp == 0
kNodeDown == 1

VARIABLE nodes      \* the Nodes table (key ND): a sequence of [node, status]

vars == <<nodes>>

\* GetAllAliveNode (lines 305-312): the UP entries in table order.
GetAllAliveNode(nds) ==
  LET up == SelectSeq(nds, LAMBDA ns : ns.status = kNodeUp)
  IN  [i \in 1..Len(up) |-> up[i].node]

\* FindNode (lines 314-322).
FindNode(nds, n) == \E i \in 1..Len(nds) : nds[i].node = n

Init == nodes = <<>>

\* The append branch of AddNode (lines 373-377) for an unknown endpoint.
AddNode(n) ==
  /\ Len(nodes) < MaxNodes
  /\ ~FindNode(nodes, n)
  /\ nodes' = Append(nodes, [node |-> n, status |-> kNodeUp])

\* SetNodeStatus (lines 327-333): the entry of a known endpoint changes status.
SetNodeStatus(i, status) ==
  /\ nodes[i].status # status
  /\ nodes' = [nodes EXCEPT ![i].status = status]

Next ==
  \/ \E n \in Node : AddNode(n)
  \/ \E i \in 1..Len(nodes), s \in {kNodeUp, kNodeDown} : SetNodeStatus(i, s)

Spec == Init /\ [][Next]_vars

\* The UP list Distribute would pass to Reorganize in this state.
TAlive == GetAllAliveNode(nodes)

TypeOK ==
  /\ nodes \in Seq([node : Node, status : {kNodeUp, kNodeDown}])
  /\ Len(nodes) <= MaxNodes

(***************************************************************************)
(* P7 of the spec: in the order Reorganize returns, two consecutive nodes  *)
(* are on different hosts whenever the rest of the output still holds two *)
(* hosts.  Distribute relies on this to put a partition's master and its   *)
(* slaves on different machines.                                          *)
(***************************************************************************)
SpreadsHosts ==
  LET out == Reorganize(TAlive)
  IN  out # Diverged =>
        \A k \in 1..Len(out) - 1 :
          Cardinality({Ip(out[j]) : j \in k..Len(out)}) >= 2
            => Ip(out[k]) # Ip(out[k + 1])

(***************************************************************************)
(* Distribute (line 201) calls Reorganize while holding node_mutex_.  For  *)
(* every non-empty UP list it must return, or AddNode, OffNode and every  *)
(* later INIT block forever, and it must return the spec's round robin, a *)
(* permutation of its input, so that no UP node is left out of the       *)
(* placement.                                                            *)
(***************************************************************************)
ReorganizePlacesAllNodes ==
  LET out == Reorganize(TAlive)
  IN  Len(TAlive) > 0 => out # Diverged /\ out = SpecReorganize(TAlive)
=============================================================================
