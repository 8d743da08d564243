--------------------------- MODULE PartitionTable ---------------------------
(***************************************************************************)
(* What the meta server promises of the partition table at key MT (spec   *)
(* sections 3, 4.E and 5), whoever writes it: it is created once, by INIT, *)
(* and every later write is a failover that advances the epoch by exactly  *)
(* one and only reorders the endpoints within each partition.             *)
(*                                                                         *)
(* epoch is PartitionsTable.version (-1 before the first write) and table  *)
(* its info, a sequence of [id, master, slaves].                          *)
(***************************************************************************)
EXTENDS Integers, Sequences, SequencesExt

CONSTANT NoNode     \* the master of a partition with no live master

VARIABLES epoch, table

\* The endpoints a partition names.
Replicas(p) == ({p.master} \cup Range(p.slaves)) \ {NoNode}

Init == epoch = -1 /\ table = <<>>

\* INIT: the first table, partitions 0 .. n-1 in order.
Create ==
  /\ table = <<>>
  /\ table' # <<>>
  /\ \A k \in DOMAIN table' : table'[k].id = k - 1
  /\ epoch' = epoch + 1

\* A failover: same partitions, same replicas in each, next epoch.
Reconfigure ==
  /\ table # <<>>
  /\ Len(table') = Len(table)
  /\ \A k \in DOMAIN table :
       /\ table'[k].id = table[k].id
       /\ Replicas(table'[k]) = Replicas(table[k])
  /\ epoch' = epoch + 1

Spec == Init /\ [][Create \/ Reconfigure]_<<epoch, table>>
=============================================================================
