----------------------------- MODULE Placement -----------------------------
(***************************************************************************)
(* The initial placement algorithm of the meta server                      *)
(* (src/src/meta/zp_meta_server.cc): ZPMetaServer::Reorganize, which       *)
(* permutes the UP nodes so that consecutive entries come from different   *)
(* hosts, and the layout loop of ZPMetaServer::Distribute, which gives     *)
(* partition i the master alive_nodes[i mod n] and the slaves              *)
(* alive_nodes[(i+1) mod n], alive_nodes[(i+2) mod n].                     *)
(*                                                                         *)
(* A node is the pair <<ip, port>>.  Hosts are numbers so that the order   *)
(* of the std::map<std::string, ...> keys in Reorganize is the order <.    *)
(***************************************************************************)
EXTENDS Integers, Sequences, SequencesExt, FiniteSets

CONSTANTS Hosts,   \* the ip strings, as an ordered set of numbers
          Ports    \* the ports a data server may listen on

ASSUME Hosts \subseteq Nat /\ Ports \subseteq Nat

Node == Hosts \X Ports
Ip(n) == n[1]

\* Result of a Reorganize call that never leaves its while (true) loop.
Diverged == "Diverged"

(***************************************************************************)
(* Lines 148-159: bucket the input by ip, each bucket in input order.       *)
(***************************************************************************)
Buckets(t_alive_nodes) ==
  [h \in {Ip(t_alive_nodes[i]) : i \in DOMAIN t_alive_nodes} |->
     SelectSeq(t_alive_nodes, LAMBDA n : Ip(n) = h)]

(***************************************************************************)
(* The body of the inner for loop (lines 168-175) for the bucket of host   *)
(* h: an empty bucket bumps empty_count, a non-empty one moves its back    *)
(* element to alive_nodes.  st is [m, empty_count, alive_nodes].           *)
(***************************************************************************)
\* A plausible bug for VisitBucket: the whole bucket is moved at once.
VisitBucketDrains(st, h) ==
  IF st.m[h] = <<>>
    THEN [st EXCEPT !.empty_count = @ + 1]
    ELSE [st EXCEPT !.m[h] = <<>>,
                    !.alive_nodes = @ \o Reverse(st.m[h])]

VisitBucket(st, h) ==
  IF st.m[h] = <<>>
    THEN [st EXCEPT !.empty_count = @ + 1]
    ELSE [st EXCEPT !.m[h] = Front(@),
                    !.alive_nodes = Append(@, Last(st.m[h]))]

\* One pass of the for loop over the map, in ascending key order.
Pass(st) == FoldLeft(VisitBucket, st, SetToSortSeq(DOMAIN st.m, <))

(***************************************************************************)
(* Lines 161-177: the while (true) loop.  empty_count is set to 0 once,    *)
(* before the loop, and the exit test empty_count == msize is made only   *)
(* at the top of each iteration.  empty_count never decreases and grows   *)
(* by msize in every pass once all buckets are empty, so once it exceeds  *)
(* msize the loop can never exit: that outcome is Diverged.               *)
(***************************************************************************)
RECURSIVE Loop(_, _)
Loop(st, msize) ==
  CASE st.empty_count = msize -> st.alive_nodes
    [] st.empty_count > msize -> Diverged
    [] OTHER                  -> Loop(Pass(st), msize)

Reorganize(t_alive_nodes) ==
  LET m == Buckets(t_alive_nodes)
  IN  Loop([m |-> m, empty_count |-> 0, alive_nodes |-> <<>>],
           Cardinality(DOMAIN m))

(***************************************************************************)
(* Reference: the round robin the spec (section 4.E, Distribute step 3)    *)
(* describes, which stops when every bucket is empty.                      *)
(***************************************************************************)
RECURSIVE RoundRobin(_)
RoundRobin(st) ==
  IF \A h \in DOMAIN st.m : st.m[h] = <<>>
    THEN st.alive_nodes
    ELSE RoundRobin(Pass(st))

SpecReorganize(t_alive_nodes) ==
  RoundRobin([m |-> Buckets(t_alive_nodes), empty_count |-> 0,
              alive_nodes |-> <<>>])

(***************************************************************************)
(* Lines 203-232: the layout Distribute builds from Reorganize's output.   *)
(* Partition i is [master, slaves]; the Replicaset is <<master>> \o slaves. *)
(***************************************************************************)
Layout(alive_nodes, num) ==
  LET an_num == Len(alive_nodes)
      At(k) == alive_nodes[(k % an_num) + 1]
  IN  [i \in 0..num-1 |-> [master |-> At(i),
                           slaves |-> <<At(i + 1), At(i + 2)>>]]
=============================================================================
