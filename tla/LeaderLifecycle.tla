--------------------------- MODULE LeaderLifecycle ---------------------------
(***************************************************************************)
(* The meta peers of one floyd group and how each decides whether it is    *)
(* the leader (src/src/meta/zp_meta_server.cc): Start and InitVersion      *)
(* (lines 51-113), IsLeader (614-665) with CleanLeader (720-728) and       *)
(* GetLeader (730-737), BecomeLeader (667-681) and RedirectToLeader        *)
(* (683-705).                                                              *)
(*                                                                         *)
(* The topology operations are abstracted to what the leader logic         *)
(* affects: INIT's Distribute writes MT at version_ + 1 in its handler,    *)
(* and a JOIN or sweep served as leader enqueues a task that the peer's    *)
(* update thread later turns into an MT write at version_ + 1 (OffNode,    *)
(* OnNode, lines 470-481, 566-581).  The update thread does not consult    *)
(* IsLeader, and floyd accepts a write from any peer (spec 4.A).  The      *)
(* table's content is left out; Topology and MetaServer model it.          *)
(* node_alive_, which BecomeLeader restores, is left out here too.         *)
(***************************************************************************)
EXTENDS Integers, FiniteSets

CONSTANTS Peers,               \* the meta servers
          NoPeer,              \* leader_ip_ cleared / no floyd leader known
          MaxLeaderChanges,    \* bound on floyd leadership changes
          MaxConnectFailures,  \* bound on failed connects to a leader
          MaxRedirectFailures, \* bound on failed redirects
          MaxReadFailures,     \* bound on failed reads of ND in BecomeLeader
          MaxWrites,           \* bound on MT writes requested
          ReadMissingNotFound  \* floyd's Read of a missing key is NotFound

ASSUME NoPeer \notin Peers /\ ReadMissingNotFound \in BOOLEAN

VARIABLES
  floydLeader,      \* the leader floyd_->GetLeader reports
  mt,               \* key MT: [found, version, seq]; seq tells tables apart
  started,          \* Start has passed InitVersion
  version,          \* version_ of each peer
  leaderFirstTime,  \* leader_first_time_
  leaderIp,         \* leader_ip_ / leader_cmd_port_: the peer connected to
  leaderCli,        \* leader_cli_ # NULL
  serving,          \* the last IsLeader of the peer returned true
  pending,          \* MT writes queued in the peer's update thread
  changes,          \* leadership changes so far
  faults,           \* failed connects so far
  drops,            \* failed redirects so far
  readFaults,       \* failed reads of ND so far
  requests,         \* MT writes requested so far
  seen              \* per thread: the leader its IsLeader got from GetLeader
                    \* before taking leader_mutex_, NoPeer outside IsLeader

vars == <<floydLeader, mt, started, version, leaderFirstTime, leaderIp,
          leaderCli, serving, pending, changes, faults, drops, readFaults,
          requests, seen>>

\* The threads that call IsLeader: the cron's leader poll and a dispatcher
\* worker checking the leader before it serves a write (spec 4.G, 6).
Threads == {"cron", "worker"}

LeaderTypeOK ==
  /\ floydLeader \in Peers \cup {NoPeer}
  /\ mt \in [found : BOOLEAN, version : Int, seq : Nat]
  /\ started \in [Peers -> BOOLEAN]
  /\ version \in [Peers -> Int]
  /\ leaderFirstTime \in [Peers -> BOOLEAN]
  /\ leaderIp \in [Peers -> Peers \cup {NoPeer}]
  /\ leaderCli \in [Peers -> BOOLEAN] /\ serving \in [Peers -> BOOLEAN]
  /\ pending \in [Peers -> 0..MaxWrites]
  /\ seen \in [Peers -> [Threads -> Peers \cup {NoPeer}]]

\* The constructor (lines 14-15) on a fresh cluster: MT never written.
Init ==
  /\ floydLeader = NoPeer
  /\ mt = [found |-> FALSE, version |-> -1, seq |-> 0]
  /\ started = [p \in Peers |-> FALSE]
  /\ version = [p \in Peers |-> -1]
  /\ leaderFirstTime = [p \in Peers |-> TRUE]
  /\ leaderIp = [p \in Peers |-> NoPeer]
  /\ leaderCli = [p \in Peers |-> FALSE]
  /\ serving = [p \in Peers |-> FALSE]
  /\ pending = [p \in Peers |-> 0]
  /\ changes = 0 /\ faults = 0 /\ drops = 0 /\ readFaults = 0 /\ requests = 0
  /\ seen = [p \in Peers |-> [t \in Threads |-> NoPeer]]

(***************************************************************************)
(* InitVersion (lines 89-113) returns once Read succeeds: with MT's        *)
(* version, or -1 for an empty value.  If floyd reports a missing key as   *)
(* NotFound the loop retries for as long as MT is missing.                 *)
(***************************************************************************)
InitVersionReturns == mt.found \/ ~ReadMissingNotFound

InitVersionValue == IF mt.found THEN mt.version ELSE -1

\* A table written by p at version_ + 1; every write carries new content.
WrittenMT(p) == [found |-> TRUE, version |-> version[p] + 1, seq |-> mt.seq + 1]

\* CleanLeader (lines 720-728) of peer p, as EXCEPT clauses on two functions.
CleanedCli(p) == [leaderCli EXCEPT ![p] = FALSE]
CleanedIp(p) == [leaderIp EXCEPT ![p] = NoPeer]

\* A plausible bug for ConnectedIp: a failed connect keeps leader_ip_.
ConnectedIpKept(p, l, ok) == [leaderIp EXCEPT ![p] = l]

\* leader_ip_ after connecting to l (lines 652-663): CleanLeader on failure.
ConnectedIp(p, l, ok) == [leaderIp EXCEPT ![p] = IF ok THEN l ELSE NoPeer]

-----------------------------------------------------------------------------
(* The floyd group.                                                        *)

\* floyd's election, the environment of the meta server: a leader is
\* elected; every change after the first is counted.
Elect(q) ==
  /\ q # floydLeader
  /\ floydLeader # NoPeer => changes < MaxLeaderChanges
  /\ floydLeader' = q
  /\ changes' = IF floydLeader = NoPeer THEN changes ELSE changes + 1
  /\ UNCHANGED <<seen, readFaults, mt, started, version, leaderFirstTime, leaderIp, leaderCli,
                 serving, pending, faults, drops, requests>>

-----------------------------------------------------------------------------
(* A meta peer.                                                            *)

\* Start (lines 51-72): wait for a leader, then InitVersion, then serve.
Start(p) ==
  /\ ~started[p]
  /\ floydLeader # NoPeer
  /\ InitVersionReturns
  /\ started' = [started EXCEPT ![p] = TRUE]
  /\ version' = [version EXCEPT ![p] = InitVersionValue]
  /\ UNCHANGED <<seen, readFaults, floydLeader, mt, leaderFirstTime, leaderIp, leaderCli,
                 serving, pending, changes, faults, drops, requests>>

\* IsLeader's first part (lines 614-626), before leader_mutex_: thread t of
\* p waits for floyd to name a leader and keeps it.
GetLeaderCall(p, t) ==
  /\ started[p] /\ seen[p][t] = NoPeer /\ floydLeader # NoPeer
  /\ seen' = [seen EXCEPT ![p][t] = floydLeader]
  /\ UNCHANGED <<readFaults, floydLeader, mt, started, version, leaderFirstTime,
                 leaderIp, leaderCli, serving, pending, changes, faults, drops,
                 requests>>

(***************************************************************************)
(* IsLeader under leader_mutex_ (lines 628-681), with the leader thread t  *)
(* read before the lock, which may no longer be floyd's.  Nothing changes  *)
(* while that leader is the one already connected to.  When it names this  *)
(* peer, it becomes leader, running CleanLeader and BecomeLeader (with     *)
(* InitVersion) only if leader_first_time_ is set.  BecomeLeader returns   *)
(* before InitVersion when GetAllNode's read of ND fails (lines 669-673);  *)
(* leader_first_time_ is already cleared.  Otherwise it connects to that   *)
(* leader, and on a failed connect clears the channel again.               *)
(* leader_first_time_ is set whenever another peer is seen as leader.      *)
(* serving is the result of the peer's latest IsLeader: a handler acts on  *)
(* its own call's result, and a later call's result differs only by steps  *)
(* that neither read nor write MT or version_.                             *)
(***************************************************************************)
IsLeader(p, t) ==
  LET l == seen[p][t] IN
  /\ l # NoPeer
  /\ seen' = [seen EXCEPT ![p][t] = NoPeer]
  /\ CASE l = leaderIp[p] ->
            /\ serving' = [serving EXCEPT ![p] = FALSE]
            /\ UNCHANGED <<leaderFirstTime, leaderIp, leaderCli, version, faults,
                           readFaults>>
       [] l = p ->
            /\ serving' = [serving EXCEPT ![p] = TRUE]
            /\ leaderFirstTime' = [leaderFirstTime EXCEPT ![p] = FALSE]
            /\ IF leaderFirstTime[p]
                 THEN /\ leaderCli' = CleanedCli(p) /\ leaderIp' = CleanedIp(p)
                      /\ \E readOk \in IF readFaults < MaxReadFailures
                                          THEN BOOLEAN ELSE {TRUE} :
                           IF readOk
                             THEN /\ InitVersionReturns
                                  /\ version' = [version EXCEPT ![p] = InitVersionValue]
                                  /\ UNCHANGED readFaults
                             ELSE /\ readFaults' = readFaults + 1
                                  /\ UNCHANGED version
                 ELSE UNCHANGED <<leaderCli, leaderIp, version, readFaults>>
            /\ UNCHANGED faults
       [] OTHER ->
            /\ serving' = [serving EXCEPT ![p] = FALSE]
            /\ leaderFirstTime' = [leaderFirstTime EXCEPT ![p] = TRUE]
            /\ \E ok \in IF faults < MaxConnectFailures THEN BOOLEAN ELSE {TRUE} :
                 /\ leaderIp' = ConnectedIp(p, l, ok)
                 /\ leaderCli' = [leaderCli EXCEPT ![p] = ok]
                 /\ faults' = IF ok THEN faults ELSE faults + 1
            /\ UNCHANGED <<version, readFaults>>
  /\ UNCHANGED <<floydLeader, mt, started, pending, changes, drops, requests>>

(***************************************************************************)
(* RedirectToLeader (lines 683-705): a follower forwards a write request;  *)
(* a failed Send or Recv runs CleanLeader.  A successful forward changes   *)
(* nothing on the follower; the leader serves the request itself.          *)
(***************************************************************************)
RedirectFails(p) ==
  /\ started[p] /\ ~serving[p] /\ leaderCli[p]
  /\ drops < MaxRedirectFailures
  /\ leaderCli' = CleanedCli(p) /\ leaderIp' = CleanedIp(p)
  /\ drops' = drops + 1
  /\ UNCHANGED <<seen, readFaults, floydLeader, mt, started, version, leaderFirstTime, serving,
                 pending, changes, faults, requests>>

(***************************************************************************)
(* INIT served as leader: Distribute (line 182) refuses once PN is set,    *)
(* which here, with writes that do not fail, is once MT exists; it then    *)
(* writes MT at version_ + 1 and increments version_ (lines 237-241).      *)
(***************************************************************************)
Distribute(p) ==
  /\ serving[p] /\ ~mt.found /\ requests < MaxWrites
  /\ mt' = WrittenMT(p)
  /\ version' = [version EXCEPT ![p] = @ + 1]
  /\ requests' = requests + 1
  /\ UNCHANGED <<seen, readFaults, floydLeader, started, leaderFirstTime, leaderIp, leaderCli,
                 serving, pending, changes, faults, drops>>

\* A JOIN or sweep served as leader schedules an update (lines 282, 502).
ScheduleUpdate(p) ==
  /\ serving[p] /\ mt.found /\ requests < MaxWrites
  /\ pending' = [pending EXCEPT ![p] = @ + 1]
  /\ requests' = requests + 1
  /\ UNCHANGED <<seen, readFaults, floydLeader, mt, started, version, leaderFirstTime, leaderIp,
                 leaderCli, serving, changes, faults, drops>>

(***************************************************************************)
(* The update thread's OffNode or OnNode rewrite: MT at version_ + 1,      *)
(* then version_++ (lines 470-481), whatever the peer's role is now.       *)
(* Only tasks that find something to rewrite are scheduled.                *)
(***************************************************************************)
UpdateWrite(p) ==
  /\ pending[p] > 0
  /\ mt' = WrittenMT(p)
  /\ version' = [version EXCEPT ![p] = @ + 1]
  /\ pending' = [pending EXCEPT ![p] = @ - 1]
  /\ UNCHANGED <<seen, readFaults, floydLeader, started, leaderFirstTime, leaderIp, leaderCli,
                 serving, changes, faults, drops, requests>>

Next ==
  \/ \E q \in Peers : Elect(q)
  \/ \E p \in Peers :
       \/ Start(p) \/ RedirectFails(p)
       \/ \E t \in Threads : GetLeaderCall(p, t) \/ IsLeader(p, t)
       \/ Distribute(p) \/ ScheduleUpdate(p) \/ UpdateWrite(p)

Spec == Init /\ [][Next]_vars

(***************************************************************************)
(* Fairness: floyd elects a leader; a peer's Start loop and its cron's     *)
(* leader poll keep running, every IsLeader call that has read a leader    *)
(* finishes, and the update thread drains its queue.  A worker calls       *)
(* IsLeader only when a request comes.                                     *)
(* Leadership changes, requests and network failures are the               *)
(* environment's and get none.                                             *)
(***************************************************************************)
Fairness ==
  /\ WF_vars(floydLeader = NoPeer /\ \E q \in Peers : Elect(q))
  /\ \A p \in Peers :
       /\ WF_vars(Start(p)) /\ WF_vars(GetLeaderCall(p, "cron"))
       /\ \A t \in Threads : WF_vars(IsLeader(p, t))
       /\ WF_vars(UpdateWrite(p))

FairSpec == Spec /\ Fairness

-----------------------------------------------------------------------------
(* Properties.                                                             *)

(***************************************************************************)
(* Once floyd's leader stays the same peer q, the peers settle: q serves   *)
(* as leader, and every other started peer follows q with an open channel  *)
(* to it, through failed connects and redirects, each of which must clear  *)
(* the cached leader so that the next poll reconnects.                     *)
(***************************************************************************)
LifecycleSettles ==
  \A q \in Peers :
    <>[](floydLeader = q) =>
      <>[](/\ started[q] /\ serving[q]
           /\ \A p \in Peers \ {q} :
                started[p] /\ ~serving[p] /\ leaderCli[p] /\ leaderIp[p] = q)

(***************************************************************************)
(* Refinement: every peer's writes together make the table at MT the       *)
(* abstract PartitionTable, created once and then advanced one epoch per   *)
(* write (spec 5: "Across leader failovers, the new leader reloads         *)
(* MT.version before issuing any write").  The table's content is one      *)
(* partition that differs from write to write only in seq.                 *)
(***************************************************************************)
Shape == <<[id |-> 0, master |-> NoPeer, slaves |-> <<>>, seq |-> mt.seq]>>

Abstract == INSTANCE PartitionTable
              WITH NoNode <- NoPeer, epoch <- mt.version,
                   table <- IF mt.found THEN Shape ELSE <<>>

EpochAcrossLeaders == Abstract!Spec
=============================================================================
