-------------------------- MODULE PartitionedCluster --------------------------
(***************************************************************************)
(* cluster/partitioned.go: gossip membership events drive the Raft         *)
(* membership, every membership change proposes a new shard assignment to  *)
(* the Raft log, and every node applies the committed log to its shard     *)
(* map.  The handlers run on memberlist's event goroutine ("events"); the  *)
(* bootstrap node also runs waitForLeadershipAndInit ("init").             *)
(***************************************************************************)
EXTENDS RaftLog, ShardAssignment

CONSTANTS
    Bootstrap,     \* the node started with Bootstrap set
    ConfigShards,  \* TotalShards in each node's configuration (0: not set)
    Command,       \* the commands Replicate is called with, once each
    MaxStops,      \* bound: Stop calls, crashes and failed starts together
    MaxFlaps,      \* bound: leave events for peers that are alive
    MaxLosses,     \* bound: leaderships lost although node and quorum are up
    MaxSnapshots,  \* bound: snapshots taken
    MaxTimeouts    \* bound: proposals Raft does not take in time

ASSUME ClusterAssumption ==
    /\ Bootstrap \in Node
    /\ ConfigShards \in [Node -> Nat]
    /\ {MaxStops, MaxFlaps, MaxLosses, MaxSnapshots, MaxTimeouts} \subseteq Nat

VARIABLES
    phase,      \* how far each node is through Start and Stop
    view,       \* the peers each node's memberlist reports as members
    job,        \* what each node's two goroutines are doing
    fsm,        \* memberMap, shardMap and totalShards of each node
    applied,    \* index of the last log entry each node's FSM is past
    snap,       \* the last snapshot on each node's disk
    registered, \* nodes whose ApplyHandler is registered (OnApply)
    delivered,  \* log indices of the commands each node's handler was given
    call,       \* the state of each Replicate call
    budget      \* what is left of the bounds on the environment

nodeVars == <<phase, view, job>>
fsmVars == <<fsm, applied, snap, registered, delivered>>
vars == <<raftVars, nodeVars, fsmVars, call, budget>>

Thread == {"events", "init"}

Idle == [at |-> "idle"]
NoCall == [at |-> "new"]

\* The FSM of a process that has applied nothing: empty maps, configured total.
InitialFsm(n) == NoAssignment(EffectiveShards(ConfigShards[n]))

TotalMembers(n) == Cardinality(DOMAIN fsm[n].members)

IsLeader(n) == leader = n
GossipUp(n) == phase[n] # "down"
RaftUp == {n \in Node : phase[n] \in {"raft", "running"}}

Init ==
    /\ RaftInit
    /\ phase = [n \in Node |-> "down"]
    /\ view = [n \in Node |-> {}]
    /\ job = [n \in Node |-> [t \in Thread |-> Idle]]
    /\ fsm = [n \in Node |-> InitialFsm(n)]
    /\ applied = [n \in Node |-> 0]
    /\ snap = [n \in Node |-> [index |-> 0, fsm |-> InitialFsm(n)]]
    /\ registered = {}
    /\ delivered = [n \in Node |-> <<>>]
    /\ call = [c \in Command |-> NoCall]
    /\ budget = [stops |-> MaxStops, flaps |-> MaxFlaps, losses |-> MaxLosses,
                 snapshots |-> MaxSnapshots, timeouts |-> MaxTimeouts]

Spend(b) == budget[b] > 0 /\ budget' = [budget EXCEPT ![b] = @ - 1]

SetJob(n, t, j) == job' = [job EXCEPT ![n][t] = j]

-----------------------------------------------------------------------------
\* Start and Stop.

\* Start: memberlist is created and looks for peers; no handler is wired yet.
StartGossip(n) ==
    /\ phase[n] = "down"
    /\ phase' = [phase EXCEPT ![n] = "gossip"]
    /\ UNCHANGED <<raftVars, view, job, fsmVars, call, budget>>

\* Mutant of Restore: the shard map in memory is left as it was.
RestoreKeepsShards(n, s) ==
    /\ fsm' = [fsm EXCEPT ![n].members = s.fsm.members, ![n].total = s.fsm.total]
    /\ applied' = [applied EXCEPT ![n] = s.index]

\* Restore of a snapshot: all three fields under the lock.
Restore(n, s) ==
    /\ fsm' = [fsm EXCEPT ![n] = s.fsm]
    /\ applied' = [applied EXCEPT ![n] = s.index]

\* startRaft: NewRaft restores the last snapshot; the bootstrap node writes the
\* first configuration unless it has one, and starts the init goroutine.
StartRaft(n) ==
    /\ phase[n] = "gossip"
    /\ phase' = [phase EXCEPT ![n] = "raft"]
    /\ Restore(n, snap[n])
    /\ IF n = Bootstrap
       THEN BootstrapLog(n) /\ SetJob(n, "init", [at |-> "await"])
       ELSE UNCHANGED <<raftVars, job>>
    /\ UNCHANGED <<view, snap, registered, delivered, call, budget>>

\* A start error stops the gossip layer again.
StartRaftFails(n) ==
    /\ phase[n] = "gossip"
    /\ Spend("stops")
    /\ phase' = [phase EXCEPT ![n] = "down"]
    /\ view' = [view EXCEPT ![n] = {}]
    /\ UNCHANGED <<raftVars, job, fsmVars, call>>

\* Only now does Start register OnJoin and OnLeave, and return.
WireHandlers(n) ==
    /\ phase[n] = "raft"
    /\ phase' = [phase EXCEPT ![n] = "running"]
    /\ UNCHANGED <<raftVars, view, job, fsmVars, call, budget>>

\* The Raft instance of n is gone: it leads no more, its Replicate calls fail.
RaftGone(n) ==
    /\ leader' = IF leader = n THEN None ELSE leader
    /\ UNCHANGED <<term, log, pending>>
    /\ call' = [c \in Command |->
                  IF call[c].at = "waiting" /\ call[c].node = n
                  THEN [at |-> "failed"] ELSE call[c]]

\* What the memory of the process held is gone; its disk is not.
ProcessGone(n) ==
    /\ phase' = [phase EXCEPT ![n] = "down"]
    /\ view' = [view EXCEPT ![n] = {}]
    /\ job' = [job EXCEPT ![n] = [t \in Thread |-> Idle]]
    /\ fsm' = [fsm EXCEPT ![n] = InitialFsm(n)]
    /\ applied' = [applied EXCEPT ![n] = 0]
    /\ registered' = registered \ {n}
    /\ delivered' = [delivered EXCEPT ![n] = <<>>]
    /\ UNCHANGED snap

\* Stop shuts Raft down first; the gossip layer still delivers events.
StopRaft(n) ==
    /\ phase[n] = "running"
    /\ Spend("stops")
    /\ phase' = [phase EXCEPT ![n] = "stopping"]
    /\ RaftGone(n)
    /\ UNCHANGED <<view, job, fsmVars>>

\* Then it leaves the gossip cluster (memberlist's lock: no handler is running).
StopGossip(n) ==
    /\ phase[n] = "stopping"
    /\ job[n]["events"] = Idle
    /\ ProcessGone(n)
    /\ UNCHANGED <<raftVars, call, budget>>

Crash(n) ==
    /\ phase[n] # "down"
    /\ Spend("stops")
    /\ RaftGone(n)
    /\ ProcessGone(n)

-----------------------------------------------------------------------------
\* Gossip events.  memberlist serialises them: none while a handler runs.

\* handleMemberJoin and handleMemberLeave start only on the leader; on any other
\* node, or before the handlers are wired, the event is used up.
Handle(n, j) ==
    IF phase[n] = "running" /\ IsLeader(n) THEN SetJob(n, "events", j) ELSE UNCHANGED job

NotifyJoin(n, m) ==
    /\ n # m
    /\ GossipUp(n) /\ GossipUp(m)
    /\ m \notin view[n]
    /\ job[n]["events"] = Idle
    /\ view' = [view EXCEPT ![n] = @ \cup {m}]
    /\ Handle(n, [at |-> "join", who |-> m])
    /\ UNCHANGED <<raftVars, phase, fsmVars, call, budget>>

\* m left or crashed, or is suspected although it is alive.
NotifyLeave(n, m) ==
    /\ GossipUp(n)
    /\ m \in view[n]
    /\ job[n]["events"] = Idle
    /\ IF GossipUp(m) THEN Spend("flaps") ELSE UNCHANGED budget
    /\ view' = [view EXCEPT ![n] = @ \ {m}]
    /\ Handle(n, [at |-> "leave", who |-> m])
    /\ UNCHANGED <<raftVars, phase, fsmVars, call>>

-----------------------------------------------------------------------------
\* The membership handlers and rebalance, on the goroutine t of node n.

\* AddVoter or RemoveServer: refused if n no longer leads, appended otherwise.
ChangeServers(n, S) ==
    IF IsLeader(n)
    THEN /\ ConfigIsStable
         /\ AppendEntry(ConfigEntry(S))
         /\ SetJob(n, "events", [at |-> "changing", index |-> NextIndex, term |-> term])
    ELSE SetJob(n, "events", Idle) /\ UNCHANGED raftVars

JoinServer(n) ==
    /\ job[n]["events"].at = "join"
    /\ IF job[n]["events"].who \in LatestServers
       THEN SetJob(n, "events", Idle) /\ UNCHANGED raftVars
       ELSE ChangeServers(n, LatestServers \cup {job[n]["events"].who})
    /\ UNCHANGED <<phase, view, fsmVars, call, budget>>

\* Mutant of RemoveServer: the configuration becomes the gossip view, which
\* leaves the node itself out.
RemoveByView(n) ==
    /\ job[n]["events"].at = "leave"
    /\ ChangeServers(n, view[n])
    /\ UNCHANGED <<phase, view, fsmVars, call, budget>>

RemoveServer(n) ==
    /\ job[n]["events"].at = "leave"
    /\ ChangeServers(n, LatestServers \ {job[n]["events"].who})
    /\ UNCHANGED <<phase, view, fsmVars, call, budget>>

\* rebalance, first half: IsLeader, GetConfiguration and the shard loop.
Rebalance(n, t) ==
    SetJob(n, t, IF IsLeader(n) /\ LatestServers # {}
                 THEN [at |-> "propose", servers |-> LatestServers, size |-> fsm[n].total]
                 ELSE Idle)

\* Mutant of ChangeDone: the handler forgets to rebalance.
ChangeDoneNoRebalance(n) ==
    /\ job[n]["events"].at = "changing"
    /\ job[n]["events"].term = term
    /\ job[n]["events"].index <= Len(log)
    /\ SetJob(n, "events", Idle)
    /\ UNCHANGED <<raftVars, phase, view, fsmVars, call, budget>>

\* The future of AddVoter or RemoveServer: committed under the same leader ...
ChangeDone(n) ==
    /\ job[n]["events"].at = "changing"
    /\ job[n]["events"].term = term
    /\ job[n]["events"].index <= Len(log)
    /\ Rebalance(n, "events")
    /\ UNCHANGED <<raftVars, phase, view, fsmVars, call, budget>>

\* ... or leadership lost: the handler returns without a rebalance, although a
\* later leader may still commit the change.
ChangeFails(n) ==
    /\ job[n]["events"].at = "changing"
    /\ ~IsLeader(n) \/ job[n]["events"].term # term
    /\ SetJob(n, "events", Idle)
    /\ UNCHANGED <<raftVars, phase, view, fsmVars, call, budget>>

\* waitForLeadershipAndInit is told of the first leadership of the bootstrap node,
\* which may be over again when its rebalance looks.
InitLeader(n) ==
    /\ job[n]["init"].at = "await"
    /\ IsLeader(n)
    /\ SetJob(n, "init", [at |-> "told"])
    /\ UNCHANGED <<raftVars, phase, view, fsmVars, call, budget>>

InitRebalance(n) ==
    /\ job[n]["init"].at = "told"
    /\ Rebalance(n, "init")
    /\ UNCHANGED <<raftVars, phase, view, fsmVars, call, budget>>

\* An apply may write pc.totalShards while the shard loop reads it unlocked: the
\* loop ends at the old bound or at any bound it reaches under the new one.
LoopBounds(old, new) == IF new < old THEN new..old ELSE {old, new}

\* rebalance, second half: pc.raft.Apply.  The future is thrown away, so an
\* assignment proposed after leadership was lost is silently gone.
Propose(n, t) ==
    /\ job[n][t].at = "propose"
    /\ IF IsLeader(n)
       THEN \E size \in LoopBounds(job[n][t].size, fsm[n].total) :
               AppendEntry(AssignEntry(Assignment(job[n][t].servers, size, fsm[n].total)))
       ELSE UNCHANGED raftVars
    /\ SetJob(n, t, Idle)
    /\ UNCHANGED <<phase, view, fsmVars, call, budget>>

\* AddVoter, RemoveServer (10 s) and raft.Apply (5 s) give up on a leader that is
\* too busy to take their entry: the handler returns, and a rebalance that is
\* lost in this way leaves the new configuration without an assignment.
EnqueueTimesOut(n, t) ==
    /\ job[n][t].at \in {"join", "leave", "propose"}
    /\ IsLeader(n)
    /\ Spend("timeouts")
    /\ SetJob(n, t, Idle)
    /\ UNCHANGED <<raftVars, phase, view, fsmVars, call>>

-----------------------------------------------------------------------------
\* Replicate, OnApply and the FSM.

Replicate(n, c) ==
    /\ phase[n] = "running"
    /\ IsLeader(n)
    /\ call[c] = NoCall
    /\ AppendEntry(CommandEntry(c))
    /\ call' = [call EXCEPT ![c] =
                  [at |-> "waiting", node |-> n, index |-> NextIndex, term |-> term]]
    /\ UNCHANGED <<nodeVars, fsmVars, budget>>

\* Mutant of ReplicateOk: the future is thrown away, as rebalance does.
ReplicateNoWait(c) ==
    /\ call[c].at = "waiting"
    /\ call' = [call EXCEPT ![c] = [at |-> "ok"]]
    /\ UNCHANGED <<raftVars, nodeVars, fsmVars, budget>>

\* future.Error() is nil: committed under this leader and applied here.
ReplicateOk(c) ==
    /\ call[c].at = "waiting"
    /\ call[c].term = term
    /\ applied[call[c].node] >= call[c].index
    /\ call' = [call EXCEPT ![c] = [at |-> "ok"]]
    /\ UNCHANGED <<raftVars, nodeVars, fsmVars, budget>>

\* Leadership was lost first.  The command may still be committed.
ReplicateFails(c) ==
    /\ call[c].at = "waiting"
    /\ ~IsLeader(call[c].node) \/ call[c].term # term
    /\ call' = [call EXCEPT ![c] = [at |-> "failed"]]
    /\ UNCHANGED <<raftVars, nodeVars, fsmVars, budget>>

\* Mutant of OnApply: it hands the new handler the commands applied so far.
OnApplyReplays(n) ==
    /\ Command # {}
    /\ phase[n] = "running"
    /\ registered' = registered \cup {n}
    /\ delivered' = [delivered EXCEPT ![n] =
          @ \o SelectSeq([i \in 1..applied[n] |-> i], LAMBDA i : log[i].type = "command")]
    /\ UNCHANGED <<raftVars, nodeVars, fsm, applied, snap, call, budget>>

\* The application calls OnApply some time after Start has returned.
OnApply(n) ==
    /\ Command # {}
    /\ phase[n] = "running"
    /\ registered' = registered \cup {n}
    /\ UNCHANGED <<raftVars, nodeVars, fsm, applied, snap, delivered, call, budget>>

\* Raft hands n the next committed entry i that is not a configuration; n learns
\* from a leader that i is committed.
CanApply(n, i, type) ==
    /\ n \in RaftUp
    /\ leader # None
    /\ applied[n] < i
    /\ Receives(n, i)
    /\ log[i].type = type
    /\ \A j \in DOMAIN log : applied[n] < j /\ j < i => log[j].type = "config"
    /\ applied' = [applied EXCEPT ![n] = i]

\* applyClusterCmd "assign": all three fields under the lock.
ApplyAssign(n) ==
    /\ \E i \in DOMAIN log :
          /\ CanApply(n, i, "assign")
          /\ fsm' = [fsm EXCEPT ![n] = log[i].assignment]
    /\ UNCHANGED <<raftVars, nodeVars, snap, registered, delivered, call, budget>>

\* Apply of a user command: given to the handler of its namespace; without one
\* it is an error that only a waiting Replicate caller would see.
ApplyCommand(n) ==
    /\ \E i \in DOMAIN log :
          /\ CanApply(n, i, "command")
          /\ delivered' = IF n \in registered
                          THEN [delivered EXCEPT ![n] = Append(@, i)]
                          ELSE delivered
    /\ UNCHANGED <<raftVars, nodeVars, fsm, snap, registered, call, budget>>

\* Snapshot and Persist: the shard assignment, and nothing of the commands.
TakeSnapshot(n) ==
    /\ n \in RaftUp
    /\ applied[n] > snap[n].index
    /\ Spend("snapshots")
    /\ snap' = [snap EXCEPT ![n] = [index |-> applied[n], fsm |-> fsm[n]]]
    /\ UNCHANGED <<raftVars, nodeVars, fsm, applied, registered, delivered, call>>

\* Mutant of InstallSnapshot: also when the snapshot is older than what n applied.
InstallAnySnapshot(n) ==
    /\ leader # None
    /\ n \in RaftUp
    /\ n \in LatestServers
    /\ snap' = [snap EXCEPT ![n] = snap[leader]]
    /\ Restore(n, snap[leader])
    /\ UNCHANGED <<raftVars, nodeVars, registered, delivered, call, budget>>

\* The leader's log no longer reaches back to what n needs: n stores and
\* restores the leader's snapshot instead.
InstallSnapshot(n) ==
    /\ leader # None
    /\ n \in RaftUp
    /\ n \in LatestServers
    /\ snap[leader].index > applied[n]
    /\ snap' = [snap EXCEPT ![n] = snap[leader]]
    /\ Restore(n, snap[leader])
    /\ UNCHANGED <<raftVars, nodeVars, registered, delivered, call, budget>>

-----------------------------------------------------------------------------
\* An election among the running Raft instances.
RaftElect(n) ==
    /\ n \in RaftUp
    /\ Elect(n, RaftUp)
    /\ UNCHANGED <<nodeVars, fsmVars, call, budget>>

\* A leader that could have stayed: a pause or a partition.
RaftLoseLeadership ==
    /\ LoseLeadership
    /\ Spend("losses")
    /\ UNCHANGED <<nodeVars, fsmVars, call>>

RaftLeaseExpires ==
    /\ LeaseExpires(RaftUp)
    /\ UNCHANGED <<nodeVars, fsmVars, call, budget>>

RaftCommit ==
    /\ Commit(RaftUp)
    /\ UNCHANGED <<nodeVars, fsmVars, call, budget>>

Next ==
    \/ \E n \in Node :
          \/ StartGossip(n) \/ StartRaft(n) \/ StartRaftFails(n) \/ WireHandlers(n)
          \/ StopRaft(n) \/ StopGossip(n) \/ Crash(n)
          \/ \E m \in Node : NotifyJoin(n, m) \/ NotifyLeave(n, m)
          \/ JoinServer(n) \/ RemoveServer(n) \/ ChangeDone(n) \/ ChangeFails(n)
          \/ InitLeader(n) \/ InitRebalance(n)
          \/ \E t \in Thread : Propose(n, t) \/ EnqueueTimesOut(n, t)
          \/ \E c \in Command : Replicate(n, c)
          \/ OnApply(n)
          \/ ApplyAssign(n) \/ ApplyCommand(n)
          \/ TakeSnapshot(n) \/ InstallSnapshot(n)
          \/ RaftElect(n)
    \/ \E c \in Command : ReplicateOk(c) \/ ReplicateFails(c)
    \/ RaftLoseLeadership \/ RaftLeaseExpires \/ RaftCommit

Spec == Init /\ [][Next]_vars

\* What goes on by itself: the goroutines of the program, Raft's replication and
\* lease, gossip detecting that a peer joined or is gone.
SystemStep ==
    \/ \E n \in Node :
          \/ StartRaft(n) \/ WireHandlers(n) \/ StopGossip(n)
          \/ \E m \in Node : NotifyJoin(n, m) \/ (~GossipUp(m) /\ NotifyLeave(n, m))
          \/ JoinServer(n) \/ RemoveServer(n) \/ ChangeDone(n) \/ ChangeFails(n)
          \/ InitLeader(n) \/ InitRebalance(n)
          \/ \E t \in Thread : Propose(n, t)
          \/ ApplyAssign(n) \/ ApplyCommand(n)
    \/ RaftCommit \/ RaftLeaseExpires

\* Nobody has to start, stop or crash a node, win an election or call Replicate.
\* The steps above only compete a bounded number of times, so fairness of their
\* disjunction is enough, and it is weaker than a fair scheduler of each.
Fairness == WF_vars(SystemStep)

FairSpec == Spec /\ Fairness

-----------------------------------------------------------------------------
\* The totals nodes are configured with: the only ones an assignment can carry.
Totals == {EffectiveShards(ConfigShards[n]) : n \in Node}

AssignmentType ==
    [members : UNION {[S -> 0..Cardinality(Node)] : S \in SUBSET Node},
     shards : UNION {[0..(k - 1) -> Node] : k \in UNION {0..t : t \in Totals}},
     total : Totals]

EntryType ==
    [type : {"config"}, servers : SUBSET Node]
        \cup [type : {"assign"}, assignment : AssignmentType]
        \cup [type : {"command"}, command : Command]

JobType ==
    [at : {"idle", "await", "told"}]
        \cup [at : {"join", "leave"}, who : Node]
        \cup [at : {"changing"}, index : Nat, term : Nat]
        \cup [at : {"propose"}, servers : (SUBSET Node) \ {{}}, size : Totals]

CallType ==
    [at : {"new", "ok", "failed"}]
        \cup [at : {"waiting"}, node : Node, index : Nat, term : Nat]

RaftTypeOK ==
    /\ leader \in Node \cup {None}
    /\ term \in Nat
    /\ log \in Seq(EntryType)
    /\ pending \in Seq(EntryType)

NodeTypeOK ==
    /\ phase \in [Node -> {"down", "gossip", "raft", "running", "stopping"}]
    /\ view \in [Node -> SUBSET Node]
    /\ job \in [Node -> [Thread -> JobType]]

FsmTypeOK ==
    /\ fsm \in [Node -> AssignmentType]
    /\ applied \in [Node -> Nat]
    /\ snap \in [Node -> [index : Nat, fsm : AssignmentType]]
    /\ registered \in SUBSET Node
    /\ delivered \in [Node -> Seq(Nat)]

TypeOK ==
    /\ RaftTypeOK
    /\ NodeTypeOK
    /\ FsmTypeOK
    /\ call \in [Command -> CallType]
    /\ budget \in [{"stops", "flaps", "losses", "snapshots", "timeouts"} -> Nat]

-----------------------------------------------------------------------------
\* f is what the first i entries of l leave in the shard map of a node: the last
\* assignment among them, or the empty maps of a fresh process.
FollowsLog(l, f, i) ==
    \/ \E j \in 1..i :
          /\ l[j].type = "assign"
          /\ l[j].assignment = f
          /\ \A k \in 1..i : k > j => l[k].type # "assign"
    \/ /\ \A j \in 1..i : l[j].type # "assign"
       /\ \E m \in Node : f = InitialFsm(m)

\* On every node, at any moment - after a restart, a replay, a snapshot taken or
\* installed - the shard map, and the one in the snapshot on disk, is exactly the
\* last assignment of the log prefix the node claims to have applied.  So nodes
\* that have applied the same prefix never both own a shard.
FsmFollowsLog ==
    \A n \in Node :
        /\ applied[n] <= Len(log)
        /\ FollowsLog(log, fsm[n], applied[n])
        /\ snap[n].index <= Len(log)
        /\ FollowsLog(log, snap[n].fsm, snap[n].index)

\* The cluster implements the directory: assignments are decided once and for good,
\* and a running node never falls back behind one it has followed, whatever the
\* order of applies, replays, snapshots and elections.
Decisions == {i \in DOMAIN log : log[i].type = "assign"}

DecidedAssignments == [i \in Decisions |-> log[i].assignment]

Followed == [n \in Node |-> {i \in Decisions : i <= applied[n]}]

Directory == INSTANCE ShardDirectory WITH
    Fresh <- {InitialFsm(n) : n \in Node},
    history <- DecidedAssignments,
    seen <- Followed,
    held <- fsm

ImplementsDirectory == Directory!Spec

\* Whatever the order of joins, leaves and lost leaderships, every assignment
\* that reaches the log numbers its members 0 .. N-1 and deals every shard a key
\* can hash to, evenly (when all nodes are configured with the same total).
AssignmentsPartition ==
    \A i \in DOMAIN log : log[i].type = "assign" =>
        /\ NumberingIsBijective(log[i].assignment)
        /\ ShardsAreDealt(log[i].assignment)

\* No sequence of membership changes takes the leader that makes them out of its
\* own configuration: rebalance never divides by a configuration of no servers.
LeaderIsServer == leader # None => leader \in LatestServers

\* A Replicate call that returned no error is in the committed log, although its
\* leader may have been deposed, or restarted, since.
AckedIsCommitted ==
    \A c \in Command : call[c].at = "ok" => \E i \in DOMAIN log : log[i] = CommandEntry(c)

\* A process gives its handler the commands in log order, and none twice, also
\* when a replay or an installed snapshot moves its place in the log.
HandlersRunInLogOrder ==
    \A n \in Node :
        /\ \A i \in DOMAIN delivered[n] :
              /\ delivered[n][i] <= applied[n]
              /\ log[delivered[n][i]].type = "command"
        /\ \A i, j \in DOMAIN delivered[n] : i < j => delivered[n][i] < delivered[n][j]

\* One of the leader's proposals was not taken in time.
TimedOut == budget["timeouts"] < MaxTimeouts

\* A join the leader has begun to handle ends in an assignment that has the new
\* member, unless the leadership is lost or a call of Raft times out on the way,
\* which nobody repeats.  Not so for a member the
\* configuration already has: the handler returns early, also when a deposed
\* leader added it and its assignment was lost.
JoinIsAssigned ==
    \A n, m \in Node :
        (IsLeader(n) /\ job[n]["events"] = [at |-> "join", who |-> m] /\ m \notin LatestServers)
            ~> (m \in DOMAIN fsm[n].members \/ ~IsLeader(n) \/ TimedOut)

\* A leave the leader has begun to handle ends in an assignment without the
\* member, with the same exceptions.
LeaveIsUnassigned ==
    \A n, m \in Node :
        (IsLeader(n) /\ job[n]["events"] = [at |-> "leave", who |-> m])
            ~> (m \notin DOMAIN fsm[n].members \/ ~IsLeader(n) \/ TimedOut)

-----------------------------------------------------------------------------
\* What the documentation says, and the code does not do.

\* "TotalMembers returns the current number of active members"
\* (partitioned.go:149): a leader that stays counts, sooner or later, itself and
\* the peers it sees.
TotalMembersConverges ==
    \A n \in Node :
        []<>(~IsLeader(n) \/ TotalMembers(n) = Cardinality(view[n]) + 1)

\* "ApplyHandler is called when a replicated command is committed on all nodes"
\* (partitioned.go:47): a node whose handler is registered and that is past a
\* command in the log has given it to the handler.
HandlersSeeEveryCommand ==
    \A n \in registered : \A i \in 1..applied[n] :
        log[i].type = "command" => \E k \in DOMAIN delivered[n] : delivered[n][k] = i
=============================================================================
