----------------------- MODULE PartitionedClusterProofs -----------------------
(***************************************************************************)
(* Type correctness of the partitioned cluster, and the agreement of every *)
(* node's shard map with the log, for any nodes, configured totals,        *)
(* commands and bounds.                                                    *)
(***************************************************************************)
EXTENDS PartitionedCluster, ShardAssignmentProofs, SequenceTheorems

\* Every total a node is configured with is a positive number.
LEMMA TotalsArePositive == \A t \in Totals : t \in Nat \ {0}
  BY ClusterAssumption, DefaultShardsAssumption DEF Totals, EffectiveShards

LEMMA InitialFsmType == \A n \in Node : InitialFsm(n) \in AssignmentType
<1> SUFFICES ASSUME NEW n \in Node
             PROVE  InitialFsm(n) \in AssignmentType
  OBVIOUS
<1> DEFINE t == EffectiveShards(ConfigShards[n])
<1>1. t \in Totals /\ t \in Nat \ {0}
  BY TotalsArePositive DEF Totals
<1>2. [m \in {} |-> 0] \in [{} -> 0..Cardinality(Node)] /\ {} \in SUBSET Node
  OBVIOUS
<1>3. [s \in {} |-> 0] \in [0..(0 - 1) -> Node]
  <2>1. 0..(0 - 1) = {}
    OBVIOUS
  <2> QED
    BY <2>1
<1>4. 0 \in UNION {0..u : u \in Totals}
  BY <1>1
<1> QED
  BY <1>1, <1>2, <1>3, <1>4 DEF InitialFsm, NoAssignment, AssignmentType

\* The assignment rebalance proposes is well formed, however the unlocked reads
\* of pc.totalShards fall.
LEMMA AssignmentHasType ==
    ASSUME NEW S \in SUBSET Node, S # {}, NEW old \in Totals, NEW total \in Totals,
           NEW size \in LoopBounds(old, total)
    PROVE  Assignment(S, size, total) \in AssignmentType
<1>1. S \in SUBSET Nat /\ IsFiniteSet(S)
  BY NodeAssumption, FS_Subset
<1>2. Cardinality(S) \in Nat /\ Cardinality(Node) \in Nat /\ Cardinality(S) <= Cardinality(Node)
  BY <1>1, NodeAssumption, FS_Subset, FS_CardinalityType
<1>3. MemberMap(S) \in [S -> 0..Cardinality(Node)]
  <2>1. \A n \in S : MemberNumber(S, n) \in 0..(Cardinality(S) - 1)
    BY <1>1, MemberNumberRange
  <2> QED
    BY <1>2, <2>1 DEF MemberMap
<1>4. old \in Nat /\ total \in Nat
  BY TotalsArePositive
<1>5. size \in Nat /\ (size \in 0..old \/ size \in 0..total)
  BY <1>4 DEF LoopBounds
<1>6. size \in UNION {0..t : t \in Totals}
  BY <1>5
<1>7. ShardMap(S, size) \in [0..(size - 1) -> Node]
  <2>1. ShardMap(S, size) \in [0..(size - 1) -> S]
    BY <1>1, <1>5, ShardMapType
  <2> QED
    BY <2>1
<1> QED
  BY <1>3, <1>6, <1>7 DEF Assignment, AssignmentType

LEMMA ServersOfType == \A l : ServersOf(l) \in SUBSET Node
  BY DEF ServersOf

LEMMA LatestServersType == LatestServers \in SUBSET Node
  BY ServersOfType DEF LatestServers

-----------------------------------------------------------------------------
\* The raft operations keep the types of the raft state.
LEMMA AppendType ==
    ASSUME RaftTypeOK, NEW e \in EntryType, AppendEntry(e)
    PROVE  RaftTypeOK'
  BY DEF RaftTypeOK, AppendEntry

LEMMA ElectType ==
    ASSUME RaftTypeOK, NEW n \in Node, NEW up, Elect(n, up)
    PROVE  RaftTypeOK'
<1>1. PICK k \in 0..Len(pending) : pending' = SubSeq(pending, 1, k)
  BY DEF Elect
<1>2. pending \in Seq(EntryType)
  BY DEF RaftTypeOK
<1>3. \A i \in 1..k : pending[i] \in EntryType
  BY <1>2
<1>4. pending' \in Seq(EntryType)
  BY <1>1, <1>2
<1> QED
  BY <1>4 DEF RaftTypeOK, Elect

LEMMA CommitType ==
    ASSUME RaftTypeOK, NEW up, Commit(up)
    PROVE  RaftTypeOK'
<1>1. pending # <<>> /\ pending \in Seq(EntryType) /\ log \in Seq(EntryType)
  BY DEF RaftTypeOK, Commit
<1>2. Head(pending) \in EntryType /\ Tail(pending) \in Seq(EntryType)
  BY <1>1
<1> QED
  BY <1>1, <1>2 DEF RaftTypeOK, Commit

LEMMA BootstrapType ==
    ASSUME RaftTypeOK, NEW n \in Node, BootstrapLog(n)
    PROVE  RaftTypeOK'
<1>1. ConfigEntry({n}) \in EntryType
  BY DEF ConfigEntry, EntryType
<1> QED
  BY <1>1 DEF RaftTypeOK, BootstrapLog

LEMMA LoseType ==
    ASSUME RaftTypeOK, LoseLeadership
    PROVE  RaftTypeOK'
  BY DEF RaftTypeOK, LoseLeadership

LEMMA RaftUnchanged ==
    ASSUME RaftTypeOK, UNCHANGED raftVars
    PROVE  RaftTypeOK'
  BY DEF RaftTypeOK, raftVars

LEMMA SetJobType ==
    ASSUME NodeTypeOK, NEW n \in Node, NEW t \in Thread, NEW j \in JobType,
           SetJob(n, t, j), UNCHANGED <<phase, view>>
    PROVE  NodeTypeOK'
  BY DEF NodeTypeOK, SetJob

\* The jobs the actions create.
LEMMA IdleType == Idle \in JobType
  BY DEF Idle, JobType

LEMMA HandleType ==
    ASSUME NodeTypeOK, NEW n \in Node, NEW j \in JobType, Handle(n, j)
    PROVE  job' \in [Node -> [Thread -> JobType]]
  BY DEF NodeTypeOK, Handle, SetJob, Thread

LEMMA ChangeServersType ==
    ASSUME TypeOK, NEW n \in Node, NEW S \in SUBSET Node, ChangeServers(n, S),
           UNCHANGED <<phase, view>>
    PROVE  RaftTypeOK' /\ NodeTypeOK'
<1> USE DEF TypeOK
<1>1. CASE IsLeader(n)
  <2>1. ConfigEntry(S) \in EntryType
    BY DEF ConfigEntry, EntryType
  <2>2. RaftTypeOK'
    BY <1>1, <2>1, AppendType DEF ChangeServers
  <2>3. NextIndex \in Nat /\ term \in Nat
    BY DEF NextIndex, RaftTypeOK
  <2>4. [at |-> "changing", index |-> NextIndex, term |-> term] \in JobType
    BY <2>3 DEF JobType
  <2>5. NodeTypeOK'
    BY <1>1, <2>4, SetJobType DEF ChangeServers, Thread
  <2> QED
    BY <2>2, <2>5
<1>2. CASE ~IsLeader(n)
  BY <1>2, IdleType, SetJobType, RaftUnchanged DEF ChangeServers, Thread
<1> QED
  BY <1>1, <1>2

LEMMA RebalanceType ==
    ASSUME TypeOK, NEW n \in Node, NEW t \in Thread, Rebalance(n, t), UNCHANGED <<phase, view>>
    PROVE  NodeTypeOK'
<1>1. fsm[n].total \in Totals
  BY DEF TypeOK, FsmTypeOK, AssignmentType
<1>2. LatestServers # {} =>
        [at |-> "propose", servers |-> LatestServers, size |-> fsm[n].total] \in JobType
  BY <1>1, LatestServersType DEF JobType
<1> QED
  BY <1>2, IdleType, SetJobType DEF Rebalance, TypeOK

LEMMA ProposeType ==
    ASSUME TypeOK, NEW n \in Node, NEW t \in Thread, Propose(n, t)
    PROVE  TypeOK'
<1> DEFINE j == job[n][t]
<1>1. j \in JobType /\ j.at = "propose"
  BY DEF TypeOK, NodeTypeOK, Propose
<1>2. j.servers \in SUBSET Node /\ j.servers # {} /\ j.size \in Totals
  BY <1>1 DEF JobType
<1>3. fsm[n].total \in Totals
  BY DEF TypeOK, FsmTypeOK, AssignmentType
<1>4. RaftTypeOK'
  <2>1. CASE IsLeader(n)
    <3>1. PICK size \in LoopBounds(j.size, fsm[n].total) :
              AppendEntry(AssignEntry(Assignment(j.servers, size, fsm[n].total)))
      BY <2>1 DEF Propose
    <3>2. Assignment(j.servers, size, fsm[n].total) \in AssignmentType
      BY <1>2, <1>3, AssignmentHasType
    <3>3. AssignEntry(Assignment(j.servers, size, fsm[n].total)) \in EntryType
      BY <3>2 DEF AssignEntry, EntryType
    <3> QED
      BY <3>1, <3>3, AppendType DEF TypeOK
  <2>2. CASE ~IsLeader(n)
    BY <2>2, RaftUnchanged DEF Propose, TypeOK
  <2> QED
    BY <2>1, <2>2
<1>5. NodeTypeOK'
  BY IdleType, SetJobType DEF Propose, TypeOK
<1> QED
  BY <1>4, <1>5 DEF TypeOK, FsmTypeOK, Propose, fsmVars

LEMMA RestoreType ==
    ASSUME FsmTypeOK, NEW n \in Node, NEW s \in [index : Nat, fsm : AssignmentType], Restore(n, s)
    PROVE  /\ fsm' \in [Node -> AssignmentType]
           /\ applied' \in [Node -> Nat]
  BY DEF FsmTypeOK, Restore

LEMMA RaftGoneType ==
    ASSUME TypeOK, NEW n \in Node, RaftGone(n)
    PROVE  RaftTypeOK' /\ call' \in [Command -> CallType]
<1>1. RaftTypeOK'
  BY DEF TypeOK, RaftTypeOK, RaftGone
<1>2. [at |-> "failed"] \in CallType
  BY DEF CallType
<1>3. call' \in [Command -> CallType]
  BY <1>2 DEF TypeOK, RaftGone
<1> QED
  BY <1>1, <1>3

LEMMA ProcessGoneType ==
    ASSUME TypeOK, NEW n \in Node, ProcessGone(n)
    PROVE  NodeTypeOK' /\ FsmTypeOK'
<1>1. NodeTypeOK'
  BY IdleType DEF TypeOK, NodeTypeOK, ProcessGone
<1>2. InitialFsm(n) \in AssignmentType
  BY InitialFsmType
<1>3. <<>> \in Seq(Nat)
  OBVIOUS
<1>4. FsmTypeOK'
  BY <1>2, <1>3 DEF TypeOK, FsmTypeOK, ProcessGone
<1> QED
  BY <1>1, <1>4

LEMMA SpendType ==
    ASSUME TypeOK, NEW b \in {"stops", "flaps", "losses", "snapshots", "timeouts"}, Spend(b)
    PROVE  budget' \in [{"stops", "flaps", "losses", "snapshots", "timeouts"} -> Nat]
  BY DEF TypeOK, Spend

-----------------------------------------------------------------------------
LEMMA TypeInit == Init => TypeOK
<1> SUFFICES ASSUME Init PROVE TypeOK
  OBVIOUS
<1>1. RaftTypeOK
  BY DEF Init, RaftInit, RaftTypeOK
<1>2. NodeTypeOK
  BY IdleType DEF Init, NodeTypeOK
<1>3. FsmTypeOK
  BY InitialFsmType DEF Init, FsmTypeOK
<1>4. call \in [Command -> CallType]
  BY DEF Init, NoCall, CallType
<1>5. budget \in [{"stops", "flaps", "losses", "snapshots", "timeouts"} -> Nat]
  <2>1. \A b \in {MaxStops, MaxFlaps, MaxLosses, MaxSnapshots, MaxTimeouts} : b \in Nat
    BY ClusterAssumption
  <2> QED
    BY <2>1 DEF Init
<1> QED
  BY <1>1, <1>2, <1>3, <1>4, <1>5 DEF TypeOK

\* Start, Stop and crashes keep the types.
LEMMA LifecycleType ==
    ASSUME TypeOK, NEW n \in Node,
           \/ StartGossip(n) \/ StartRaft(n) \/ StartRaftFails(n) \/ WireHandlers(n)
           \/ StopRaft(n) \/ StopGossip(n) \/ Crash(n)
    PROVE  TypeOK'
<1>1. CASE StartGossip(n)
  BY <1>1, RaftUnchanged DEF TypeOK, NodeTypeOK, FsmTypeOK, StartGossip, fsmVars
<1>2. CASE StartRaft(n)
  <2>1. RaftTypeOK'
    BY <1>2, BootstrapType, RaftUnchanged DEF TypeOK, StartRaft
  <2>2. [at |-> "await"] \in JobType
    BY DEF JobType
  <2>3. NodeTypeOK'
    BY <1>2, <2>2 DEF TypeOK, NodeTypeOK, StartRaft, SetJob, Thread
  <2>4. snap[n] \in [index : Nat, fsm : AssignmentType]
    BY DEF TypeOK, FsmTypeOK
  <2>5. FsmTypeOK'
    BY <1>2, <2>4, RestoreType DEF TypeOK, FsmTypeOK, StartRaft
  <2> QED
    BY <1>2, <2>1, <2>3, <2>5 DEF TypeOK, StartRaft
<1>3. CASE StartRaftFails(n)
  <2>1. NodeTypeOK'
    BY <1>3 DEF TypeOK, NodeTypeOK, StartRaftFails
  <2> QED
    BY <1>3, <2>1, RaftUnchanged, SpendType DEF TypeOK, FsmTypeOK, StartRaftFails, fsmVars
<1>4. CASE WireHandlers(n)
  BY <1>4, RaftUnchanged DEF TypeOK, NodeTypeOK, FsmTypeOK, WireHandlers, fsmVars
<1>5. CASE StopRaft(n)
  <2>1. NodeTypeOK' /\ FsmTypeOK'
    BY <1>5 DEF TypeOK, NodeTypeOK, FsmTypeOK, StopRaft, fsmVars
  <2> QED
    BY <1>5, <2>1, RaftGoneType, SpendType DEF TypeOK, StopRaft
<1>6. CASE StopGossip(n)
  BY <1>6, ProcessGoneType, RaftUnchanged DEF TypeOK, StopGossip
<1>7. CASE Crash(n)
  BY <1>7, ProcessGoneType, RaftGoneType, SpendType DEF TypeOK, Crash
<1> QED
  BY <1>1, <1>2, <1>3, <1>4, <1>5, <1>6, <1>7

\* Gossip events and the membership handlers keep the types.
LEMMA MembershipType ==
    ASSUME TypeOK, NEW n \in Node,
           \/ \E m \in Node : NotifyJoin(n, m) \/ NotifyLeave(n, m)
           \/ JoinServer(n) \/ RemoveServer(n) \/ ChangeDone(n) \/ ChangeFails(n)
           \/ InitLeader(n) \/ InitRebalance(n)
           \/ \E t \in Thread : EnqueueTimesOut(n, t)
    PROVE  TypeOK'
<1>1. CASE \E m \in Node : NotifyJoin(n, m)
  <2>1. PICK m \in Node : NotifyJoin(n, m)
    BY <1>1
  <2>2. [at |-> "join", who |-> m] \in JobType
    BY DEF JobType
  <2>3. job' \in [Node -> [Thread -> JobType]]
    BY <2>1, <2>2, HandleType DEF TypeOK, NotifyJoin
  <2>4. NodeTypeOK'
    BY <2>1, <2>3 DEF TypeOK, NodeTypeOK, NotifyJoin
  <2> QED
    BY <2>1, <2>4, RaftUnchanged DEF TypeOK, FsmTypeOK, NotifyJoin, fsmVars
<1>2. CASE \E m \in Node : NotifyLeave(n, m)
  <2>1. PICK m \in Node : NotifyLeave(n, m)
    BY <1>2
  <2>2. [at |-> "leave", who |-> m] \in JobType
    BY DEF JobType
  <2>3. job' \in [Node -> [Thread -> JobType]]
    BY <2>1, <2>2, HandleType DEF TypeOK, NotifyLeave
  <2>4. NodeTypeOK'
    BY <2>1, <2>3 DEF TypeOK, NodeTypeOK, NotifyLeave
  <2>5. budget' \in [{"stops", "flaps", "losses", "snapshots", "timeouts"} -> Nat]
    BY <2>1, SpendType DEF TypeOK, NotifyLeave
  <2> QED
    BY <2>1, <2>4, <2>5, RaftUnchanged DEF TypeOK, FsmTypeOK, NotifyLeave, fsmVars
<1>3. CASE JoinServer(n)
  <2> DEFINE j == job[n]["events"]
  <2>1. j \in JobType /\ j.at = "join"
    BY <1>3 DEF TypeOK, NodeTypeOK, JoinServer, Thread
  <2>2. j.who \in Node
    BY <2>1 DEF JobType
  <2>3. LatestServers \cup {j.who} \in SUBSET Node
    BY <2>2, LatestServersType
  <2>4. RaftTypeOK' /\ NodeTypeOK'
    <3>1. CASE j.who \in LatestServers
      BY <1>3, <3>1, IdleType, SetJobType, RaftUnchanged DEF TypeOK, JoinServer, Thread
    <3>2. CASE j.who \notin LatestServers
      BY <1>3, <3>2, <2>3, ChangeServersType DEF JoinServer
    <3> QED
      BY <3>1, <3>2
  <2> QED
    BY <1>3, <2>4 DEF TypeOK, FsmTypeOK, JoinServer, fsmVars
<1>4. CASE RemoveServer(n)
  <2>1. LatestServers \ {job[n]["events"].who} \in SUBSET Node
    BY LatestServersType
  <2>2. RaftTypeOK' /\ NodeTypeOK'
    BY <1>4, <2>1, ChangeServersType DEF RemoveServer
  <2> QED
    BY <1>4, <2>2 DEF TypeOK, FsmTypeOK, RemoveServer, fsmVars
<1>5. CASE ChangeDone(n)
  <2>1. NodeTypeOK'
    BY <1>5, RebalanceType DEF ChangeDone, Thread
  <2> QED
    BY <1>5, <2>1, RaftUnchanged DEF TypeOK, FsmTypeOK, ChangeDone, fsmVars
<1>6. CASE ChangeFails(n)
  <2>1. NodeTypeOK'
    BY <1>6, IdleType, SetJobType DEF TypeOK, ChangeFails, Thread
  <2> QED
    BY <1>6, <2>1, RaftUnchanged DEF TypeOK, FsmTypeOK, ChangeFails, fsmVars
<1>7. CASE InitLeader(n)
  <2>1. [at |-> "told"] \in JobType
    BY DEF JobType
  <2>2. NodeTypeOK'
    BY <1>7, <2>1, SetJobType DEF TypeOK, InitLeader, Thread
  <2> QED
    BY <1>7, <2>2, RaftUnchanged DEF TypeOK, FsmTypeOK, InitLeader, fsmVars
<1>8. CASE InitRebalance(n)
  <2>1. NodeTypeOK'
    BY <1>8, RebalanceType DEF InitRebalance, Thread
  <2> QED
    BY <1>8, <2>1, RaftUnchanged DEF TypeOK, FsmTypeOK, InitRebalance, fsmVars
<1>9. CASE \E t \in Thread : EnqueueTimesOut(n, t)
  <2>1. PICK t \in Thread : EnqueueTimesOut(n, t)
    BY <1>9
  <2>2. NodeTypeOK'
    BY <2>1, IdleType, SetJobType DEF TypeOK, EnqueueTimesOut
  <2> QED
    BY <2>1, <2>2, RaftUnchanged, SpendType DEF TypeOK, FsmTypeOK, EnqueueTimesOut, fsmVars
<1> QED
  BY <1>1, <1>2, <1>3, <1>4, <1>5, <1>6, <1>7, <1>8, <1>9

\* The FSM, its snapshots and the registration of handlers keep the types.
LEMMA FsmStepType ==
    ASSUME TypeOK, NEW n \in Node,
           \/ OnApply(n) \/ ApplyAssign(n) \/ ApplyCommand(n)
           \/ TakeSnapshot(n) \/ InstallSnapshot(n)
    PROVE  TypeOK'
<1>1. NodeTypeOK' /\ RaftTypeOK' /\ call' \in [Command -> CallType]
  <2>1. UNCHANGED <<raftVars, phase, view, job, call>>
    BY DEF OnApply, ApplyAssign, ApplyCommand, TakeSnapshot, InstallSnapshot, nodeVars
  <2> QED
    BY <2>1, RaftUnchanged DEF TypeOK, NodeTypeOK
<1>2. CASE OnApply(n)
  BY <1>1, <1>2 DEF TypeOK, FsmTypeOK, OnApply
<1>3. CASE ApplyAssign(n)
  <2>1. PICK i \in DOMAIN log : /\ CanApply(n, i, "assign")
                               /\ fsm' = [fsm EXCEPT ![n] = log[i].assignment]
    BY <1>3 DEF ApplyAssign
  <2>2. i \in Nat /\ log[i] \in EntryType /\ log[i].type = "assign"
    BY <2>1 DEF TypeOK, RaftTypeOK, CanApply
  <2>3. log[i].assignment \in AssignmentType
    BY <2>2 DEF EntryType
  <2>4. FsmTypeOK'
    BY <1>3, <2>1, <2>2, <2>3 DEF TypeOK, FsmTypeOK, ApplyAssign, CanApply
  <2> QED
    BY <1>1, <1>3, <2>4 DEF TypeOK, ApplyAssign
<1>4. CASE ApplyCommand(n)
  <2>1. PICK i \in DOMAIN log :
            /\ CanApply(n, i, "command")
            /\ delivered' = IF n \in registered
                            THEN [delivered EXCEPT ![n] = Append(@, i)]
                            ELSE delivered
    BY <1>4 DEF ApplyCommand
  <2>2. i \in Nat
    BY <2>1 DEF TypeOK, RaftTypeOK
  <2>3. delivered' \in [Node -> Seq(Nat)]
    BY <2>1, <2>2 DEF TypeOK, FsmTypeOK
  <2>4. FsmTypeOK'
    BY <1>4, <2>1, <2>2, <2>3 DEF TypeOK, FsmTypeOK, ApplyCommand, CanApply
  <2> QED
    BY <1>1, <1>4, <2>4 DEF TypeOK, ApplyCommand
<1>5. CASE TakeSnapshot(n)
  <2>1. FsmTypeOK'
    BY <1>5 DEF TypeOK, FsmTypeOK, TakeSnapshot
  <2> QED
    BY <1>1, <1>5, <2>1, SpendType DEF TypeOK, TakeSnapshot
<1>6. CASE InstallSnapshot(n)
  <2>1. leader \in Node /\ snap[leader] \in [index : Nat, fsm : AssignmentType]
    BY <1>6 DEF TypeOK, RaftTypeOK, FsmTypeOK, InstallSnapshot
  <2>2. FsmTypeOK'
    BY <1>6, <2>1, RestoreType DEF TypeOK, FsmTypeOK, InstallSnapshot
  <2> QED
    BY <1>1, <1>6, <2>2 DEF TypeOK, InstallSnapshot
<1> QED
  BY <1>2, <1>3, <1>4, <1>5, <1>6

\* Replicate and its outcomes keep the types.
LEMMA ReplicateType ==
    ASSUME TypeOK, NEW c \in Command,
           \/ \E n \in Node : Replicate(n, c)
           \/ ReplicateOk(c) \/ ReplicateFails(c)
    PROVE  TypeOK'
<1>1. CASE \E n \in Node : Replicate(n, c)
  <2>1. PICK n \in Node : Replicate(n, c)
    BY <1>1
  <2>2. CommandEntry(c) \in EntryType
    BY DEF CommandEntry, EntryType
  <2>3. RaftTypeOK'
    BY <2>1, <2>2, AppendType DEF TypeOK, Replicate
  <2>4. [at |-> "waiting", node |-> n, index |-> NextIndex, term |-> term] \in CallType
    BY DEF CallType, NextIndex, TypeOK, RaftTypeOK
  <2> QED
    BY <2>1, <2>3, <2>4 DEF TypeOK, NodeTypeOK, FsmTypeOK, Replicate, nodeVars, fsmVars
<1>2. CASE ReplicateOk(c) \/ ReplicateFails(c)
  <2>1. [at |-> "ok"] \in CallType /\ [at |-> "failed"] \in CallType
    BY DEF CallType
  <2> QED
    BY <1>2, <2>1, RaftUnchanged
    DEF TypeOK, NodeTypeOK, FsmTypeOK, ReplicateOk, ReplicateFails, nodeVars, fsmVars
<1> QED
  BY <1>1, <1>2

\* Elections, commits and lost leaderships keep the types.
LEMMA RaftStepType ==
    ASSUME TypeOK,
           \/ \E n \in Node : RaftElect(n)
           \/ RaftLoseLeadership \/ RaftLeaseExpires \/ RaftCommit
    PROVE  TypeOK'
<1>1. RaftTypeOK'
  BY ElectType, LoseType, CommitType
  DEF TypeOK, RaftElect, RaftLoseLeadership, RaftLeaseExpires, LeaseExpires, RaftCommit
<1>2. budget' \in [{"stops", "flaps", "losses", "snapshots", "timeouts"} -> Nat]
  BY SpendType DEF TypeOK, RaftElect, RaftLoseLeadership, RaftLeaseExpires, RaftCommit
<1>3. UNCHANGED <<nodeVars, fsmVars, call>>
  BY DEF RaftElect, RaftLoseLeadership, RaftLeaseExpires, RaftCommit
<1> QED
  BY <1>1, <1>2, <1>3 DEF TypeOK, NodeTypeOK, FsmTypeOK, nodeVars, fsmVars

LEMMA TypeNext == TypeOK /\ [Next]_vars => TypeOK'
<1> SUFFICES ASSUME TypeOK, [Next]_vars PROVE TypeOK'
  OBVIOUS
<1>1. CASE UNCHANGED vars
  BY <1>1, RaftUnchanged DEF TypeOK, NodeTypeOK, FsmTypeOK, vars, nodeVars, fsmVars
<1>2. CASE Next
  BY <1>2, LifecycleType, MembershipType, FsmStepType, ReplicateType, RaftStepType, ProposeType
  DEF Next
<1> QED
  BY <1>1, <1>2

\* In every state every variable has its type; in particular every assignment in
\* the log maps the shards of a configured total to nodes.
THEOREM TypeCorrect == Spec => []TypeOK
<1>1. Init => TypeOK
  BY TypeInit
<1>2. TypeOK /\ [Next]_vars => TypeOK'
  BY TypeNext
<1> QED
  BY <1>1, <1>2, PTL DEF Spec

-----------------------------------------------------------------------------
\* What a log prefix says does not change when the log grows.
LEMMA PrefixKeepsMeaning ==
    ASSUME NEW l, NEW longer, Len(l) \in Nat, \A j \in 1..Len(l) : longer[j] = l[j],
           NEW f, NEW i \in Nat, i <= Len(l), FollowsLog(l, f, i)
    PROVE  FollowsLog(longer, f, i)
<1>1. \A j \in 1..i : longer[j] = l[j]
  OBVIOUS
<1> QED
  BY <1>1 DEF FollowsLog

\* Before anything is applied a node holds the empty maps.
LEMMA NothingApplied ==
    ASSUME NEW l, NEW n \in Node
    PROVE  FollowsLog(l, InitialFsm(n), 0)
  BY DEF FollowsLog

\* The steps that write to the committed log.
LEMMA LogSteps ==
    ASSUME Next
    PROVE  UNCHANGED log \/ (\E n \in Node : BootstrapLog(n)) \/ RaftCommit
  BY DEF Next, StartGossip, StartRaft, StartRaftFails, WireHandlers, StopRaft, StopGossip, Crash,
         RaftGone, NotifyJoin, NotifyLeave, JoinServer, RemoveServer, ChangeServers, ChangeDone,
         ChangeFails, InitLeader, InitRebalance, EnqueueTimesOut, Propose, AppendEntry, Replicate,
         ReplicateOk, ReplicateFails, OnApply, ApplyAssign, ApplyCommand, TakeSnapshot, InstallSnapshot,
         RaftElect, Elect, RaftLoseLeadership, RaftLeaseExpires, LeaseExpires, LoseLeadership, raftVars

\* The committed log only grows.
LEMMA LogGrows ==
    ASSUME TypeOK, Next
    PROVE  /\ Len(log) \in Nat /\ Len(log') \in Nat /\ Len(log) <= Len(log')
           /\ \A j \in 1..Len(log) : log'[j] = log[j]
<1>1. log \in Seq(EntryType) /\ pending \in Seq(EntryType) /\ Len(log) \in Nat
  BY DEF TypeOK, RaftTypeOK
<1>2. CASE UNCHANGED log
  BY <1>1, <1>2
<1>3. CASE \E n \in Node : BootstrapLog(n)
  BY <1>1, <1>3 DEF BootstrapLog
<1>4. CASE RaftCommit
  <2>1. log' = Append(log, Head(pending)) /\ pending # <<>>
    BY <1>4 DEF RaftCommit, Commit
  <2> QED
    BY <1>1, <2>1
<1>5. UNCHANGED log \/ (\E n \in Node : BootstrapLog(n)) \/ RaftCommit
  BY LogSteps
<1> QED
  BY <1>2, <1>3, <1>4, <1>5

\* One node's FSM and snapshot agree with the log l.
NodeFollows(l, f, a, s) ==
    /\ a <= Len(l)
    /\ FollowsLog(l, f, a)
    /\ s.index <= Len(l)
    /\ FollowsLog(l, s.fsm, s.index)

\* A node whose FSM and snapshot do not change agrees with the longer log.
LEMMA UntouchedFollows ==
    ASSUME TypeOK, Next, FsmFollowsLog, NEW m \in Node,
           fsm'[m] = fsm[m], applied'[m] = applied[m], snap'[m] = snap[m]
    PROVE  NodeFollows(log', fsm'[m], applied'[m], snap'[m])
<1>1. applied[m] \in Nat /\ snap[m].index \in Nat
  BY DEF TypeOK, FsmTypeOK
<1>2. NodeFollows(log, fsm[m], applied[m], snap[m])
  BY DEF FsmFollowsLog, NodeFollows
<1>3. FollowsLog(log', fsm[m], applied[m])
  BY <1>1, <1>2, LogGrows, PrefixKeepsMeaning DEF NodeFollows
<1>4. FollowsLog(log', snap[m].fsm, snap[m].index)
  BY <1>1, <1>2, LogGrows, PrefixKeepsMeaning DEF NodeFollows
<1>5. applied[m] <= Len(log') /\ snap[m].index <= Len(log')
  BY <1>1, <1>2, LogGrows DEF NodeFollows
<1> QED
  BY <1>3, <1>4, <1>5 DEF NodeFollows

\* A node that restores snapshot s, on start or from the leader, agrees with the
\* log because the snapshot does.
LEMMA RestoredFollows ==
    ASSUME TypeOK, Next, FsmFollowsLog, NEW m \in Node, NEW k \in Node,
           fsm'[m] = snap[k].fsm, applied'[m] = snap[k].index, snap'[m] = snap[k]
    PROVE  NodeFollows(log', fsm'[m], applied'[m], snap'[m])
<1>1. snap[k].index \in Nat
  BY DEF TypeOK, FsmTypeOK
<1>2. snap[k].index <= Len(log) /\ FollowsLog(log, snap[k].fsm, snap[k].index)
  BY DEF FsmFollowsLog
<1>3. FollowsLog(log', snap[k].fsm, snap[k].index)
  BY <1>1, <1>2, LogGrows, PrefixKeepsMeaning
<1>4. snap[k].index <= Len(log')
  BY <1>1, <1>2, LogGrows
<1> QED
  BY <1>3, <1>4 DEF NodeFollows

\* The next entry a node applies: between the last one and it there are only
\* configurations.
LEMMA ApplyFollows ==
    ASSUME TypeOK, FsmFollowsLog, NEW n \in Node, NEW i \in DOMAIN log,
           NEW type \in {"assign", "command"}, CanApply(n, i, type)
    PROVE  /\ i \in Nat /\ i <= Len(log)
           /\ type = "assign" => FollowsLog(log, log[i].assignment, i)
           /\ type = "command" => FollowsLog(log, fsm[n], i)
<1>1. i \in 1..Len(log) /\ Len(log) \in Nat /\ applied[n] \in Nat
  BY DEF TypeOK, RaftTypeOK, FsmTypeOK
<1>2. applied[n] < i /\ log[i].type = type
  BY DEF CanApply
<1>3. \A j \in 1..i : applied[n] < j /\ j < i => log[j].type = "config"
  BY <1>1 DEF CanApply
<1>4. CASE type = "assign"
  <2>1. \A k \in 1..i : k > i => log[k].type # "assign"
    BY <1>1
  <2> QED
    BY <1>1, <1>2, <1>4, <2>1 DEF FollowsLog
<1>5. CASE type = "command"
  <2>1. FollowsLog(log, fsm[n], applied[n])
    BY DEF FsmFollowsLog
  <2>2. \A k \in 1..i : k > applied[n] => log[k].type # "assign"
    BY <1>1, <1>2, <1>3, <1>5
  <2>3. ASSUME NEW j \in 1..applied[n],
               log[j].type = "assign", log[j].assignment = fsm[n],
               \A k \in 1..applied[n] : k > j => log[k].type # "assign"
        PROVE  FollowsLog(log, fsm[n], i)
    <3>1. j \in 1..i
      BY <1>1, <1>2
    <3>2. \A k \in 1..i : k > j => log[k].type # "assign"
      BY <1>1, <2>2, <2>3
    <3> QED
      BY <2>3, <3>1, <3>2 DEF FollowsLog
  <2>4. ASSUME \A j \in 1..applied[n] : log[j].type # "assign",
               \E m \in Node : fsm[n] = InitialFsm(m)
        PROVE  FollowsLog(log, fsm[n], i)
    <3>1. \A j \in 1..i : log[j].type # "assign"
      BY <1>1, <2>2, <2>4
    <3> QED
      BY <2>4, <3>1 DEF FollowsLog
  <2>5. FollowsLog(log, fsm[n], i)
    BY <2>1, <2>3, <2>4 DEF FollowsLog
  <2> QED
    BY <1>1, <1>5, <2>5
<1> QED
  BY <1>1, <1>4, <1>5

LEMMA FollowsInit == Init => FsmFollowsLog
<1> SUFFICES ASSUME Init, NEW n \in Node
             PROVE  NodeFollows(log, fsm[n], applied[n], snap[n])
  BY DEF FsmFollowsLog, NodeFollows
<1>1. log = <<>> /\ fsm[n] = InitialFsm(n) /\ applied[n] = 0
  BY DEF Init, RaftInit
<1>2. snap[n].index = 0 /\ snap[n].fsm = InitialFsm(n)
  BY DEF Init
<1> QED
  BY <1>1, <1>2, NothingApplied DEF NodeFollows

\* A step leaves the FSM and the snapshot of a node m alone, or it is one of six.
LEMMA FsmSteps ==
    ASSUME TypeOK, Next, NEW m \in Node
    PROVE  \/ fsm'[m] = fsm[m] /\ applied'[m] = applied[m] /\ snap'[m] = snap[m]
           \/ StartRaft(m) \/ ProcessGone(m) \/ ApplyAssign(m) \/ ApplyCommand(m)
           \/ TakeSnapshot(m) \/ InstallSnapshot(m)
<1> DEFINE Untouched == fsm'[m] = fsm[m] /\ applied'[m] = applied[m] /\ snap'[m] = snap[m]
<1>1. ASSUME NEW n \in Node, n # m,
             \/ StartRaft(n) \/ ProcessGone(n) \/ ApplyAssign(n) \/ ApplyCommand(n)
             \/ TakeSnapshot(n) \/ InstallSnapshot(n)
      PROVE  Untouched
  BY <1>1 DEF TypeOK, FsmTypeOK, StartRaft, Restore, ProcessGone, ApplyAssign, ApplyCommand, CanApply,
              TakeSnapshot, InstallSnapshot
<1>2. ASSUME NEW n \in Node, NEW t \in Thread, Propose(n, t) \/ EnqueueTimesOut(n, t)
      PROVE  UNCHANGED <<fsm, applied, snap>>
  BY <1>2 DEF Propose, EnqueueTimesOut, fsmVars
<1>3. \/ UNCHANGED <<fsm, applied, snap>>
      \/ \E n \in Node :
            \/ StartRaft(n) \/ ProcessGone(n) \/ ApplyAssign(n) \/ ApplyCommand(n)
            \/ TakeSnapshot(n) \/ InstallSnapshot(n)
  BY <1>2
  DEF Next, StartGossip, StartRaftFails, WireHandlers, StopRaft, StopGossip, Crash, NotifyJoin,
      NotifyLeave, JoinServer, RemoveServer, ChangeDone, ChangeFails, InitLeader, InitRebalance,
      Replicate, ReplicateOk, ReplicateFails, OnApply, RaftElect, RaftLoseLeadership,
      RaftLeaseExpires, RaftCommit, fsmVars
<1> QED
  BY <1>1, <1>3

LEMMA FollowsNext == TypeOK /\ FsmFollowsLog /\ [Next]_vars => FsmFollowsLog'
<1> SUFFICES ASSUME TypeOK, FsmFollowsLog, Next, NEW m \in Node
             PROVE  NodeFollows(log', fsm'[m], applied'[m], snap'[m])
  <2>1. CASE UNCHANGED vars
    BY <2>1 DEF FsmFollowsLog, FollowsLog, InitialFsm, vars, raftVars, fsmVars
  <2> QED
    BY <2>1 DEF FsmFollowsLog, NodeFollows
<1>1. CASE fsm'[m] = fsm[m] /\ applied'[m] = applied[m] /\ snap'[m] = snap[m]
  BY <1>1, UntouchedFollows
<1>2. CASE StartRaft(m)
  BY <1>2, RestoredFollows DEF TypeOK, FsmTypeOK, StartRaft, Restore
<1>3. CASE ProcessGone(m)
  <2>1. fsm'[m] = InitialFsm(m) /\ applied'[m] = 0 /\ snap'[m] = snap[m]
    BY <1>3 DEF TypeOK, FsmTypeOK, ProcessGone
  <2>2. snap[m].index \in Nat /\ snap[m].index <= Len(log) /\ FollowsLog(log, snap[m].fsm, snap[m].index)
    BY DEF TypeOK, FsmTypeOK, FsmFollowsLog
  <2>3. FollowsLog(log', snap[m].fsm, snap[m].index) /\ snap[m].index <= Len(log')
    BY <2>2, LogGrows, PrefixKeepsMeaning
  <2>4. 0 <= Len(log')
    BY LogGrows
  <2> QED
    BY <2>1, <2>3, <2>4, NothingApplied DEF NodeFollows
<1>4. CASE ApplyAssign(m) \/ ApplyCommand(m)
  <2>1. PICK i \in DOMAIN log, type \in {"assign", "command"} :
            /\ CanApply(m, i, type)
            /\ type = "assign" => fsm' = [fsm EXCEPT ![m] = log[i].assignment]
            /\ type = "command" => UNCHANGED fsm
    BY <1>4 DEF ApplyAssign, ApplyCommand
  <2>2. applied'[m] = i
    BY <2>1 DEF TypeOK, FsmTypeOK, CanApply
  <2>3. log' = log /\ snap' = snap
    BY <1>4 DEF ApplyAssign, ApplyCommand, raftVars
  <2>4. i \in Nat /\ i <= Len(log) /\ FollowsLog(log, fsm'[m], i)
    <3>1. fsm'[m] = IF type = "assign" THEN log[i].assignment ELSE fsm[m]
      BY <2>1 DEF TypeOK, FsmTypeOK
    <3> QED
      BY <2>1, <3>1, ApplyFollows
  <2> QED
    BY <2>2, <2>3, <2>4 DEF NodeFollows, FsmFollowsLog
<1>5. CASE TakeSnapshot(m)
  <2>1. snap'[m] = [index |-> applied[m], fsm |-> fsm[m]] /\ UNCHANGED <<log, fsm, applied>>
    BY <1>5 DEF TypeOK, FsmTypeOK, TakeSnapshot, raftVars
  <2> QED
    BY <2>1 DEF NodeFollows, FsmFollowsLog
<1>6. CASE InstallSnapshot(m)
  <2>1. leader \in Node
    BY <1>6 DEF TypeOK, RaftTypeOK, InstallSnapshot
  <2>2. fsm'[m] = snap[leader].fsm /\ applied'[m] = snap[leader].index /\ snap'[m] = snap[leader]
    BY <1>6 DEF TypeOK, FsmTypeOK, InstallSnapshot, Restore
  <2> QED
    BY <2>1, <2>2, RestoredFollows
<1> QED
  BY <1>1, <1>2, <1>3, <1>4, <1>5, <1>6, FsmSteps

\* On every node, at any moment - also after a restart, a replay or a snapshot -
\* the shard map and the snapshot on disk are the last assignment of the log
\* prefix the node claims to have applied.  TypeOK is the strengthening: a node's
\* indices are naturals, so that they name a prefix of the log.
THEOREM FsmAgreesWithLog == Spec => []FsmFollowsLog
<1>1. Init => FsmFollowsLog
  BY FollowsInit
<1>2. TypeOK /\ FsmFollowsLog /\ [Next]_vars => FsmFollowsLog'
  BY FollowsNext
<1> QED
  BY <1>1, <1>2, TypeCorrect, PTL DEF Spec

=============================================================================
