----------------------- MODULE PartitionedSafetyProofs -----------------------
(***************************************************************************)
(* The rest of the safety of the partitioned cluster, for any nodes,       *)
(* configured totals, commands and bounds: nobody falls back behind an     *)
(* assignment it has followed, handlers run in log order, acknowledged     *)
(* commands are committed, the leader stays in its configuration, every    *)
(* assignment deals the shards out evenly, and readers of the shard map    *)
(* get what the log says.                                                  *)
(***************************************************************************)
EXTENDS PartitionedClusterProofs, OwnerLookup

\* A process that has not reached NewRaft has applied and delivered nothing.
FreshProcess ==
    \A n \in Node : phase[n] \in {"down", "gossip"} => applied[n] = 0 /\ delivered[n] = <<>>

\* The steps that move a node's place in the log, or what it gave to its handler.
Moves(n) ==
    \/ StartRaft(n) \/ ProcessGone(n) \/ ApplyAssign(n) \/ ApplyCommand(n)
    \/ TakeSnapshot(n) \/ InstallSnapshot(n)

\* In every step at most one node moves.
LEMMA OneNodeMoves ==
    ASSUME TypeOK, Next
    PROVE  UNCHANGED <<fsm, applied, delivered>> \/ \E n \in Node : Moves(n)
<1>1. ASSUME NEW n \in Node, NEW t \in Thread, Propose(n, t) \/ EnqueueTimesOut(n, t)
      PROVE  UNCHANGED <<fsm, applied, delivered>>
  BY <1>1 DEF Propose, EnqueueTimesOut, fsmVars
<1> QED
  BY <1>1
  DEF Moves, Next, StartGossip, StartRaftFails, WireHandlers, StopRaft, StopGossip, Crash, NotifyJoin,
      NotifyLeave, JoinServer, RemoveServer, ChangeDone, ChangeFails, InitLeader, InitRebalance,
      Replicate, ReplicateOk, ReplicateFails, OnApply, RaftElect, RaftLoseLeadership,
      RaftLeaseExpires, RaftCommit, fsmVars

\* The other nodes stay where they are.
LEMMA OthersStay ==
    ASSUME TypeOK, NEW n \in Node, Moves(n), NEW m \in Node, m # n
    PROVE  fsm'[m] = fsm[m] /\ applied'[m] = applied[m] /\ delivered'[m] = delivered[m]
  BY DEF TypeOK, FsmTypeOK, Moves, StartRaft, Restore, ProcessGone, ApplyAssign, ApplyCommand, CanApply,
         TakeSnapshot, InstallSnapshot

\* A node moves forward, unless its process ends; before that it is past NewRaft,
\* or it is at the beginning.
LEMMA NodeMovesForward ==
    ASSUME TypeOK, FreshProcess, NEW n \in Node, Moves(n)
    PROVE  applied'[n] = 0 \/ applied'[n] >= applied[n]
<1>1. applied[n] \in Nat /\ \A m \in Node : snap[m].index \in Nat
  BY DEF TypeOK, FsmTypeOK
<1>2. CASE StartRaft(n)
  <2>1. applied[n] = 0 /\ applied'[n] = snap[n].index
    BY <1>2 DEF FreshProcess, StartRaft, Restore, TypeOK, FsmTypeOK
  <2> QED
    BY <1>1, <2>1
<1>3. CASE ProcessGone(n)
  BY <1>3 DEF ProcessGone, TypeOK, FsmTypeOK
<1>4. CASE ApplyAssign(n) \/ ApplyCommand(n)
  <2>1. PICK i \in DOMAIN log : applied[n] < i /\ applied'[n] = i
    BY <1>4 DEF ApplyAssign, ApplyCommand, CanApply, TypeOK, FsmTypeOK
  <2>2. i \in Nat
    BY DEF TypeOK, RaftTypeOK
  <2> QED
    BY <1>1, <2>1, <2>2
<1>5. CASE TakeSnapshot(n)
  BY <1>1, <1>5 DEF TakeSnapshot
<1>6. CASE InstallSnapshot(n)
  <2>1. leader \in Node /\ snap[leader].index > applied[n] /\ applied'[n] = snap[leader].index
    BY <1>6 DEF InstallSnapshot, Restore, TypeOK, FsmTypeOK, RaftTypeOK
  <2> QED
    BY <1>1, <2>1
<1> QED
  BY <1>2, <1>3, <1>4, <1>5, <1>6 DEF Moves

LEMMA FreshInit == Init => FreshProcess
  BY DEF Init, FreshProcess

LEMMA FreshNext == TypeOK /\ FreshProcess /\ [Next]_vars => FreshProcess'
<1> SUFFICES ASSUME TypeOK, FreshProcess, Next, NEW m \in Node, phase'[m] \in {"down", "gossip"}
             PROVE  applied'[m] = 0 /\ delivered'[m] = <<>>
  BY DEF FreshProcess, vars, nodeVars, fsmVars
<1>1. CASE ProcessGone(m)
  BY <1>1 DEF ProcessGone, TypeOK, FsmTypeOK
<1>2. CASE ~ProcessGone(m)
  <2>1. phase[m] \in {"down", "gossip"}
    BY <1>2 DEF TypeOK, NodeTypeOK, Next, StartGossip, StartRaft, StartRaftFails, WireHandlers, StopRaft,
         StopGossip, ProcessGone, Crash, NotifyJoin,
         NotifyLeave, JoinServer, RemoveServer, ChangeDone, ChangeFails, InitLeader, InitRebalance,
         EnqueueTimesOut, Propose, Replicate, ReplicateOk, ReplicateFails, OnApply, ApplyAssign,
         ApplyCommand, TakeSnapshot, InstallSnapshot, RaftElect, RaftLoseLeadership, RaftLeaseExpires, RaftCommit, nodeVars
  <2>2. ~Moves(m)
    <3>1. phase'[m] = "raft" \/ ~StartRaft(m)
      BY DEF StartRaft, TypeOK, NodeTypeOK
    <3>2. m \notin RaftUp
      BY <2>1 DEF RaftUp
    <3> QED
      BY <1>2, <3>1, <3>2 DEF Moves, ApplyAssign, ApplyCommand, CanApply, TakeSnapshot, InstallSnapshot
  <2>3. applied'[m] = applied[m] /\ delivered'[m] = delivered[m]
    BY <2>2, OneNodeMoves, OthersStay
  <2> QED
    BY <2>1, <2>3 DEF FreshProcess
<1> QED
  BY <1>1, <1>2

LEMMA FreshHolds == Spec => []FreshProcess
<1>1. Init => FreshProcess
  BY FreshInit
<1>2. TypeOK /\ FreshProcess /\ [Next]_vars => FreshProcess'
  BY FreshNext
<1> QED
  BY <1>1, <1>2, TypeCorrect, PTL DEF Spec

-----------------------------------------------------------------------------
\* The last assignment of a log prefix is the one the FSM holds.
LEMMA LastDecisionIsHeld ==
    ASSUME NEW l, NEW f, NEW a \in Nat, FollowsLog(l, f, a),
           NEW k \in 1..a, l[k].type = "assign", \A j \in 1..a : j > k => l[j].type # "assign"
    PROVE  f = l[k].assignment
<1>1. PICK i \in 1..a : /\ l[i].type = "assign"
                        /\ l[i].assignment = f
                        /\ \A j \in 1..a : j > i => l[j].type # "assign"
  BY DEF FollowsLog
<1>2. i = k
  BY <1>1
<1> QED
  BY <1>1, <1>2

\* A step decides nothing, or it is a Decide of the directory: nobody can have
\* followed an assignment beyond the end of the log.
LEMMA StepDecides ==
    ASSUME TypeOK, FsmFollowsLog, Next
    PROVE  \/ Decisions' = Decisions /\ DecidedAssignments' = DecidedAssignments
           \/ Directory!Decide
<1>1. log \in Seq(EntryType) /\ pending \in Seq(EntryType) /\ Len(log) \in Nat
  BY DEF TypeOK, RaftTypeOK
<1>2. \A j \in 1..Len(log) : log'[j] = log[j]
  BY LogGrows
<1>3. CASE UNCHANGED log
  BY <1>3 DEF Decisions, DecidedAssignments
<1>4. CASE \E n \in Node : BootstrapLog(n)
  <2>1. UNCHANGED log \/ (log = <<>> /\ \E n \in Node : log' = <<ConfigEntry({n})>>)
    BY <1>4 DEF BootstrapLog
  <2>2. Decisions' = Decisions
    BY <2>1 DEF Decisions, ConfigEntry
  <2>3. Decisions' = Decisions /\ \A i \in Decisions : log'[i] = log[i]
    BY <1>1, <1>2, <2>2 DEF Decisions
  <2> QED
    BY <2>3 DEF DecidedAssignments
<1>5. CASE RaftCommit
  <2> DEFINE e == Head(pending)
             k == Len(log) + 1
  <2>1. log' = Append(log, e) /\ UNCHANGED <<fsm, applied>>
    BY <1>5 DEF RaftCommit, Commit, fsmVars
  <2>2. DOMAIN log' = DOMAIN log \cup {k} /\ log'[k] = e /\ \A j \in DOMAIN log : log'[j] = log[j] /\ j < k
    BY <1>1, <2>1
  <2>3. CASE e.type # "assign"
    <3>1. Decisions' = Decisions
      BY <2>2, <2>3 DEF Decisions
    <3> QED
      BY <2>2, <3>1 DEF Decisions, DecidedAssignments
  <2>4. CASE e.type = "assign"
    <3>1. Decisions' = Decisions \cup {k} /\ \A j \in Decisions : j < k
      BY <2>2, <2>4 DEF Decisions
    <3>2. DOMAIN DecidedAssignments = Decisions /\ (DOMAIN DecidedAssignments)' = Decisions \cup {k}
      BY <3>1 DEF DecidedAssignments
    <3>3. \A j \in Decisions : DecidedAssignments'[j] = DecidedAssignments[j]
      BY <2>2, <3>1 DEF Decisions, DecidedAssignments
    <3>4. \A n \in Node : applied[n] \in Nat /\ ~(k <= applied[n])
      BY <1>1 DEF TypeOK, FsmTypeOK, FsmFollowsLog
    <3>5. Followed' = Followed
      BY <2>1, <3>1, <3>4 DEF Followed
    <3> QED
      BY <2>1, <3>1, <3>2, <3>3, <3>5 DEF Directory!Decide
  <2> QED
    BY <2>3, <2>4
<1>6. UNCHANGED log \/ (\E n \in Node : BootstrapLog(n)) \/ RaftCommit
  BY LogSteps
<1> QED
  BY <1>3, <1>4, <1>5, <1>6

\* A step that moves node n follows the directory: to a later assignment, back to
\* none, or not at all.
LEMMA MoveFollows ==
    ASSUME TypeOK, FsmFollowsLog, FsmFollowsLog', FreshProcess, NEW n \in Node, Moves(n),
           TypeOK', Decisions' = Decisions, DecidedAssignments' = DecidedAssignments
    PROVE  Directory!Follow(n) \/ Directory!Restart(n) \/ UNCHANGED <<Followed, fsm>>
<1> DEFINE a == applied[n]
           b == applied'[n]
           InPrefix(x) == {i \in Decisions : i <= x}
<1>1. a \in Nat /\ b \in Nat /\ Len(log) \in Nat /\ Len(log') \in Nat
  <2>1. applied \in [Node -> Nat] /\ log \in Seq(EntryType)
    BY DEF TypeOK, FsmTypeOK, RaftTypeOK
  <2>2. applied' \in [Node -> Nat] /\ log' \in Seq(EntryType)
    BY DEF TypeOK, FsmTypeOK, RaftTypeOK, EntryType, AssignmentType, Totals
  <2>3. a \in Nat /\ b \in Nat
    BY <2>1, <2>2
  <2> QED
    BY <2>1, <2>2, <2>3
<1>2. FollowsLog(log, fsm[n], a) /\ a <= Len(log) /\ FollowsLog(log', fsm'[n], b) /\ b <= Len(log')
  BY DEF FsmFollowsLog, FollowsLog, InitialFsm
<1>3. Decisions = {i \in 1..Len(log) : log[i].type = "assign"}
      /\ Decisions = {i \in 1..Len(log') : log'[i].type = "assign"}
  <2>1. log \in Seq(EntryType) /\ log' \in Seq(EntryType)
    BY DEF TypeOK, RaftTypeOK, EntryType, AssignmentType, Totals
  <2>2. DOMAIN log = 1..Len(log) /\ DOMAIN log' = 1..Len(log')
    BY <2>1
  <2> QED
    BY <2>2 DEF Decisions
<1>4. \A i \in Decisions : log'[i].assignment = log[i].assignment /\ DecidedAssignments[i] = log[i].assignment
  BY DEF DecidedAssignments
<1>5. /\ fsm' = [fsm EXCEPT ![n] = fsm'[n]]
      /\ Followed' = [Followed EXCEPT ![n] = InPrefix(b)]
      /\ Followed[n] = InPrefix(a)
  <2>1. fsm' = [fsm EXCEPT ![n] = fsm'[n]]
    BY OthersStay DEF TypeOK, FsmTypeOK
  <2>2. Followed' = [Followed EXCEPT ![n] = InPrefix(b)]
    BY OthersStay DEF Followed
  <2> QED
    BY <2>1, <2>2 DEF Followed
<1>6. CASE InPrefix(b) = {}
  <2>1. \E m \in Node : fsm'[n] = InitialFsm(m)
    BY <1>1, <1>2, <1>3, <1>6 DEF FollowsLog
  <2> QED
    BY <1>5, <1>6, <2>1 DEF Directory!Restart
<1>7. CASE InPrefix(b) # {}
  <2>1. PICK k \in 1..b : /\ log'[k].type = "assign"
                          /\ log'[k].assignment = fsm'[n]
                          /\ \A j \in 1..b : j > k => log'[j].type # "assign"
    BY <1>1, <1>2, <1>3, <1>7 DEF FollowsLog
  <2>2. k \in Decisions /\ fsm'[n] = DecidedAssignments[k] /\ InPrefix(b) = InPrefix(k)
    BY <1>1, <1>2, <1>3, <1>4, <2>1
  <2>3. CASE a < k
    <3>1. k \in DOMAIN DecidedAssignments \ Followed[n] /\ \A i \in Followed[n] : i < k
      BY <1>1, <1>5, <2>2, <2>3 DEF DecidedAssignments, Decisions
    <3>2. {i \in DOMAIN DecidedAssignments : i <= k} = InPrefix(k)
      BY DEF DecidedAssignments
    <3> QED
      BY <1>5, <2>2, <3>1, <3>2 DEF Directory!Follow
  <2>4. CASE k <= a
    <3>1. a <= b
      BY <1>1, <2>1, NodeMovesForward
    <3>2. \A j \in 1..a : j > k => log[j].type # "assign"
      BY <1>1, <1>2, <1>3, <2>1, <3>1
    <3>3. fsm[n] = log[k].assignment
      BY <1>1, <1>2, <1>3, <2>2, <2>4, <3>2, LastDecisionIsHeld
    <3>4. InPrefix(a) = InPrefix(k)
      BY <1>1, <1>2, <1>3, <2>4, <3>2
    <3>5. fsm'[n] = fsm[n] /\ Followed[n] = InPrefix(b)
      BY <1>4, <1>5, <2>2, <3>3, <3>4
    <3>6. fsm' = fsm
      BY <1>5, <3>5 DEF TypeOK, FsmTypeOK
    <3>7. Followed' = Followed
      BY <1>5, <3>5 DEF Followed
    <3> QED
      BY <3>6, <3>7
  <2> QED
    BY <1>1, <2>3, <2>4
<1> QED
  BY <1>6, <1>7

LEMMA InitIsDirectoryInit == Init => Directory!Init
  BY DEF Init, RaftInit, Directory!Init, Followed, DecidedAssignments, Decisions

DirectoryInv == TypeOK /\ FsmFollowsLog /\ FreshProcess

LEMMA StepIsDirectoryStep == DirectoryInv /\ DirectoryInv' /\ [Next]_vars => [Directory!Next]_(Directory!vars)
<1> SUFFICES ASSUME DirectoryInv, DirectoryInv', Next
             PROVE  [Directory!Next]_(Directory!vars)
  BY DEF vars, raftVars, fsmVars, Directory!vars, Followed, DecidedAssignments, Decisions
<1>1. CASE Directory!Decide
  BY <1>1 DEF Directory!Next
<1>2. CASE Decisions' = Decisions /\ DecidedAssignments' = DecidedAssignments
  <2>1. CASE UNCHANGED <<fsm, applied, delivered>>
    BY <1>2, <2>1 DEF Directory!vars, Followed
  <2>2. CASE \E n \in Node : Moves(n)
    BY <1>2, <2>2, MoveFollows DEF DirectoryInv, Directory!Next, Directory!vars
  <2> QED
    BY <2>1, <2>2, OneNodeMoves DEF DirectoryInv
<1> QED
  BY <1>1, <1>2, StepDecides DEF DirectoryInv

\* The cluster implements ShardDirectory: assignments are decided once and for
\* good, and a running node never falls back behind one it has followed, whatever
\* the order of applies, replays, snapshots and elections.  It rests on the
\* agreement of shard map and log before and after the step, and on a process
\* that starts Raft having applied nothing yet.
THEOREM ClusterImplementsDirectory == Spec => ImplementsDirectory
<1>1. DirectoryInv /\ DirectoryInv' /\ [Next]_vars => [Directory!Next]_(Directory!vars)
  BY StepIsDirectoryStep
<1>2. Spec => []DirectoryInv
  BY TypeCorrect, FsmAgreesWithLog, FreshHolds, PTL DEF DirectoryInv
<1> QED
  BY <1>1, <1>2, InitIsDirectoryInit, PTL DEF Spec, ImplementsDirectory, Directory!Spec

-----------------------------------------------------------------------------
\* The sequence d of log places given to a handler is right for the log l and a
\* node that has applied it up to a.
GivenInOrder(l, d, a) ==
    /\ \A i \in DOMAIN d : d[i] \in 1..a /\ l[d[i]].type = "command"
    /\ \A i, j \in DOMAIN d : i < j => d[i] < d[j]

DeliveryInOrder == \A n \in Node : GivenInOrder(log, delivered[n], applied[n])

\* What was right stays right when the log grows and the node moves forward.
LEMMA OrderSurvivesGrowth ==
    ASSUME TypeOK, Next, FsmFollowsLog, DeliveryInOrder, NEW m \in Node, NEW a \in Nat, applied[m] <= a
    PROVE  GivenInOrder(log', delivered[m], a)
<1>1. applied[m] \in Nat /\ applied[m] <= Len(log) /\ Len(log) \in Nat
  BY DEF TypeOK, FsmTypeOK, RaftTypeOK, FsmFollowsLog
<1>2. \A j \in 1..Len(log) : log'[j] = log[j]
  BY LogGrows
<1>3. \A j \in 1..applied[m] : j \in 1..a /\ log'[j] = log[j]
  BY <1>1, <1>2
<1> QED
  BY <1>3 DEF DeliveryInOrder, GivenInOrder

\* Nothing given is always in order: a process that starts, or has ended.
LEMMA NothingGiven == \A l, a : GivenInOrder(l, <<>>, a)
  BY DEF GivenInOrder

\* A command that is given next comes after all that were given.
LEMMA GiveNext ==
    ASSUME NEW l, NEW d \in Seq(Nat), NEW a \in Nat, NEW i \in Nat, a < i, l[i].type = "command",
           GivenInOrder(l, d, a)
    PROVE  GivenInOrder(l, Append(d, i), i)
<1> DEFINE e == Append(d, i)
<1>1. Len(d) \in Nat /\ DOMAIN e = 1..(Len(d) + 1) /\ e[Len(d) + 1] = i
  BY AppendProperties
<1>2. \A j \in 1..Len(d) : e[j] = d[j] /\ d[j] \in 1..a /\ l[d[j]].type = "command"
  BY AppendProperties DEF GivenInOrder
<1>3. \A j \in DOMAIN e : e[j] \in 1..i /\ l[e[j]].type = "command"
  BY <1>1, <1>2
<1>4. ASSUME NEW j \in DOMAIN e, NEW k \in DOMAIN e, j < k PROVE e[j] < e[k]
  <2>1. j \in 1..Len(d) /\ (k \in 1..Len(d) \/ k = Len(d) + 1)
    BY <1>1, <1>4
  <2>2. CASE k \in 1..Len(d)
    BY <1>2, <1>4, <2>1, <2>2 DEF GivenInOrder
  <2>3. CASE k = Len(d) + 1
    BY <1>1, <1>2, <2>1, <2>3
  <2> QED
    BY <2>1, <2>2, <2>3
<1> QED
  BY <1>3, <1>4 DEF GivenInOrder

LEMMA DeliveryInit == Init => DeliveryInOrder
  BY NothingGiven DEF Init, DeliveryInOrder

\* A step that moves node m keeps what it gave in order.
LEMMA MoveKeepsOrder ==
    ASSUME TypeOK, Next, FsmFollowsLog, FreshProcess, DeliveryInOrder, NEW m \in Node, Moves(m)
    PROVE  GivenInOrder(log', delivered'[m], applied'[m])
<1>1. applied[m] \in Nat /\ delivered[m] \in Seq(Nat) /\ applied'[m] \in Nat
  BY TypeNext DEF TypeOK, FsmTypeOK
<1>2. CASE StartRaft(m)
  <2>1. delivered'[m] = <<>>
    BY <1>2 DEF StartRaft, FreshProcess
  <2> QED
    BY <2>1, NothingGiven
<1>3. CASE ProcessGone(m)
  <2>1. delivered'[m] = <<>>
    BY <1>3 DEF ProcessGone, TypeOK, FsmTypeOK
  <2> QED
    BY <2>1, NothingGiven
<1>4. CASE ApplyCommand(m)
  <2>1. PICK i \in DOMAIN log :
            /\ applied[m] < i /\ log[i].type = "command"
            /\ applied' = [applied EXCEPT ![m] = i]
            /\ delivered' = IF m \in registered
                            THEN [delivered EXCEPT ![m] = Append(@, i)]
                            ELSE delivered
    BY <1>4 DEF ApplyCommand, CanApply
  <2>2. i \in Nat /\ log' = log /\ applied'[m] = i
    BY <1>4, <2>1 DEF ApplyCommand, raftVars, TypeOK, RaftTypeOK, FsmTypeOK
  <2>3. delivered'[m] = Append(delivered[m], i) \/ delivered'[m] = delivered[m]
    BY <2>1 DEF TypeOK, FsmTypeOK
  <2>4. GivenInOrder(log, delivered[m], applied[m])
    BY DEF DeliveryInOrder
  <2>5. GivenInOrder(log', delivered[m], i)
    BY <1>1, <2>1, <2>2, OrderSurvivesGrowth
  <2> QED
    BY <1>1, <2>1, <2>2, <2>3, <2>4, <2>5, GiveNext
<1>5. CASE ApplyAssign(m) \/ TakeSnapshot(m) \/ InstallSnapshot(m)
  <2>1. delivered'[m] = delivered[m]
    BY <1>5 DEF ApplyAssign, TakeSnapshot, InstallSnapshot
  <2>2. applied[m] <= applied'[m]
    <3>1. CASE ApplyAssign(m)
      <4>1. PICK i \in DOMAIN log : applied[m] < i /\ applied' = [applied EXCEPT ![m] = i]
        BY <3>1 DEF ApplyAssign, CanApply
      <4> QED
        BY <1>1, <4>1 DEF TypeOK, FsmTypeOK
    <3>2. CASE TakeSnapshot(m)
      BY <1>1, <3>2 DEF TakeSnapshot
    <3>3. CASE InstallSnapshot(m)
      BY <1>1, <3>3 DEF InstallSnapshot, Restore, TypeOK, FsmTypeOK
    <3> QED
      BY <1>5, <3>1, <3>2, <3>3
  <2> QED
    BY <1>1, <2>1, <2>2, OrderSurvivesGrowth
<1> QED
  BY <1>2, <1>3, <1>4, <1>5 DEF Moves

LEMMA DeliveryNext ==
    TypeOK /\ FsmFollowsLog /\ FreshProcess /\ DeliveryInOrder /\ [Next]_vars => DeliveryInOrder'
<1> SUFFICES ASSUME TypeOK, FsmFollowsLog, FreshProcess, DeliveryInOrder, Next, NEW m \in Node
             PROVE  GivenInOrder(log', delivered'[m], applied'[m])
  BY DEF DeliveryInOrder, GivenInOrder, vars, raftVars, fsmVars
<1>1. CASE Moves(m)
  BY <1>1, MoveKeepsOrder
<1>2. CASE ~Moves(m)
  <2>1. delivered'[m] = delivered[m] /\ applied'[m] = applied[m]
    BY <1>2, OneNodeMoves, OthersStay
  <2>2. applied[m] \in Nat
    BY DEF TypeOK, FsmTypeOK
  <2> QED
    BY <2>1, <2>2, OrderSurvivesGrowth
<1> QED
  BY <1>1, <1>2

\* A process gives its handler the commands in log order, and none twice, also
\* when a replay or an installed snapshot moves its place in the log.  The
\* strengthening says that the places given lie in the applied prefix, and that
\* NewRaft restores a snapshot only where nothing was given yet.
THEOREM CommandsRunInLogOrder == Spec => []HandlersRunInLogOrder
<1>1. Init => DeliveryInOrder
  BY DeliveryInit
<1>2. TypeOK /\ FsmFollowsLog /\ FreshProcess /\ DeliveryInOrder /\ [Next]_vars => DeliveryInOrder'
  BY DeliveryNext
<1>3. TypeOK /\ DeliveryInOrder => HandlersRunInLogOrder
  <2> SUFFICES ASSUME TypeOK, DeliveryInOrder, NEW n \in Node
               PROVE  GivenInOrder(log, delivered[n], applied[n]) /\ applied[n] \in Nat
    BY DEF GivenInOrder, HandlersRunInLogOrder
  <2> QED
    BY DEF DeliveryInOrder, TypeOK, FsmTypeOK
<1> QED
  BY <1>1, <1>2, <1>3, TypeCorrect, FsmAgreesWithLog, FreshHolds, PTL DEF Spec

-----------------------------------------------------------------------------
\* Before the first configuration is written nobody leads and nothing is pending.
NoLogNoLeader == log = <<>> => leader = None /\ pending = <<>>

\* Gossip tells a node of its peers only.
PeersOnly ==
    \A n \in Node : n \notin view[n] /\ (job[n]["events"].at = "leave" => job[n]["events"].who # n)

LeaderInv == NoLogNoLeader /\ PeersOnly /\ LeaderIsServer

\* The assignments rebalance proposes: of a configuration with servers, up to any
\* bound the unlocked shard loop may end at.
IsProposal(a) ==
    \E S \in (SUBSET Node) \ {{}}, old \in Totals, total \in Totals :
        \E size \in LoopBounds(old, total) : a = Assignment(S, size, total)

\* The leader appends e: a command, a proposal of rebalance, or a configuration
\* that the leader is in.
LeaderAppends(e) ==
    /\ leader \in Node
    /\ AppendEntry(e)
    /\ e.type = "assign" => IsProposal(e.assignment)
    /\ e.type = "config" => e.servers \in SUBSET Node /\ leader \in e.servers

\* What a step can do to the state of Raft.
RaftChanges ==
    \/ leader' \in {leader, None} /\ UNCHANGED <<term, log, pending>>
    \/ \E n \in Node : BootstrapLog(n)
    \/ \E e \in EntryType : LeaderAppends(e)
    \/ \E n \in Node : Elect(n, RaftUp)
    \/ Commit(RaftUp)

LEMMA ServersChange ==
    ASSUME TypeOK, NEW n \in Node, NEW S \in SUBSET Node, ChangeServers(n, S), leader = n => n \in S
    PROVE  RaftChanges
<1>1. ConfigEntry(S) \in EntryType
  BY DEF ConfigEntry, EntryType
<1> QED
  BY <1>1 DEF ChangeServers, IsLeader, RaftChanges, LeaderAppends, ConfigEntry, raftVars

LEMMA RaftSteps ==
    ASSUME TypeOK, PeersOnly, LeaderIsServer, Next
    PROVE  RaftChanges
<1>1. ASSUME NEW n \in Node, JoinServer(n) PROVE RaftChanges
  <2> DEFINE j == job[n]["events"]
  <2>1. j \in JobType /\ j.at = "join"
    BY <1>1 DEF TypeOK, NodeTypeOK, JoinServer, Thread
  <2>2. j.who \in Node
    BY <2>1 DEF JobType
  <2>3. LatestServers \cup {j.who} \in SUBSET Node
    BY <2>2, LatestServersType
  <2>4. leader = n => n \in LatestServers
    BY NodeAssumption DEF LeaderIsServer
  <2> QED
    BY <1>1, <2>3, <2>4, ServersChange DEF JoinServer, RaftChanges, raftVars
<1>2. ASSUME NEW n \in Node, RemoveServer(n) PROVE RaftChanges
  <2>1. LatestServers \ {job[n]["events"].who} \in SUBSET Node
    BY LatestServersType
  <2>2. leader = n => n \in LatestServers \ {job[n]["events"].who}
    BY <1>2, NodeAssumption DEF LeaderIsServer, PeersOnly, RemoveServer
  <2> QED
    BY <1>2, <2>1, <2>2, ServersChange DEF RemoveServer
<1>3. ASSUME NEW n \in Node, NEW t \in Thread, Propose(n, t) PROVE RaftChanges
  <2>1. CASE IsLeader(n)
    <3> DEFINE j == job[n][t]
    <3>1. j \in JobType /\ j.at = "propose" /\ fsm[n].total \in Totals
      BY <1>3 DEF TypeOK, NodeTypeOK, FsmTypeOK, AssignmentType, Propose
    <3>2. j.servers \in SUBSET Node /\ j.servers # {} /\ j.size \in Totals
      BY <3>1 DEF JobType
    <3>3. PICK size \in LoopBounds(j.size, fsm[n].total) :
              AppendEntry(AssignEntry(Assignment(j.servers, size, fsm[n].total)))
      BY <1>3, <2>1 DEF Propose
    <3>4. AssignEntry(Assignment(j.servers, size, fsm[n].total)) \in EntryType
      BY <3>1, <3>2, AssignmentHasType DEF AssignEntry, EntryType
    <3>5. IsProposal(Assignment(j.servers, size, fsm[n].total))
      BY <3>1, <3>2, <3>3 DEF IsProposal
    <3> QED
      BY <2>1, <3>3, <3>4, <3>5 DEF RaftChanges, LeaderAppends, IsLeader, AssignEntry
  <2>2. CASE ~IsLeader(n)
    BY <1>3, <2>2 DEF Propose, RaftChanges, raftVars
  <2> QED
    BY <2>1, <2>2
<1>4. ASSUME NEW n \in Node, NEW c \in Command, Replicate(n, c) PROVE RaftChanges
  <2>1. CommandEntry(c) \in EntryType
    BY DEF CommandEntry, EntryType
  <2> QED
    BY <1>4, <2>1 DEF Replicate, RaftChanges, LeaderAppends, IsLeader, CommandEntry
<1>5. ASSUME NEW n \in Node, StartRaft(n) PROVE RaftChanges
  BY <1>5 DEF StartRaft, RaftChanges, raftVars
<1>6. ASSUME NEW n \in Node, StopRaft(n) \/ Crash(n) PROVE RaftChanges
  BY <1>6 DEF StopRaft, Crash, RaftGone, RaftChanges
<1>7. CASE RaftCommit \/ RaftLoseLeadership \/ RaftLeaseExpires \/ \E n \in Node : RaftElect(n)
  BY <1>7 DEF RaftCommit, RaftLoseLeadership, RaftLeaseExpires, RaftElect, LeaseExpires, LoseLeadership,
              RaftChanges
<1>8. CASE UNCHANGED raftVars
  BY <1>8 DEF RaftChanges, raftVars
<1> QED
  BY <1>1, <1>2, <1>3, <1>4, <1>5, <1>6, <1>7, <1>8
  DEF Next, StartGossip, StartRaftFails, WireHandlers, StopGossip, NotifyJoin, NotifyLeave, ChangeDone,
      ChangeFails, InitLeader, InitRebalance, EnqueueTimesOut, ReplicateOk, ReplicateFails, OnApply,
      ApplyAssign, ApplyCommand, TakeSnapshot, InstallSnapshot

\* An entry at the end of a log changes its servers only if it is a configuration.
LEMMA ServersOfAppend ==
    ASSUME NEW l \in Seq(EntryType), NEW e \in EntryType
    PROVE  /\ e.type # "config" => ServersOf(Append(l, e)) = ServersOf(l)
           /\ e.type = "config" /\ e.servers \in SUBSET Node => ServersOf(Append(l, e)) = e.servers
<1> DEFINE k == Len(l) + 1
           m == Append(l, e)
<1>1. /\ Len(l) \in Nat /\ DOMAIN l = 1..Len(l) /\ DOMAIN m = DOMAIN l \cup {k} /\ m[k] = e
      /\ \A i \in DOMAIN l : m[i] = l[i] /\ i < k /\ i \in Nat
  OBVIOUS
<1>2. CASE e.type # "config"
  <2>1. {i \in DOMAIN m : m[i].type = "config"} = {i \in DOMAIN l : l[i].type = "config"}
    BY <1>1, <1>2
  <2> QED
    BY <1>1, <1>2, <2>1 DEF ServersOf
<1>3. CASE e.type = "config" /\ e.servers \in SUBSET Node
  <2> DEFINE configs == {i \in DOMAIN m : m[i].type = "config"}
  <2>1. k \in configs /\ \A i \in configs : i <= k /\ (k <= i => i = k)
    BY <1>1, <1>3
  <2>2. \A n \in Node : (\E i \in configs : n \in m[i].servers /\ \A j \in configs : j <= i) <=> n \in e.servers
    BY <1>1, <2>1
  <2> QED
    BY <1>3, <2>2 DEF ServersOf
<1> QED
  BY <1>2, <1>3

\* Committing an entry moves it from one part of the leader's log to the other.
LEMMA CommitKeepsServers ==
    ASSUME TypeOK, Commit(RaftUp)
    PROVE  LatestServers' = LatestServers
<1>1. log \in Seq(EntryType) /\ pending \in Seq(EntryType) /\ pending # <<>>
  BY DEF TypeOK, RaftTypeOK, Commit
<1>2. Append(log, Head(pending)) \o Tail(pending) = log \o pending
  BY <1>1
<1> QED
  BY <1>2 DEF Commit, LatestServers

LEMMA NoServersInEmptyLog == ServersOf(<<>> \o <<>>) = {}
<1>1. <<>> \o <<>> = <<>>
  OBVIOUS
<1> QED
  BY <1>1 DEF ServersOf

LEMMA LeaderInit == Init => LeaderInv
  BY NodeAssumption DEF Init, RaftInit, Idle, Thread, LeaderInv, NoLogNoLeader, PeersOnly, LeaderIsServer

\* The gossip half: what a node hears of is never itself.
LEMMA PeersNext ==
    ASSUME TypeOK, PeersOnly, Next
    PROVE  PeersOnly'
<1> SUFFICES ASSUME NEW n \in Node
             PROVE  n \notin view'[n] /\ (job'[n]["events"].at = "leave" => job'[n]["events"].who # n)
  BY DEF PeersOnly
<1> USE DEF TypeOK, NodeTypeOK, Thread, PeersOnly
<1>1. CASE \E m \in Node, p \in Node : NotifyJoin(m, p) \/ NotifyLeave(m, p)
  BY <1>1 DEF NotifyJoin, NotifyLeave, Handle, SetJob
<1>2. CASE UNCHANGED view /\ \E m \in Node, t \in Thread : \E j : j.at # "leave" /\ SetJob(m, t, j)
  BY <1>2 DEF SetJob
<1>3. CASE UNCHANGED <<view, job>>
  BY <1>3
<1>4. CASE \E m \in Node : ProcessGone(m)
  BY <1>4 DEF ProcessGone, Idle
<1>5. CASE \E m \in Node : StartRaftFails(m)
  BY <1>5 DEF StartRaftFails
<1>6. ASSUME NEW m \in Node, JoinServer(m) \/ RemoveServer(m) \/ ChangeDone(m) \/ ChangeFails(m)
             \/ InitLeader(m) \/ InitRebalance(m) \/ StartRaft(m)
             \/ \E t \in Thread : Propose(m, t) \/ EnqueueTimesOut(m, t)
      PROVE  UNCHANGED view /\ (UNCHANGED job \/ \E t \in Thread : \E j : j.at # "leave" /\ SetJob(m, t, j))
  <2>1. /\ Idle.at # "leave" /\ [at |-> "told"].at # "leave" /\ [at |-> "await"].at # "leave"
        /\ \A i, t : [at |-> "changing", index |-> i, term |-> t].at # "leave"
        /\ \A S, k : [at |-> "propose", servers |-> S, size |-> k].at # "leave"
    BY DEF Idle
  <2> QED
    BY <1>6, <2>1 DEF JoinServer, RemoveServer, ChangeServers, ChangeDone, ChangeFails, InitLeader,
                      InitRebalance, Rebalance, StartRaft, Propose, EnqueueTimesOut
<1> QED
  BY <1>1, <1>2, <1>3, <1>4, <1>5, <1>6
  DEF Next, StartGossip, WireHandlers, StopRaft, StopGossip, Crash, Replicate, ReplicateOk, ReplicateFails,
      OnApply, ApplyAssign, ApplyCommand, TakeSnapshot, InstallSnapshot, RaftElect,
      RaftLoseLeadership, RaftLeaseExpires, RaftCommit, nodeVars

\* The Raft half.
LEMMA LeaderStays ==
    ASSUME TypeOK, NoLogNoLeader, LeaderIsServer, RaftChanges
    PROVE  NoLogNoLeader' /\ LeaderIsServer'
<1>1. log \in Seq(EntryType) /\ pending \in Seq(EntryType) /\ log \o pending \in Seq(EntryType)
  BY DEF TypeOK, RaftTypeOK
<1>2. CASE leader' \in {leader, None} /\ UNCHANGED <<term, log, pending>>
  BY <1>2 DEF NoLogNoLeader, LeaderIsServer, LatestServers
<1>3. CASE \E n \in Node : BootstrapLog(n)
  <2>1. CASE log = <<>>
    BY <1>3, <2>1 DEF BootstrapLog, NoLogNoLeader, LeaderIsServer
  <2>2. CASE log # <<>>
    BY <1>3, <2>2 DEF BootstrapLog, NoLogNoLeader, LeaderIsServer, LatestServers
  <2> QED
    BY <2>1, <2>2
<1>4. ASSUME NEW e \in EntryType, LeaderAppends(e) PROVE NoLogNoLeader' /\ LeaderIsServer'
  <2>1. log # <<>>
    BY <1>4, NodeAssumption DEF LeaderAppends, NoLogNoLeader
  <2>2. log' \o pending' = Append(log \o pending, e)
    BY <1>1, <1>4 DEF LeaderAppends, AppendEntry
  <2>3. leader' = leader /\ leader \in LatestServers
    BY <1>4, NodeAssumption DEF LeaderAppends, AppendEntry, LeaderIsServer
  <2>4. leader \in LatestServers'
    BY <1>1, <1>4, <2>2, <2>3, ServersOfAppend DEF LeaderAppends, LatestServers
  <2> QED
    BY <1>4, <2>1, <2>3, <2>4 DEF LeaderAppends, AppendEntry, NoLogNoLeader, LeaderIsServer
<1>5. ASSUME NEW n \in Node, Elect(n, RaftUp) PROVE NoLogNoLeader' /\ LeaderIsServer'
  <2>1. PICK k \in 0..Len(pending) : /\ n \in ServersOf(log \o SubSeq(pending, 1, k))
                                     /\ pending' = SubSeq(pending, 1, k)
    BY <1>5 DEF Elect
  <2>2. leader' = n /\ log' = log
    BY <1>5 DEF Elect
  <2>3. LeaderIsServer'
    BY <2>1, <2>2 DEF LeaderIsServer, LatestServers
  <2>4. log # <<>>
    <3>1. SUFFICES ASSUME log = <<>> PROVE FALSE
      OBVIOUS
    <3>2. pending = <<>> /\ SubSeq(pending, 1, k) = <<>>
      BY <2>1, <3>1 DEF NoLogNoLeader
    <3> QED
      BY <2>1, <3>1, <3>2, NoServersInEmptyLog
  <2> QED
    BY <2>2, <2>3, <2>4 DEF NoLogNoLeader
<1>6. CASE Commit(RaftUp)
  <2>1. LeaderIsServer'
    BY <1>6, CommitKeepsServers DEF Commit, LeaderIsServer
  <2>2. log' # <<>>
    BY <1>1, <1>6 DEF Commit
  <2> QED
    BY <2>1, <2>2 DEF NoLogNoLeader
<1> QED
  BY <1>2, <1>3, <1>4, <1>5, <1>6 DEF RaftChanges

LEMMA LeaderNext == TypeOK /\ LeaderInv /\ [Next]_vars => LeaderInv'
<1> SUFFICES ASSUME TypeOK, LeaderInv, Next PROVE LeaderInv'
  BY DEF LeaderInv, NoLogNoLeader, PeersOnly, LeaderIsServer, LatestServers, vars, raftVars, nodeVars
<1> QED
  BY PeersNext, RaftSteps, LeaderStays DEF LeaderInv

\* No sequence of membership changes takes the leader that makes them out of its
\* own configuration, so rebalance never divides by a configuration of no
\* servers.  It needs that gossip tells nobody of itself, and that there is no
\* leader for BootstrapCluster to surprise.
THEOREM LeaderStaysServer == Spec => []LeaderIsServer
<1>1. Init => LeaderInv
  BY LeaderInit
<1>2. TypeOK /\ LeaderInv /\ [Next]_vars => LeaderInv'
  BY LeaderNext
<1>3. LeaderInv => LeaderIsServer
  BY DEF LeaderInv
<1> QED
  BY <1>1, <1>2, <1>3, TypeCorrect, PTL DEF Spec

-----------------------------------------------------------------------------
\* Entry i of the log a leader keeps: the committed entries l, then the pending p.
EntryAt(l, p, i) == IF i <= Len(l) THEN l[i] ELSE p[i - Len(l)]

\* A call that waits under the present term has its command in the leader's log,
\* where the call says; a call that returned no error has it committed.
CallIsLogged(c) ==
    /\ call[c].at = "waiting" =>
          /\ call[c].term <= term
          /\ call[c].term = term =>
                /\ call[c].index \in 1..(Len(log) + Len(pending))
                /\ EntryAt(log, pending, call[c].index) = CommandEntry(c)
    /\ call[c].at = "ok" => \E i \in DOMAIN log : log[i] = CommandEntry(c)

CallsAreLogged == \A c \in Command : CallIsLogged(c)

LEMMA TermGrows ==
    ASSUME TypeOK, RaftChanges
    PROVE  term' \in Nat /\ term <= term'
<1>1. term \in Nat
  BY DEF TypeOK, RaftTypeOK
<1>2. term' = term \/ term' = term + 1
  BY DEF RaftChanges, BootstrapLog, LeaderAppends, AppendEntry, Elect, Commit
<1> QED
  BY <1>1, <1>2

\* While the term lasts, the leader's log only grows: commits move no entry.
LEMMA EntriesStay ==
    ASSUME TypeOK, NoLogNoLeader, RaftChanges, NEW i \in 1..(Len(log) + Len(pending))
    PROVE  term' = term => i \in 1..(Len(log') + Len(pending')) /\ EntryAt(log', pending', i) = EntryAt(log, pending, i)
<1>1. log \in Seq(EntryType) /\ pending \in Seq(EntryType) /\ term \in Nat
      /\ Len(log) \in Nat /\ Len(pending) \in Nat /\ i \in Nat
  BY DEF TypeOK, RaftTypeOK
<1>2. CASE UNCHANGED <<term, log, pending>>
  BY <1>1, <1>2 DEF EntryAt
<1>3. CASE \E n \in Node : BootstrapLog(n)
  <2>1. log # <<>>
    BY <1>1 DEF NoLogNoLeader
  <2> QED
    BY <1>1, <1>3, <2>1 DEF BootstrapLog, EntryAt
<1>4. CASE \E e \in EntryType : LeaderAppends(e)
  <2>1. PICK e \in EntryType : pending' = Append(pending, e) /\ UNCHANGED <<term, log>>
    BY <1>4 DEF LeaderAppends, AppendEntry
  <2>2. Len(pending') = Len(pending) + 1 /\ \A j \in 1..Len(pending) : pending'[j] = pending[j]
    BY <1>1, <2>1
  <2> QED
    BY <1>1, <2>1, <2>2 DEF EntryAt
<1>5. CASE \E n \in Node : Elect(n, RaftUp)
  BY <1>1, <1>5 DEF Elect
<1>6. CASE Commit(RaftUp)
  <2>1. /\ log' = Append(log, Head(pending)) /\ pending' = Tail(pending) /\ pending # <<>>
        /\ term' = term
    BY <1>6 DEF Commit
  <2>2. /\ Len(log') = Len(log) + 1 /\ Len(pending') = Len(pending) - 1
        /\ log'[Len(log) + 1] = pending[1]
        /\ \A j \in 1..Len(log) : log'[j] = log[j]
        /\ \A j \in 1..(Len(pending) - 1) : pending'[j] = pending[j + 1]
    BY <1>1, <2>1
  <2>3. i \in 1..(Len(log') + Len(pending'))
    BY <1>1, <2>2
  <2>4. CASE i <= Len(log)
    BY <1>1, <2>2, <2>4 DEF EntryAt
  <2>5. CASE i = Len(log) + 1
    <3>1. EntryAt(log, pending, i) = pending[1]
      BY <1>1, <2>5 DEF EntryAt
    <3>2. EntryAt(log', pending', i) = log'[i]
      BY <1>1, <2>2, <2>5 DEF EntryAt
    <3> QED
      BY <1>1, <2>1, <2>2, <2>3, <2>5, <3>1, <3>2
  <2>6. CASE i > Len(log) + 1
    <3>1. EntryAt(log, pending, i) = pending[i - Len(log)]
      BY <1>1, <2>6 DEF EntryAt
    <3>2. EntryAt(log', pending', i) = pending'[i - (Len(log) + 1)]
      BY <1>1, <2>2, <2>6 DEF EntryAt
    <3>3. i - (Len(log) + 1) \in 1..(Len(pending) - 1) /\ i - (Len(log) + 1) + 1 = i - Len(log)
      BY <1>1, <2>6
    <3> QED
      BY <1>1, <2>1, <2>2, <2>3, <3>1, <3>2, <3>3
  <2> QED
    BY <1>1, <2>4, <2>5, <2>6
<1> QED
  BY <1>2, <1>3, <1>4, <1>5, <1>6 DEF RaftChanges

\* A call the step does not touch stays logged.
LEMMA UntouchedCallIsLogged ==
    ASSUME TypeOK, Next, NoLogNoLeader, RaftChanges, NEW c \in Command, CallIsLogged(c), call'[c] = call[c]
    PROVE  CallIsLogged(c)'
<1>1. term \in Nat /\ call[c] \in CallType /\ DOMAIN log = 1..Len(log)
  BY DEF TypeOK, RaftTypeOK
<1>2. CASE call[c].at = "waiting"
  <2>1. call[c].term \in Nat
    BY <1>1, <1>2 DEF CallType
  <2>2. term' \in Nat /\ term <= term'
    BY TermGrows
  <2>3. ASSUME call[c].term = term'
        PROVE  /\ call[c].index \in 1..(Len(log') + Len(pending'))
               /\ EntryAt(log', pending', call[c].index) = CommandEntry(c)
    <3>1. call[c].term = term /\ term' = term
      BY <1>1, <1>2, <2>1, <2>2, <2>3 DEF CallIsLogged
    <3>2. call[c].index \in 1..(Len(log) + Len(pending)) /\ EntryAt(log, pending, call[c].index) = CommandEntry(c)
      BY <1>2, <3>1 DEF CallIsLogged
    <3>3. \A i \in 1..(Len(log) + Len(pending)) :
             i \in 1..(Len(log') + Len(pending')) /\ EntryAt(log', pending', i) = EntryAt(log, pending, i)
      BY <3>1, EntriesStay
    <3> QED
      BY <3>2, <3>3
  <2>4. call[c].term <= term'
    BY <1>1, <1>2, <2>1, <2>2 DEF CallIsLogged
  <2> QED
    BY <1>2, <2>3, <2>4 DEF CallIsLogged, CommandEntry
<1>3. CASE call[c].at = "ok"
  <2>1. PICK i \in 1..Len(log) : log[i] = CommandEntry(c)
    BY <1>1, <1>3 DEF CallIsLogged
  <2>2. log'[i] = log[i] /\ i \in 1..Len(log')
    BY LogGrows
  <2>3. DOMAIN log' = 1..Len(log')
    BY TypeNext DEF TypeOK, RaftTypeOK
  <2> QED
    BY <1>3, <2>1, <2>2, <2>3 DEF CallIsLogged, CommandEntry
<1>4. CASE call[c].at \notin {"waiting", "ok"}
  BY <1>4 DEF CallIsLogged
<1> QED
  BY <1>2, <1>3, <1>4

\* What a step can do to a call.
LEMMA CallSteps ==
    ASSUME TypeOK, Next, NEW c \in Command
    PROVE  call'[c] = call[c] \/ call'[c] = [at |-> "failed"] \/ ReplicateOk(c) \/ \E n \in Node : Replicate(n, c)
<1>1. ASSUME NEW d \in Command, d # c, ReplicateOk(d) \/ ReplicateFails(d) \/ \E n \in Node : Replicate(n, d)
      PROVE  call'[c] = call[c]
  BY <1>1 DEF ReplicateOk, ReplicateFails, Replicate, TypeOK
<1>2. ReplicateFails(c) => call'[c] = [at |-> "failed"]
  BY DEF ReplicateFails, TypeOK
<1>3. ASSUME NEW n \in Node, RaftGone(n)
      PROVE  call'[c] = call[c] \/ call'[c] = [at |-> "failed"]
  BY <1>3 DEF RaftGone
<1> QED
  BY <1>1, <1>2, <1>3
  DEF Next, StartGossip, StartRaft, StartRaftFails, WireHandlers, StopRaft, StopGossip, Crash, NotifyJoin,
      NotifyLeave, JoinServer, RemoveServer, ChangeDone, ChangeFails, InitLeader, InitRebalance,
      EnqueueTimesOut, Propose, OnApply, ApplyAssign, ApplyCommand, TakeSnapshot, InstallSnapshot, RaftElect,
      RaftLoseLeadership, RaftLeaseExpires, RaftCommit

LEMMA CallsInit == Init => CallsAreLogged
  BY DEF Init, NoCall, CallsAreLogged, CallIsLogged

LEMMA CallsNext ==
    TypeOK /\ FsmFollowsLog /\ LeaderInv /\ CallsAreLogged /\ [Next]_vars => CallsAreLogged'
<1> SUFFICES ASSUME TypeOK, FsmFollowsLog, LeaderInv, CallsAreLogged, Next, NEW c \in Command
             PROVE  CallIsLogged(c)'
  BY DEF CallsAreLogged, CallIsLogged, EntryAt, CommandEntry, vars, raftVars
<1>1. CallIsLogged(c) /\ RaftChanges /\ NoLogNoLeader
  BY RaftSteps DEF CallsAreLogged, LeaderInv
<1>2. log \in Seq(EntryType) /\ pending \in Seq(EntryType) /\ term \in Nat /\ call[c] \in CallType
      /\ Len(log) \in Nat /\ Len(pending) \in Nat
  BY DEF TypeOK, RaftTypeOK
<1>3. CASE call'[c] = call[c]
  BY <1>1, <1>3, UntouchedCallIsLogged
<1>4. CASE call'[c] = [at |-> "failed"]
  BY <1>4 DEF CallIsLogged
<1>5. CASE ReplicateOk(c)
  <2>1. /\ call[c].at = "waiting" /\ call[c].term = term
        /\ applied[call[c].node] >= call[c].index
        /\ call'[c] = [at |-> "ok"] /\ log' = log
    BY <1>5 DEF ReplicateOk, TypeOK, raftVars
  <2>2. call[c].node \in Node /\ call[c].index \in Nat
    BY <1>2, <2>1 DEF CallType
  <2>3. applied[call[c].node] \in Nat /\ applied[call[c].node] <= Len(log)
    BY <2>2 DEF TypeOK, FsmTypeOK, FsmFollowsLog
  <2>4. /\ call[c].index \in 1..(Len(log) + Len(pending))
        /\ EntryAt(log, pending, call[c].index) = CommandEntry(c)
    BY <1>1, <2>1 DEF CallIsLogged
  <2>5. call[c].index \in DOMAIN log /\ log[call[c].index] = CommandEntry(c)
    BY <1>2, <2>1, <2>2, <2>3, <2>4 DEF EntryAt
  <2> QED
    BY <2>1, <2>5 DEF CallIsLogged, CommandEntry
<1>6. CASE \E n \in Node : Replicate(n, c)
  <2>1. PICK n \in Node :
           /\ pending' = Append(pending, CommandEntry(c)) /\ log' = log /\ term' = term
           /\ call'[c] = [at |-> "waiting", node |-> n, index |-> NextIndex, term |-> term]
    BY <1>6 DEF Replicate, AppendEntry, TypeOK
  <2>2. NextIndex \in 1..(Len(log') + Len(pending'))
    BY <1>2, <2>1 DEF NextIndex
  <2>3. NextIndex > Len(log') /\ NextIndex - Len(log') = Len(pending) + 1
    BY <1>2, <2>1 DEF NextIndex
  <2>4. pending'[Len(pending) + 1] = CommandEntry(c)
    BY <1>2, <2>1
  <2>5. EntryAt(log', pending', NextIndex) = CommandEntry(c)
    BY <1>2, <2>1, <2>2, <2>3, <2>4 DEF EntryAt
  <2> QED
    BY <1>2, <2>1, <2>2, <2>5 DEF CallIsLogged, CommandEntry
<1> QED
  BY <1>3, <1>4, <1>5, <1>6, CallSteps

\* A Replicate call that returned no error is in the committed log, although its
\* leader may have been deposed, or restarted, since.  The strengthening follows
\* the call while it waits: as long as the term lasts, its command stays where it
\* was appended, so the leader cannot have applied that place without it.
THEOREM AckedCommandsAreCommitted == Spec => []AckedIsCommitted
<1>1. Init => CallsAreLogged
  BY CallsInit
<1>2. TypeOK /\ FsmFollowsLog /\ LeaderInv /\ CallsAreLogged /\ [Next]_vars => CallsAreLogged'
  BY CallsNext
<1>3. CallsAreLogged => AckedIsCommitted
  BY DEF CallsAreLogged, CallIsLogged, AckedIsCommitted
<1>4. Init => LeaderInv
  BY LeaderInit
<1>5. TypeOK /\ LeaderInv /\ [Next]_vars => LeaderInv'
  BY LeaderNext
<1> QED
  BY <1>1, <1>2, <1>3, <1>4, <1>5, TypeCorrect, FsmAgreesWithLog, PTL DEF Spec

-----------------------------------------------------------------------------
ProposalsOnly(l) == \A i \in DOMAIN l : l[i].type = "assign" => IsProposal(l[i].assignment)

ProposalsInv == ProposalsOnly(log) /\ ProposalsOnly(pending)

LEMMA ProposalsInit == Init => ProposalsInv
  BY DEF Init, RaftInit, ProposalsInv, ProposalsOnly

LEMMA ProposalsNext == TypeOK /\ LeaderInv /\ ProposalsInv /\ [Next]_vars => ProposalsInv'
<1> SUFFICES ASSUME TypeOK, LeaderInv, ProposalsInv, Next PROVE ProposalsInv'
  BY DEF ProposalsInv, ProposalsOnly, vars, raftVars
<1> SUFFICES ProposalsOnly(log') /\ ProposalsOnly(pending')
  BY DEF ProposalsInv, ProposalsOnly, IsProposal, Totals, Assignment, LoopBounds
<1>1. log \in Seq(EntryType) /\ pending \in Seq(EntryType)
  BY DEF TypeOK, RaftTypeOK
<1>2. ProposalsOnly(log) /\ ProposalsOnly(pending)
  BY DEF ProposalsInv
<1>3. CASE UNCHANGED <<term, log, pending>>
  BY <1>2, <1>3
<1>4. CASE \E n \in Node : BootstrapLog(n)
  BY <1>2, <1>4 DEF BootstrapLog, ConfigEntry, ProposalsOnly
<1>5. CASE \E e \in EntryType : LeaderAppends(e)
  <2>1. PICK e \in EntryType : /\ pending' = Append(pending, e) /\ log' = log
                               /\ e.type = "assign" => IsProposal(e.assignment)
    BY <1>5 DEF LeaderAppends, AppendEntry
  <2> QED
    BY <1>1, <1>2, <2>1 DEF ProposalsOnly
<1>6. CASE \E n \in Node : Elect(n, RaftUp)
  <2>1. PICK k \in 0..Len(pending) : pending' = SubSeq(pending, 1, k) /\ log' = log
    BY <1>6 DEF Elect
  <2>2. DOMAIN pending' = 1..k /\ 1..k \in SUBSET DOMAIN pending /\ \A i \in 1..k : pending'[i] = pending[i]
    BY <1>1, <2>1
  <2> QED
    BY <1>2, <2>1, <2>2 DEF ProposalsOnly
<1>7. CASE Commit(RaftUp)
  <2>1. log' = Append(log, Head(pending)) /\ pending' = Tail(pending) /\ pending # <<>>
    BY <1>7 DEF Commit
  <2>2. /\ DOMAIN log' = DOMAIN log \cup {Len(log) + 1} /\ 1 \in DOMAIN pending
        /\ log'[Len(log) + 1] = pending[1] /\ \A i \in DOMAIN log : log'[i] = log[i]
    BY <1>1, <2>1
  <2>3. \A i \in DOMAIN pending' : i + 1 \in DOMAIN pending /\ pending'[i] = pending[i + 1]
    BY <1>1, <2>1
  <2> QED
    BY <1>2, <2>2, <2>3 DEF ProposalsOnly
<1> QED
  BY <1>3, <1>4, <1>5, <1>6, <1>7, RaftSteps DEF LeaderInv, RaftChanges

\* All nodes are configured with the same number of shards, or leave it at zero
\* where the others say the default.
SameTotals == \A m, n \in Node : EffectiveShards(ConfigShards[m]) = EffectiveShards(ConfigShards[n])

\* Whatever the order of joins, leaves and lost leaderships, every assignment that
\* reaches the log numbers its members 0 .. N-1 and deals every shard a key can
\* hash to, evenly.  The totals must agree: a leader that applies the assignment
\* of another total while it counts its own proposes a map of the wrong size.
THEOREM AssignmentsArePartitions ==
    ASSUME SameTotals
    PROVE  Spec => []AssignmentsPartition
<1>1. Init => ProposalsInv
  BY ProposalsInit
<1>2. TypeOK /\ LeaderInv /\ ProposalsInv /\ [Next]_vars => ProposalsInv'
  BY ProposalsNext
<1>3. ProposalsInv => AssignmentsPartition
  <2> SUFFICES ASSUME ProposalsInv, NEW i \in DOMAIN log, log[i].type = "assign"
               PROVE  NumberingIsBijective(log[i].assignment) /\ ShardsAreDealt(log[i].assignment)
    BY DEF AssignmentsPartition
  <2>1. PICK S \in (SUBSET Node) \ {{}}, old \in Totals, total \in Totals :
            \E size \in LoopBounds(old, total) : log[i].assignment = Assignment(S, size, total)
    BY DEF ProposalsInv, ProposalsOnly, IsProposal
  <2>2. old = total /\ total \in Nat
    BY SameTotals, TotalsArePositive DEF SameTotals, Totals
  <2>3. LoopBounds(old, total) = {total}
    BY <2>2 DEF LoopBounds
  <2>4. S \in SUBSET Nat /\ IsFiniteSet(S) /\ S # {}
    BY NodeAssumption, FS_Subset
  <2> QED
    BY <2>1, <2>2, <2>3, <2>4, AssignmentPartitions
<1>4. Init => LeaderInv
  BY LeaderInit
<1>5. TypeOK /\ LeaderInv /\ [Next]_vars => LeaderInv'
  BY LeaderNext
<1> QED
  BY <1>1, <1>2, <1>3, <1>4, <1>5, TypeCorrect, PTL DEF Spec

-----------------------------------------------------------------------------
\* A call that has hashed its key runs on a node, with a total of the cluster.
LookupInv ==
    lookup # NoLookup =>
        /\ lookup.node \in Node
        /\ lookup.total \in Totals
        /\ lookup.shard = lookup.key % lookup.total

LEMMA LookupInitial == LookupInit => LookupInv
  BY DEF LookupInit, LookupInv

LEMMA LookupStep == TypeOK /\ LookupInv /\ [LookupNext]_lookupVars => LookupInv'
<1> SUFFICES ASSUME TypeOK, LookupInv, [LookupNext]_lookupVars PROVE LookupInv'
  OBVIOUS
<1>1. Totals' = Totals /\ NoLookup' = NoLookup
  BY DEF Totals, NoLookup
<1>2. CASE lookup' = lookup \/ lookup' = NoLookup
  BY <1>1, <1>2 DEF LookupInv
<1>3. CASE \E n \in Node, key \in Key : HashKey(n, key)
  <2>1. PICK n \in Node, key \in Key :
           lookup' = [at |-> "hashed", node |-> n, key |-> key,
                      shard |-> key % fsm[n].total, total |-> fsm[n].total]
    BY <1>3 DEF HashKey, ShardForKey
  <2>2. fsm[n].total \in Totals
    BY DEF TypeOK, FsmTypeOK, AssignmentType
  <2> QED
    BY <1>1, <2>1, <2>2 DEF LookupInv
<1> QED
  BY <1>2, <1>3 DEF LookupNext, ClusterStep, ReadOwner, lookupVars

\* The cluster takes the same steps, with readers or without.
LEMMA LookupsOnlyRead == LookupSpec => Spec
<1>1. LookupInit => Init
  BY DEF LookupInit
<1>2. [LookupNext]_lookupVars => [Next]_vars
  BY DEF LookupNext, ClusterStep, HashKey, ReadOwner, lookupVars
<1> QED
  BY <1>1, <1>2, PTL DEF LookupSpec, Spec

LEMMA LookupInvHolds == LookupSpec => []LookupInv
<1>1. LookupInit => LookupInv
  BY LookupInitial
<1>2. TypeOK /\ LookupInv /\ [LookupNext]_lookupVars => LookupInv'
  BY LookupStep
<1> QED
  BY <1>1, <1>2, LookupsOnlyRead, TypeCorrect, PTL DEF LookupSpec

LEMMA ProposalsHold == Spec => []ProposalsInv
<1>1. Init => ProposalsInv /\ LeaderInv
  BY ProposalsInit, LeaderInit
<1>2. TypeOK /\ LeaderInv /\ ProposalsInv /\ [Next]_vars => ProposalsInv'
  BY ProposalsNext
<1>3. TypeOK /\ LeaderInv /\ [Next]_vars => LeaderInv'
  BY LeaderNext
<1> QED
  BY <1>1, <1>2, <1>3, TypeCorrect, PTL DEF Spec

\* What a node holds is the last assignment it has applied, or nothing.
LEMMA HeldIsLastApplied ==
    ASSUME TypeOK, FsmFollowsLog, NEW n \in Node
    PROVE  /\ LastApplied(n) = {} => DOMAIN fsm[n].shards = {}
           /\ \A j \in LastApplied(n) : j \in DOMAIN log /\ log[j].type = "assign" /\ fsm[n] = log[j].assignment
<1>1. /\ applied[n] \in Nat /\ Len(log) \in Nat /\ DOMAIN log = 1..Len(log)
      /\ applied[n] <= Len(log) /\ FollowsLog(log, fsm[n], applied[n])
  BY DEF TypeOK, RaftTypeOK, FsmTypeOK, FsmFollowsLog
<1>2. ASSUME LastApplied(n) = {}
      PROVE  DOMAIN fsm[n].shards = {}
  <2>1. \E m \in Node : fsm[n] = InitialFsm(m)
    BY <1>1, <1>2 DEF FollowsLog, LastApplied
  <2> QED
    BY <2>1 DEF InitialFsm, NoAssignment
<1>3. ASSUME NEW j \in LastApplied(n)
      PROVE  j \in DOMAIN log /\ log[j].type = "assign" /\ fsm[n] = log[j].assignment
  <2>1. j \in 1..applied[n] /\ log[j].type = "assign" /\ \A k \in 1..applied[n] : k > j => log[k].type # "assign"
    BY DEF LastApplied
  <2> QED
    BY <1>1, <2>1, LastDecisionIsHeld
<1> QED
  BY <1>2, <1>3

\* An assignment gives shards to its members only, also a torn one.
LEMMA OwnersAreMembers ==
    ASSUME NEW a, IsProposal(a), NEW s \in DOMAIN a.shards
    PROVE  a.shards[s] \in DOMAIN a.members
<1>1. PICK S \in (SUBSET Node) \ {{}}, old \in Totals, total \in Totals :
          \E size \in LoopBounds(old, total) : a = Assignment(S, size, total)
  BY DEF IsProposal
<1>2. PICK size \in LoopBounds(old, total) : a = Assignment(S, size, total)
  BY <1>1
<1>3. S \in SUBSET Nat /\ IsFiniteSet(S) /\ S # {}
  BY NodeAssumption, FS_Subset
<1>4. old \in Nat /\ total \in Nat
  BY TotalsArePositive
<1>5. size \in Nat
  BY <1>4 DEF LoopBounds
<1>6. ShardMap(S, size) \in [0..(size - 1) -> S]
  BY <1>3, <1>5, ShardMapType
<1> QED
  BY <1>2, <1>6 DEF Assignment, MemberMap

\* A call of OwnsKey or OwnerOfKey answers what the last assignment of the log that
\* its node has applied says, although its two reads are apart, unless it has
\* hashed the key with another total; and then still never a removed node.
THEOREM LookupsFollowLog == LookupSpec => []AnswersFollowLog
<1>1. TypeOK /\ FsmFollowsLog /\ ProposalsInv /\ LookupInv => AnswersFollowLog
  <2> SUFFICES ASSUME TypeOK, FsmFollowsLog, ProposalsInv, LookupInv, lookup # NoLookup
               PROVE  /\ LastApplied(lookup.node) = {} => Answer = None
                      /\ \A j \in LastApplied(lookup.node) :
                            /\ lookup.total = log[j].assignment.total => Answer = OwnerIn(log[j].assignment, lookup.key)
                            /\ Answer \in DOMAIN log[j].assignment.members \cup {None}
    BY DEF AnswersFollowLog
  <2>1. lookup.node \in Node /\ lookup.shard = lookup.key % lookup.total
    BY DEF LookupInv
  <2>2. LastApplied(lookup.node) = {} => Answer = None
    BY <2>1, HeldIsLastApplied DEF Answer
  <2>3. ASSUME NEW j \in LastApplied(lookup.node)
        PROVE  /\ lookup.total = log[j].assignment.total => Answer = OwnerIn(log[j].assignment, lookup.key)
               /\ Answer \in DOMAIN log[j].assignment.members \cup {None}
    <3>1. j \in DOMAIN log /\ log[j].type = "assign" /\ fsm[lookup.node] = log[j].assignment
      BY <2>1, HeldIsLastApplied
    <3>2. lookup.total = log[j].assignment.total => Answer = OwnerIn(log[j].assignment, lookup.key)
      BY <2>1, <3>1 DEF Answer, OwnerIn
    <3>3. IsProposal(log[j].assignment)
      BY <3>1 DEF ProposalsInv, ProposalsOnly
    <3>4. Answer \in DOMAIN log[j].assignment.members \cup {None}
      BY <3>1, <3>3, OwnersAreMembers DEF Answer
    <3> QED
      BY <3>2, <3>4
  <2> QED
    BY <2>2, <2>3
<1> QED
  BY <1>1, LookupsOnlyRead, LookupInvHolds, ProposalsHold, TypeCorrect, FsmAgreesWithLog, PTL

\* Where all nodes are configured with the same number of shards the unlocked read
\* does no harm: every call answers the owner that the last assignment names.
THEOREM EqualTotalsNameOneOwner ==
    ASSUME SameTotals
    PROVE  LookupSpec => [](lookup # NoLookup =>
              \A j \in LastApplied(lookup.node) : Answer = OwnerIn(log[j].assignment, lookup.key))
<1>1. TypeOK /\ FsmFollowsLog /\ LookupInv /\ AnswersFollowLog =>
         (lookup # NoLookup =>
            \A j \in LastApplied(lookup.node) : Answer = OwnerIn(log[j].assignment, lookup.key))
  <2> SUFFICES ASSUME TypeOK, FsmFollowsLog, LookupInv, AnswersFollowLog, lookup # NoLookup,
                      NEW j \in LastApplied(lookup.node)
               PROVE  Answer = OwnerIn(log[j].assignment, lookup.key)
    OBVIOUS
  <2>1. lookup.node \in Node /\ lookup.total \in Totals
    BY DEF LookupInv
  <2>2. fsm[lookup.node] = log[j].assignment /\ fsm[lookup.node].total \in Totals
    BY <2>1, HeldIsLastApplied DEF TypeOK, FsmTypeOK, AssignmentType
  <2>3. lookup.total = log[j].assignment.total
    BY <2>1, <2>2, SameTotals DEF SameTotals, Totals
  <2> QED
    BY <2>3 DEF AnswersFollowLog
<1> QED
  BY <1>1, LookupsOnlyRead, LookupInvHolds, LookupsFollowLog, TypeCorrect, FsmAgreesWithLog, PTL
=============================================================================
