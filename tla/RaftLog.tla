------------------------------- MODULE RaftLog -------------------------------
(***************************************************************************)
(* hashicorp/raft as cluster/partitioned.go uses it: an elected leader that *)
(* appends entries to its log, a committed prefix all nodes agree on, and  *)
(* uncommitted entries a new leader may or may not inherit.  Committed     *)
(* entries are never lost.  The noop a new leader writes is left out.      *)
(***************************************************************************)
EXTENDS Naturals, Sequences, FiniteSets

CONSTANTS
    Node,      \* node names: naturals, the rank in sort.Strings order
    MaxTerms,  \* bound: how many elections the environment holds
    None       \* no node

ASSUME NodeAssumption == Node \subseteq Nat /\ IsFiniteSet(Node) /\ None \notin Node

VARIABLES
    leader,    \* the node whose raft state is Leader, or None
    term,      \* the number of elections so far
    log,       \* the committed entries
    pending    \* the leader's entries that are not committed yet

raftVars == <<leader, term, log, pending>>

ConfigEntry(S) == [type |-> "config", servers |-> S]
AssignEntry(a) == [type |-> "assign", assignment |-> a]
CommandEntry(c) == [type |-> "command", command |-> c]

\* The servers of the last configuration entry of l (none: the empty set).
ServersOf(l) ==
    LET configs == {i \in DOMAIN l : l[i].type = "config"}
    IN {n \in Node : \E i \in configs : n \in l[i].servers /\ \A j \in configs : j <= i}

\* GetConfiguration on the leader: its latest configuration, committed or not.
LatestServers == ServersOf(log \o pending)

IsQuorum(S, servers) == 2 * Cardinality(S \cap servers) > Cardinality(servers)

RaftInit ==
    /\ leader = None
    /\ term = 0
    /\ log = <<>>
    /\ pending = <<>>

\* BootstrapCluster: the first configuration, refused when there is a log.
BootstrapLog(n) ==
    /\ log' = IF log = <<>> THEN <<ConfigEntry({n})>> ELSE log
    /\ UNCHANGED <<leader, term, pending>>

\* n wins an election among the nodes in up.  Which of the old leader's
\* uncommitted entries n holds is left open: any prefix of them.
Elect(n, up) ==
    /\ leader = None
    /\ term < MaxTerms
    /\ \E k \in 0..Len(pending) :
          LET kept == SubSeq(pending, 1, k) IN
          /\ n \in ServersOf(log \o kept)
          /\ IsQuorum(up, ServersOf(log \o kept))
          /\ pending' = kept
    /\ leader' = n
    /\ term' = term + 1
    /\ UNCHANGED log

\* The leader steps down: a partition, a pause.
LoseLeadership ==
    /\ leader # None
    /\ leader' = None
    /\ UNCHANGED <<term, log, pending>>

\* A leader that cannot reach a quorum steps down when its lease expires.
LeaseExpires(up) ==
    /\ ~IsQuorum(up, LatestServers)
    /\ LoseLeadership

Commit(up) ==
    /\ leader # None
    /\ pending # <<>>
    /\ IsQuorum(up, LatestServers)
    /\ log' = Append(log, Head(pending))
    /\ pending' = Tail(pending)
    /\ UNCHANGED <<leader, term>>

\* raft.Apply, AddVoter and RemoveServer on the leader.
AppendEntry(e) ==
    /\ pending' = Append(pending, e)
    /\ UNCHANGED <<leader, term, log>>

\* The index the next appended entry gets.
NextIndex == Len(log) + Len(pending) + 1

\* AddVoter and RemoveServer wait until no configuration is uncommitted.
ConfigIsStable == \A i \in DOMAIN pending : pending[i].type # "config"

\* Raft replicates entry i to the servers that were in the configuration then,
\* and to every server of the latest one.
Receives(n, i) == n \in ServersOf(SubSeq(log, 1, i)) \cup LatestServers
=============================================================================
