------------------------- MODULE MCPartitionedCluster -------------------------
(* Instances of PartitionedCluster for TLC.                                  *)
EXTENDS PartitionedCluster, TLC

\* No node has a TotalShards in its configuration: all use the default.
SameShards == [n \in Node |-> 0]

\* No step tells one command from another.
CommandSymmetry == Permutations(Command)

\* Action constraint: an application that calls OnApply as soon as Start has
\* returned, the earliest it can.
RegisterAtOnce ==
    \A n \in Node : (phase[n] = "running" /\ n \notin registered) => registered' # registered

\* Action constraint: an application that runs before it replicates.  The others are
\* started when the bootstrap node has made its first assignment, the first command
\* is called when all are running and assigned, and a node that stops is back before
\* gossip misses it.
CommandsOnRunningCluster ==
    LET Assigned(S) == \E i \in DOMAIN log : /\ log[i].type = "assign"
                                            /\ S \subseteq DOMAIN log[i].assignment.members
        Settled == /\ \A n \in Node : phase[n] = "running" /\ job[n]["events"] = Idle
                   /\ \A i \in DOMAIN pending : pending[i].type = "command"
                   /\ LatestServers = Node
                   /\ Assigned(Node)
    IN /\ \A n \in Node \ {Bootstrap} : phase[n] # phase'[n] => Assigned({Bootstrap})
       /\ call = [c \in Command |-> NoCall] => call' = call \/ Settled
       /\ \A n \in Node : view[n] \subseteq view'[n] \/ phase'[n] = "down"
=============================================================================
