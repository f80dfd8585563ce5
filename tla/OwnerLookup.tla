------------------------------ MODULE OwnerLookup ------------------------------
(***************************************************************************)
(* The readers of the shard map, next to the cluster that writes it:       *)
(* OwnsKey and OwnerOfKey of cluster/partitioned.go hash the key with      *)
(* totalShards, which they read without partMu, and only then look its     *)
(* shard up under the lock.  Calls write nothing, so one at a time shows   *)
(* what any of them may answer.                                            *)
(***************************************************************************)
EXTENDS PartitionedCluster

CONSTANT Key  \* the hash values of the application's keys

ASSUME KeyAssumption == Key \subseteq Nat

VARIABLE lookup  \* a call of OwnsKey or OwnerOfKey between its two reads

lookupVars == <<vars, lookup>>

NoLookup == [at |-> "none"]

LookupInit == Init /\ lookup = NoLookup

\* Mutant of ShardForKey: the total of the configuration, not the cluster's.
ShardByConfig(n, key) == key % EffectiveShards(ConfigShards[n])

ShardForKey(n, key) == key % fsm[n].total

\* The unlocked read.  total is history: what totalShards was at that moment.
HashKey(n, key) ==
    /\ phase[n] \in {"running", "stopping"}
    /\ lookup = NoLookup
    /\ lookup' = [at |-> "hashed", node |-> n, key |-> key,
                  shard |-> ShardForKey(n, key), total |-> fsm[n].total]
    /\ UNCHANGED vars

\* What the locked read finds: OwnerOfKey returns it, OwnsKey compares it with the
\* node itself.  Nobody owns a shard that is missing.
Answer ==
    LET shards == fsm[lookup.node].shards IN
    IF lookup.shard \in DOMAIN shards THEN shards[lookup.shard] ELSE None

\* The locked read: the call returns Answer.
ReadOwner ==
    /\ lookup # NoLookup
    /\ lookup' = NoLookup
    /\ UNCHANGED vars

\* A step of the cluster: a call ends with the process it runs in.
ClusterStep ==
    /\ Next
    /\ lookup' = IF lookup # NoLookup /\ phase'[lookup.node] = "down"
                 THEN NoLookup ELSE lookup

LookupNext ==
    \/ ClusterStep
    \/ \E n \in Node, key \in Key : HashKey(n, key)
    \/ ReadOwner

LookupSpec == LookupInit /\ [][LookupNext]_lookupVars

-----------------------------------------------------------------------------
\* The places in the log of the last assignment that n has applied: one, or none.
LastApplied(n) ==
    {j \in 1..applied[n] : /\ log[j].type = "assign"
                           /\ \A k \in 1..applied[n] : k > j => log[k].type # "assign"}

\* The owner an assignment gives a key, which a torn one may leave without.
OwnerIn(a, key) ==
    LET shard == key % a.total IN
    IF shard \in DOMAIN a.shards THEN a.shards[shard] ELSE None

\* A call answers what the log says, although its two reads are apart: whenever it
\* gets the lock, the answer is the owner that the last assignment its node has
\* applied gives the key, or nobody before the first.  So of calls that end at one
\* place in the log, whatever their nodes, OwnsKey is TRUE on one at most.  The
\* exception is a call that has hashed the key with another total than that
\* assignment has: it asks for the owner of another shard, and two nodes may get
\* TRUE.  Even so the answer is never a node that the assignment has removed.
AnswersFollowLog ==
    lookup # NoLookup =>
        /\ LastApplied(lookup.node) = {} => Answer = None
        /\ \A j \in LastApplied(lookup.node) :
              LET a == log[j].assignment IN
              /\ lookup.total = a.total => Answer = OwnerIn(a, lookup.key)
              /\ Answer \in DOMAIN a.members \cup {None}
=============================================================================
