--------------------------- MODULE ShardAssignment ---------------------------
(***************************************************************************)
(* The pure part of cluster/partitioned.go: how rebalance() numbers the    *)
(* servers of a Raft configuration and deals the shards out to them.  A    *)
(* node name is a natural number, its rank in sort.Strings order.          *)
(***************************************************************************)
EXTENDS Naturals, FiniteSets

CONSTANT DefaultShards   \* the TotalShards used when none is configured (64)

ASSUME DefaultShardsAssumption == DefaultShards \in Nat \ {0}

\* Start replaces a TotalShards of zero by the default.
EffectiveShards(configured) == IF configured = 0 THEN DefaultShards ELSE configured

\* The member number of n: its index in the sorted names of S, from 0.
MemberNumber(S, n) == Cardinality({m \in S : m < n})

\* Mutant of MemberMap: members numbered from 1.
MemberMapFromOne(S) == [n \in S |-> MemberNumber(S, n) + 1]

MemberMap(S) == [n \in S |-> MemberNumber(S, n)]

NameAt(S, i) == CHOOSE n \in S : MemberNumber(S, n) = i

\* Mutant of ShardMap: the shard loop runs once too often.
ShardMapOneTooMany(S, total) == [s \in 0..total |-> NameAt(S, s % Cardinality(S))]

\* Round robin over the sorted names.
ShardMap(S, total) == [s \in 0..(total - 1) |-> NameAt(S, s % Cardinality(S))]

\* The payload of the "assign" command.  size is the bound the shard loop ran
\* to, total the TotalShards field: two reads of pc.totalShards.
Assignment(S, size, total) ==
    [members |-> MemberMap(S), shards |-> ShardMap(S, size), total |-> total]

\* What a node holds before any assignment is applied or restored.
NoAssignment(total) ==
    [members |-> [n \in {} |-> 0], shards |-> [s \in {} |-> 0], total |-> total]

\* ShardsFor: the shards an assignment gives to a node.
ShardsFor(a, n) == {s \in DOMAIN a.shards : a.shards[s] = n}

-----------------------------------------------------------------------------
\* Every member has its own number in 0 .. N-1, in name order.
NumberingIsBijective(a) ==
    /\ {a.members[n] : n \in DOMAIN a.members} = 0..(Cardinality(DOMAIN a.members) - 1)
    /\ \A m, n \in DOMAIN a.members : m < n => a.members[m] < a.members[n]

\* Every shard a key can hash to has exactly one owner, a member, and no member
\* has two shards more than another.
ShardsAreDealt(a) ==
    /\ DOMAIN a.shards = 0..(a.total - 1)
    /\ \A s \in DOMAIN a.shards : a.shards[s] \in DOMAIN a.members
    /\ \A m, n \in DOMAIN a.members :
           Cardinality(ShardsFor(a, m)) <= Cardinality(ShardsFor(a, n)) + 1
=============================================================================
