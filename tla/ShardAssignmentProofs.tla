------------------------ MODULE ShardAssignmentProofs ------------------------
(***************************************************************************)
(* What rebalance's numbering and its shard map are, for every finite set  *)
(* of servers and every number of shards.                                  *)
(***************************************************************************)
EXTENDS ShardAssignment, FiniteSetTheorems, TLAPS

\* A member number is an index into the sorted names.
LEMMA MemberNumberRange ==
    ASSUME NEW S \in SUBSET Nat, IsFiniteSet(S), NEW n \in S
    PROVE  MemberNumber(S, n) \in 0..(Cardinality(S) - 1)
<1> DEFINE below == {m \in S : m < n}
<1>1. n \in Nat /\ below \in SUBSET (S \ {n})
  OBVIOUS
<1>2. IsFiniteSet(S \ {n}) /\ Cardinality(S \ {n}) = Cardinality(S) - 1
  BY FS_RemoveElement
<1>3. IsFiniteSet(below) /\ Cardinality(below) <= Cardinality(S \ {n})
  BY <1>1, <1>2, FS_Subset
<1>4. Cardinality(below) \in Nat /\ Cardinality(S) \in Nat
  BY <1>3, FS_CardinalityType
<1> QED
  BY <1>2, <1>3, <1>4 DEF MemberNumber

\* Member numbers follow the order of the names.
LEMMA MemberNumberIncreases ==
    ASSUME NEW S \in SUBSET Nat, IsFiniteSet(S), NEW m \in S, NEW n \in S, m < n
    PROVE  MemberNumber(S, m) < MemberNumber(S, n)
<1> DEFINE belowM == {k \in S : k < m}
           belowN == {k \in S : k < n}
<1>0. m \in Nat /\ n \in Nat /\ \A k \in S : k \in Nat /\ (k < m => k < n /\ k # m)
  OBVIOUS
<1>1. belowN \in SUBSET S /\ m \in belowN /\ belowM \in SUBSET (belowN \ {m})
  BY <1>0
<1>2. IsFiniteSet(belowN)
  BY <1>1, FS_Subset
<1>3. IsFiniteSet(belowN \ {m}) /\ Cardinality(belowN \ {m}) = Cardinality(belowN) - 1
  BY <1>1, <1>2, FS_RemoveElement
<1>4. IsFiniteSet(belowM) /\ Cardinality(belowM) <= Cardinality(belowN \ {m})
  BY <1>1, <1>3, FS_Subset
<1>5. Cardinality(belowM) \in Nat /\ Cardinality(belowN) \in Nat
  BY <1>2, <1>4, FS_CardinalityType
<1> QED
  BY <1>3, <1>4, <1>5 DEF MemberNumber

\* The member map is a bijection between the servers and 0 .. N-1.
LEMMA MemberMapIsBijection ==
    ASSUME NEW S \in SUBSET Nat, IsFiniteSet(S)
    PROVE  MemberMap(S) \in Bijection(S, 0..(Cardinality(S) - 1))
<1> DEFINE ids == 0..(Cardinality(S) - 1)
<1>1. MemberMap(S) \in [S -> ids]
  BY MemberNumberRange DEF MemberMap
<1>2. ASSUME NEW m \in S, NEW n \in S, MemberMap(S)[m] = MemberMap(S)[n]
      PROVE  m = n
  <2>1. MemberNumber(S, m) = MemberNumber(S, n)
    BY <1>2 DEF MemberMap
  <2>2. m \in Nat /\ n \in Nat
    OBVIOUS
  <2>3. MemberNumber(S, m) \in Int /\ MemberNumber(S, n) \in Int
    BY MemberNumberRange
  <2>4. ~(m < n) /\ ~(n < m)
    BY <2>1, <2>3, MemberNumberIncreases
  <2> QED
    BY <2>2, <2>4
<1>3. MemberMap(S) \in Injection(S, ids)
  BY <1>1, <1>2 DEF Injection, IsInjective
<1>4. Cardinality(S) \in Nat
  BY FS_CardinalityType
<1>5. IsFiniteSet(ids) /\ Cardinality(ids) = Cardinality(S)
  <2>1. /\ IsFiniteSet(ids)
        /\ Cardinality(ids) = IF 0 > Cardinality(S) - 1 THEN 0 ELSE Cardinality(S) - 1 - 0 + 1
    <3>1. 0 \in Int /\ Cardinality(S) - 1 \in Int
      BY <1>4
    <3> QED
      BY <3>1, FS_Interval
  <2> QED
    BY <1>4, <2>1
<1>6. MemberMap(S) \in Surjection(S, ids)
  BY <1>3, <1>5, FS_Injection
<1> QED
  BY <1>3, <1>6 DEF Bijection

\* Every index below N is the number of exactly the name NameAt returns, so the
\* owner rebalance looks up by shard number is always a server.
LEMMA NameAtIsServer ==
    ASSUME NEW S \in SUBSET Nat, IsFiniteSet(S), NEW i \in 0..(Cardinality(S) - 1)
    PROVE  NameAt(S, i) \in S /\ MemberNumber(S, NameAt(S, i)) = i
<1>1. PICK n \in S : MemberMap(S)[n] = i
  BY MemberMapIsBijection DEF Bijection, Surjection
<1>2. MemberNumber(S, n) = i
  BY <1>1 DEF MemberMap
<1> QED
  BY <1>2 DEF NameAt

\* The shard map of a non-empty configuration gives every shard an owner in it.
LEMMA ShardMapType ==
    ASSUME NEW S \in SUBSET Nat, IsFiniteSet(S), S # {}, NEW total \in Nat
    PROVE  ShardMap(S, total) \in [0..(total - 1) -> S]
<1>1. Cardinality(S) \in Nat /\ Cardinality(S) # 0
  BY FS_CardinalityType, FS_EmptySet
<1>2. ASSUME NEW s \in 0..(total - 1)
      PROVE  NameAt(S, s % Cardinality(S)) \in S
  <2>1. s % Cardinality(S) \in 0..(Cardinality(S) - 1)
    BY <1>1
  <2> QED
    BY <2>1, NameAtIsServer
<1> QED
  BY <1>2 DEF ShardMap

-----------------------------------------------------------------------------
\* Division: each number is a multiple of N and a remainder, in one way only.
LEMMA QuotientAndRemainder ==
    ASSUME NEW s \in Nat, NEW N \in Nat \ {0}
    PROVE  s = N * (s \div N) + (s % N) /\ s % N \in 0..(N - 1) /\ s \div N \in Nat
<1>1. s = N * (s \div N) + (s % N) /\ s % N \in 0..(N - 1) /\ s \div N \in Int
  OBVIOUS
<1>2. ~(s \div N < 0)
  OBVIOUS
<1> QED
  BY <1>1, <1>2

LEMMA LargerQuotient ==
    ASSUME NEW p \in Nat, NEW q \in Nat, NEW N \in Nat \ {0}, p < q
    PROVE  N * p + N <= N * q
<1>1. PICK d \in Nat : q = p + 1 + d
  <2>1. q - p - 1 \in Nat /\ q = p + 1 + (q - p - 1)
    OBVIOUS
  <2> QED
    BY <2>1
<1>2. N * q = N * p + N + N * d
  BY <1>1
<1>3. N * d \in Nat
  OBVIOUS
<1> QED
  BY <1>2, <1>3

LEMMA OneQuotient ==
    ASSUME NEW N \in Nat \ {0}, NEW p \in Nat, NEW q \in Nat, NEW i \in 0..(N - 1), NEW j \in 0..(N - 1),
           N * p + i = N * q + j
    PROVE  p = q /\ i = j
<1>1. N * p \in Nat /\ N * q \in Nat
  OBVIOUS
<1>2. ~(p < q)
  <2>1. SUFFICES ASSUME p < q PROVE FALSE
    OBVIOUS
  <2>2. N * p + N <= N * q
    BY <2>1, LargerQuotient
  <2> QED
    BY <1>1, <2>2
<1>3. ~(q < p)
  <2>1. SUFFICES ASSUME q < p PROVE FALSE
    OBVIOUS
  <2>2. N * q + N <= N * p
    BY <2>1, LargerQuotient
  <2> QED
    BY <1>1, <2>2
<1>4. p = q
  BY <1>2, <1>3
<1> QED
  BY <1>1, <1>4

\* The place of remainder i in the round of s.
LEMMA SameRound ==
    ASSUME NEW s \in Nat, NEW N \in Nat \ {0}, NEW i \in 0..(N - 1)
    PROVE  /\ s - (s % N) + i \in Nat
           /\ (s - (s % N) + i) % N = i
<1> DEFINE q == s \div N
           u == N * q + i
           p == u \div N
           r == u % N
<1>1. s = N * q + (s % N) /\ s % N \in 0..(N - 1) /\ q \in Nat
  BY QuotientAndRemainder
<1>2. N * q \in Nat
  BY <1>1
<1>3. s - (s % N) + i = u /\ u \in Nat
  BY <1>1, <1>2
<1>4. u = N * (u \div N) + (u % N) /\ u % N \in 0..(N - 1) /\ u \div N \in Nat
  BY <1>3, QuotientAndRemainder
<1>5. N * q + i = N * p + r /\ q \in Nat /\ p \in Nat /\ r \in 0..(N - 1)
  BY <1>1, <1>4
<1>6. i = r
  <2> HIDE DEF q, p, r
  <2> QED
    BY <1>5, OneQuotient
<1> QED
  BY <1>3, <1>6

\* Two numbers with the same remainder are a round apart.
LEMMA RoundApart ==
    ASSUME NEW s \in Nat, NEW t \in Nat, NEW N \in Nat \ {0}, s < t, s % N = t % N
    PROVE  s + N <= t
<1> DEFINE p == s \div N
           q == t \div N
<1>1. s = N * p + (s % N) /\ t = N * q + (s % N) /\ s % N \in 0..(N - 1) /\ p \in Nat /\ q \in Nat
  BY QuotientAndRemainder
<1> HIDE DEF p, q
<1>2. N * p \in Nat /\ N * q \in Nat
  BY <1>1
<1>3. ~(q <= p)
  <2>1. SUFFICES ASSUME q <= p PROVE FALSE
    OBVIOUS
  <2>2. q = p \/ N * q + N <= N * p
    BY <1>1, <2>1, LargerQuotient
  <2> QED
    BY <1>1, <1>2, <2>2
<1>4. N * p + N <= N * q
  BY <1>1, <1>3, LargerQuotient
<1> QED
  BY <1>1, <1>2, <1>4

-----------------------------------------------------------------------------
\* What the round robin gives to a server: the shards with its number as remainder.
LEMMA ShardsOfServer ==
    ASSUME NEW S \in SUBSET Nat, IsFiniteSet(S), NEW n \in S, NEW total \in Nat
    PROVE  ShardsFor(Assignment(S, total, total), n)
              = {s \in 0..(total - 1) : s % Cardinality(S) = MemberNumber(S, n)}
<1> DEFINE N == Cardinality(S)
<1>1. N \in Nat \ {0}
  BY FS_CardinalityType, FS_EmptySet
<1>2. ASSUME NEW s \in 0..(total - 1)
      PROVE  NameAt(S, s % N) = n <=> s % N = MemberNumber(S, n)
  <2>1. s % N \in 0..(N - 1)
    BY <1>1
  <2>2. NameAt(S, s % N) \in S /\ MemberNumber(S, NameAt(S, s % N)) = s % N
    BY <2>1, NameAtIsServer
  <2>3. MemberNumber(S, NameAt(S, s % N)) = MemberNumber(S, n) => NameAt(S, s % N) = n
    BY <2>2, MemberMapIsBijection DEF MemberMap, Bijection, Injection, IsInjective
  <2> QED
    BY <2>2, <2>3
<1> QED
  BY <1>2 DEF ShardsFor, Assignment, ShardMap

\* No server gets two shards more than another: each shard of m that has a whole
\* round behind it has a shard of n in its round, and at most one has none.
LEMMA DealIsEven ==
    ASSUME NEW S \in SUBSET Nat, IsFiniteSet(S), NEW m \in S, NEW n \in S, NEW total \in Nat
    PROVE  LET a == Assignment(S, total, total)
           IN Cardinality(ShardsFor(a, m)) <= Cardinality(ShardsFor(a, n)) + 1
<1> DEFINE N == Cardinality(S)
           i == MemberNumber(S, m)
           j == MemberNumber(S, n)
           M == {s \in 0..(total - 1) : s % N = i}
           O == {s \in 0..(total - 1) : s % N = j}
           Early == {s \in M : s + N <= total - 1}
           f == [s \in Early |-> s - (s % N) + j]
<1>1. N \in Nat \ {0} /\ i \in 0..(N - 1) /\ j \in 0..(N - 1)
  BY FS_CardinalityType, FS_EmptySet, MemberNumberRange
<1> HIDE DEF N, i, j
<1>2. /\ IsFiniteSet(0..(total - 1))
      /\ IsFiniteSet(M) /\ IsFiniteSet(O) /\ IsFiniteSet(Early)
  <2>1. IsFiniteSet(0..(total - 1))
    <3>1. 0 \in Int /\ total - 1 \in Int
      OBVIOUS
    <3> QED
      BY <3>1, FS_Interval
  <2>2. M \in SUBSET (0..(total - 1)) /\ O \in SUBSET (0..(total - 1)) /\ Early \in SUBSET (0..(total - 1))
    OBVIOUS
  <2> QED
    BY <2>1, <2>2, FS_Subset
<1>3. ASSUME NEW s \in Early
      PROVE  f[s] \in O
  <2>1. s \in Nat /\ s % N = i /\ s + N <= total - 1
    OBVIOUS
  <2>2. s - i + j \in Nat /\ (s - i + j) % N = j
    BY <1>1, <2>1, SameRound
  <2>3. s - i + j <= total - 1
    BY <1>1, <2>1
  <2> QED
    BY <2>1, <2>2, <2>3
<1>4. ASSUME NEW s \in Early, NEW t \in Early, f[s] = f[t]
      PROVE  s = t
  <2>1. s \in Nat /\ t \in Nat /\ s % N = i /\ t % N = i
    OBVIOUS
  <2>2. s - i + j = t - i + j
    BY <1>4, <2>1
  <2> QED
    BY <1>1, <2>1, <2>2
<1>5. f \in Injection(Early, O)
  BY <1>3, <1>4 DEF Injection, IsInjective
<1>6. Cardinality(Early) <= Cardinality(O)
  BY <1>2, <1>5, FS_Injection
<1>7. Cardinality(M) <= Cardinality(Early) + 1
  <2>1. Cardinality(Early) \in Nat
    BY <1>2, FS_CardinalityType
  <2>2. CASE M = Early
    BY <2>1, <2>2
  <2>3. CASE M # Early
    <3>1. PICK x \in M : x \notin Early
      BY <2>3
    <3>2. ASSUME NEW y \in M, y \notin Early PROVE y = x
      <4>1. /\ x \in Nat /\ y \in Nat /\ x % N = i /\ y % N = i /\ x <= total - 1 /\ y <= total - 1
            /\ ~(x + N <= total - 1) /\ ~(y + N <= total - 1)
        BY <3>1, <3>2
      <4>2. (x < y => x + N <= y) /\ (y < x => y + N <= x)
        BY <1>1, <4>1, RoundApart
      <4>3. ~(x < y) /\ ~(y < x)
        BY <1>1, <4>1, <4>2
      <4> QED
        BY <4>1, <4>3
    <3>3. M = Early \cup {x}
      BY <3>1, <3>2
    <3>4. Cardinality(Early \cup {x}) = Cardinality(Early) + 1
      BY <1>2, <3>1, FS_AddElement
    <3>5. Cardinality(M) = Cardinality(Early) + 1
      BY <3>3, <3>4
    <3> QED
      BY <2>1, <3>5
  <2> QED
    BY <2>2, <2>3
<1>8. Cardinality(M) <= Cardinality(O) + 1
  <2>1. Cardinality(M) \in Nat /\ Cardinality(Early) \in Nat /\ Cardinality(O) \in Nat
    BY <1>2, FS_CardinalityType
  <2> QED
    BY <1>6, <1>7, <2>1
<1>9. ShardsFor(Assignment(S, total, total), m) = M /\ ShardsFor(Assignment(S, total, total), n) = O
  BY ShardsOfServer DEF N, i, j
<1> QED
  BY <1>8, <1>9

\* Whatever the configuration, rebalance numbers its servers 0 .. N-1 in name order
\* and deals every shard to one of them, evenly.
LEMMA AssignmentPartitions ==
    ASSUME NEW S \in SUBSET Nat, IsFiniteSet(S), S # {}, NEW total \in Nat
    PROVE  LET a == Assignment(S, total, total)
           IN NumberingIsBijective(a) /\ ShardsAreDealt(a)
<1> DEFINE a == Assignment(S, total, total)
<1>1. a.members = MemberMap(S) /\ DOMAIN a.members = S /\ a.shards = ShardMap(S, total) /\ a.total = total
  BY DEF Assignment, MemberMap
<1>2. NumberingIsBijective(a)
  <2>1. {MemberMap(S)[n] : n \in S} = 0..(Cardinality(S) - 1)
    BY MemberMapIsBijection DEF Bijection, Surjection
  <2>2. \A m, n \in S : m < n => MemberMap(S)[m] < MemberMap(S)[n]
    BY MemberNumberIncreases DEF MemberMap
  <2> QED
    BY <1>1, <2>1, <2>2 DEF NumberingIsBijective
<1>3. ShardMap(S, total) \in [0..(total - 1) -> S]
  BY ShardMapType
<1>4. \A m, n \in S : Cardinality(ShardsFor(a, m)) <= Cardinality(ShardsFor(a, n)) + 1
  BY DealIsEven
<1>5. ShardsAreDealt(a)
  BY <1>1, <1>3, <1>4 DEF ShardsAreDealt
<1> QED
  BY <1>2, <1>5
=============================================================================
