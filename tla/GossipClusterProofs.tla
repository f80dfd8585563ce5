------------------------- MODULE GossipClusterProofs -------------------------
(***************************************************************************)
(* Theorems about GossipCluster, for any nodes, peers, messages and        *)
(* numbers of transmissions, starts and partitions.                        *)
(***************************************************************************)
EXTENDS GossipCluster, FiniteSetTheorems, TLAPS

-----------------------------------------------------------------------------
\* Membership: what a join, a merge and an answer of a peer name are nodes.

LEMMA MergedType ==
    ASSUME TypeOK, NEW k \in Node, NEW other \in Node
    PROVE  Merged(k, other) \subseteq Node
  BY DEF TypeOK, Merged

LEMMA JoinType ==
    ASSUME TypeOK, NEW n \in Node, NEW targets \in SUBSET Node
    PROVE  ViewsAfterJoin(n, targets) \in [Node -> SUBSET Node]
<1> DEFINE found == {p \in targets : Reachable(n, p)}
<1>1. ASSUME NEW k \in Node
      PROVE  (CASE k = n -> view[n] \cup UNION {Merged(n, p) : p \in found}
                [] k \in found -> Merged(k, n)
                [] OTHER -> view[k]) \subseteq Node
  <2>1. view[k] \subseteq Node /\ view[n] \subseteq Node /\ Merged(k, n) \subseteq Node
    BY MergedType DEF TypeOK
  <2>2. UNION {Merged(n, p) : p \in found} \subseteq Node
    BY MergedType
  <2> HIDE DEF found
  <2> QED
    BY <2>1, <2>2
<1> QED
  BY <1>1 DEF ViewsAfterJoin

LEMMA AnswersType ==
    ASSUME TypeOK, NEW p \in Node
    PROVE  PeersAnswer(p) \subseteq Node /\ MdnsNodes \subseteq Node
  BY DEF TypeOK, PeersAnswer, MdnsNodes

\* The end of a process leaves every variable of the node in its type.
LEMMA GoneType ==
    ASSUME TypeOK, NEW n \in Node, Gone(n)
    PROVE  /\ phase' \in [Node -> {"off", "creating", "on", "left"}]
           /\ config' \in [Node -> {"none", "rejoin", "http", "mdns"}]
           /\ view' \in [Node -> SUBSET Node]
           /\ loop' \in [Node -> {"none", "rejoin", "http", "mdns"}]
           /\ tries' \in [Node -> 0..HttpTries]
           /\ handlers' \subseteq Node
           /\ queue' \in [Node -> [Message -> 0..RetransmitLimit]]
           /\ starts' \in 0..MaxStarts
<1>1. 0 \in 0..HttpTries /\ 0 \in 0..RetransmitLimit
  BY GossipAssumption
<1>2. [m \in Message |-> 0] \in [Message -> 0..RetransmitLimit]
  BY <1>1
<1> QED
  BY <1>1, <1>2 DEF TypeOK, Gone

\* The steps of Start, of discovery and of Stop.
LEMMA DiscoveryType ==
    ASSUME TypeOK, NEW n \in Node,
           \/ Create(n) \/ Started(n) \/ Stop(n) \/ OnMessage(n) \/ LoopEnds(n)
           \/ Rejoin(n) \/ DiscoverHTTP(n) \/ RunDiscovery(n)
    PROVE  TypeOK'
<1> USE GossipAssumption DEF msgVars, netVars
<1>0. Peers[n] \in SUBSET Node /\ Discovery[n] \subseteq {"rejoin", "http", "mdns", "none"}
  OBVIOUS
<1>1. CASE Create(n)
  BY <1>1 DEF Create, TypeOK
<1>2. CASE Started(n)
  <2>1. PICK kind \in Discovery[n] :
          /\ config' = [config EXCEPT ![n] = kind]
          /\ loop' = [loop EXCEPT ![n] = kind]
          /\ tries' = [tries EXCEPT ![n] = IF kind = "http" THEN HttpTries ELSE 0]
          /\ view' = IF kind = "rejoin" THEN ViewsAfterJoin(n, Peers[n]) ELSE view
    BY <1>2 DEF Started
  <2>2. kind \in {"none", "rejoin", "http", "mdns"}
    BY <1>0
  <2>3. view' \in [Node -> SUBSET Node]
    BY <1>0, <2>1, JoinType DEF TypeOK
  <2>4. 0 \in 0..HttpTries /\ HttpTries \in 0..HttpTries
    OBVIOUS
  <2>5. tries' \in [Node -> 0..HttpTries]
    BY <2>1, <2>4 DEF TypeOK
  <2> QED
    BY <1>2, <2>1, <2>2, <2>3, <2>5 DEF Started, TypeOK
<1>3. CASE Stop(n)
  BY <1>3 DEF Stop, TypeOK
<1>4. CASE OnMessage(n)
  BY <1>4 DEF OnMessage, TypeOK
<1>5. CASE LoopEnds(n)
  BY <1>5 DEF LoopEnds, TypeOK
<1>6. CASE Rejoin(n)
  BY <1>0, <1>6, JoinType DEF Rejoin, TypeOK
<1>7. CASE DiscoverHTTP(n)
  <2>1. view' \in [Node -> SUBSET Node]
    BY <1>7, JoinType, AnswersType DEF DiscoverHTTP, TypeOK
  <2>2. tries[n] - 1 \in 0..HttpTries
    BY <1>7 DEF DiscoverHTTP, MayAsk, TypeOK
  <2> QED
    BY <1>7, <2>1, <2>2 DEF DiscoverHTTP, TypeOK
<1>8. CASE RunDiscovery(n)
  <2>1. MdnsNodes \ {n} \in SUBSET Node
    BY AnswersType
  <2> QED
    BY <1>8, <2>1, JoinType DEF RunDiscovery, TypeOK
<1> QED
  BY <1>1, <1>2, <1>3, <1>4, <1>5, <1>6, <1>7, <1>8

\* Partitions, crashes and what memberlist does with the views.
LEMMA NetworkType ==
    ASSUME TypeOK,
           \/ Partition
           \/ \E n \in Node : Crash(n) \/ PanicsEarly(n)
           \/ \E n, p \in Node : Forget(n, p) \/ Hear(n, p)
    PROVE  TypeOK'
<1> USE GossipAssumption DEF msgVars, netVars, nodeVars
<1>1. CASE Partition
  BY <1>1 DEF Partition, TypeOK
<1>2. ASSUME NEW n \in Node, Crash(n) \/ PanicsEarly(n) PROVE TypeOK'
  <2>1. Gone(n) /\ UNCHANGED <<packets, sent, handled, cut, cuts>>
    BY <1>2 DEF Crash, PanicsEarly
  <2> QED
    BY <2>1, GoneType DEF TypeOK
<1>3. ASSUME NEW n \in Node, NEW p \in Node, Forget(n, p) PROVE TypeOK'
  BY <1>3 DEF Forget, TypeOK
<1>4. ASSUME NEW n \in Node, NEW p \in Node, Hear(n, p) PROVE TypeOK'
  BY <1>4, MergedType DEF Hear, TypeOK
<1> QED
  BY <1>1, <1>2, <1>3, <1>4

\* The messages.
LEMMA MessageType ==
    ASSUME TypeOK,
           \/ \E n \in Node, m \in Message :
                \/ Broadcast(n, m) \/ SendAny(n, m)
                \/ \E to \in Node : Send(n, to, m) \/ Transmit(n, to, m)
           \/ \E p \in packets : Receive(p) \/ Lost(p)
    PROVE  TypeOK'
<1> USE GossipAssumption DEF msgVars, netVars, nodeVars
<1>0. 0 \in 0..RetransmitLimit /\ RetransmitLimit \in 0..RetransmitLimit
  OBVIOUS
<1>1. ASSUME NEW n \in Node, NEW m \in Message, Broadcast(n, m) PROVE TypeOK'
  BY <1>0, <1>1 DEF Broadcast, TypeOK
<1>2. ASSUME NEW n \in Node, NEW m \in Message, NEW to \in Node, Send(n, to, m)
      PROVE  TypeOK'
  <2>1. [from |-> n, to |-> to, msg |-> m, nth |-> 0] \in Packet
    BY <1>0 DEF Packet
  <2> QED
    BY <1>2, <2>1 DEF Send, TypeOK
<1>3. ASSUME NEW n \in Node, NEW m \in Message, SendAny(n, m) PROVE TypeOK'
  <2>1. PICK to \in view[n] \ {n} : Send(n, to, m)
    BY <1>3 DEF SendAny
  <2>2. to \in Node
    BY <2>1 DEF TypeOK
  <2> QED
    BY <1>2, <2>1, <2>2
<1>4. ASSUME NEW n \in Node, NEW m \in Message, NEW to \in Node, Transmit(n, to, m)
      PROVE  TypeOK'
  <2>1. queue[n][m] \in 0..RetransmitLimit /\ queue[n][m] > 0
    BY <1>4 DEF Transmit, TypeOK
  <2>2. [from |-> n, to |-> to, msg |-> m, nth |-> queue[n][m]] \in Packet
    BY <2>1 DEF Packet
  <2>3. queue[n][m] - 1 \in 0..RetransmitLimit
    BY <2>1
  <2>4. queue' \in [Node -> [Message -> 0..RetransmitLimit]]
    BY <1>4, <2>3 DEF Transmit, TypeOK
  <2> QED
    BY <1>4, <2>2, <2>4 DEF Transmit, TypeOK
<1>5. ASSUME NEW p \in packets, Receive(p) PROVE TypeOK'
  <2>1. p \in Packet /\ p.to \in Node
    BY DEF TypeOK, Packet
  <2>2. /\ packets' \subseteq Packet /\ handled' \subseteq Packet
        /\ UNCHANGED <<sent, cut, cuts>>
    BY <1>5, <2>1 DEF Receive, HandleMessage, TypeOK
  <2>3. CASE UNCHANGED <<nodeVars, queue>>
    BY <2>2, <2>3 DEF TypeOK
  <2>4. CASE Gone(p.to)
    BY <2>1, <2>2, <2>4, GoneType DEF TypeOK
  <2> QED
    BY <1>5, <2>3, <2>4 DEF Receive, HandleMessage
<1>6. ASSUME NEW p \in packets, Lost(p) PROVE TypeOK'
  BY <1>6 DEF Lost, TypeOK
<1> QED
  BY <1>1, <1>2, <1>3, <1>4, <1>5, <1>6

\* Every variable keeps its type: what a join takes over are nodes, no process asks for
\* its peers more often than it may, no broadcast is queued more often than the limit.
THEOREM GossipTypeCorrect == Spec => []TypeOK
<1>1. Init => TypeOK
  BY GossipAssumption DEF Init, TypeOK
<1>2. TypeOK /\ [Next]_vars => TypeOK'
  <2>1. CASE UNCHANGED vars
    BY <2>1 DEF vars, nodeVars, msgVars, netVars, TypeOK
  <2>2. ASSUME TypeOK, Next PROVE TypeOK'
    BY <2>2, DiscoveryType, NetworkType, MessageType DEF Next
  <2> QED
    BY <2>1, <2>2
<1> QED
  BY <1>1, <1>2, PTL DEF Spec

-----------------------------------------------------------------------------
\* How often a message is delivered.  The copies of a message are the packets of it that
\* are under way or handled.  A broadcast's copies carry different numbers, all above
\* what its one sender has left; a direct message has one copy and is in no queue.

Copies(m) == {p \in packets \cup handled : p.msg = m}

UnsentIsNowhere ==
    \A m \in Message \ sent : Copies(m) = {} /\ \A n \in Node : queue[n][m] = 0

OneSender ==
    \A m \in Message : \A n, k \in Node : queue[n][m] > 0 /\ queue[k][m] > 0 => n = k

CopiesCountDown ==
    \A m \in Message : \A p \in Copies(m), n \in Node :
        queue[n][m] > 0 => p.nth > queue[n][m]

CopiesDiffer ==
    \A m \in Message : \A p, q \in Copies(m) :
        p.nth = q.nth \/ p.nth = 0 => p = q

MessageInv == UnsentIsNowhere /\ OneSender /\ CopiesCountDown /\ CopiesDiffer

\* A step that adds no copy and fills no queue keeps all of it.
LEMMA FewerCopies ==
    ASSUME TypeOK, MessageInv, TypeOK', sent' = sent,
           packets' \cup handled' \subseteq packets \cup handled,
           \A n \in Node, m \in Message : queue'[n][m] = queue[n][m] \/ queue'[n][m] = 0
    PROVE  MessageInv'
<1>1. \A m \in Message : Copies(m)' \subseteq Copies(m)
  BY DEF Copies
<1>2. \A n \in Node, m \in Message : queue'[n][m] > 0 => queue'[n][m] = queue[n][m]
  OBVIOUS
<1>3. UnsentIsNowhere'
  BY <1>1 DEF MessageInv, UnsentIsNowhere
<1>4. OneSender'
  BY <1>2 DEF MessageInv, OneSender
<1>5. CopiesCountDown'
  <2> SUFFICES ASSUME NEW m \in Message, NEW p \in Copies(m)', NEW n \in Node,
                      queue'[n][m] > 0
               PROVE  p.nth > queue'[n][m]
    BY DEF CopiesCountDown
  <2>1. p \in Copies(m) /\ queue'[n][m] = queue[n][m] /\ queue[n][m] > 0
    BY <1>1, <1>2
  <2> QED
    BY <2>1 DEF MessageInv, CopiesCountDown
<1>6. CopiesDiffer'
  BY <1>1 DEF MessageInv, CopiesDiffer
<1> QED
  BY <1>3, <1>4, <1>5, <1>6 DEF MessageInv

\* A process that ends takes its queue with it.
LEMMA GoneKeepsQueues ==
    ASSUME TypeOK, NEW k \in Node, Gone(k)
    PROVE  \A n \in Node, m \in Message : queue'[n][m] = queue[n][m] \/ queue'[n][m] = 0
  BY DEF TypeOK, Gone

LEMMA BroadcastKeeps ==
    ASSUME TypeOK, MessageInv, NEW n \in Node, NEW m \in Message, Broadcast(n, m)
    PROVE  MessageInv'
<1> USE GossipAssumption DEF Broadcast, MessageInv
<1>1. \A j \in Message : Copies(j)' = Copies(j)
  BY DEF Copies
<1>2. Copies(m) = {} /\ \A k \in Node : queue[k][m] = 0
  BY DEF UnsentIsNowhere
<1>3. \A k \in Node, j \in Message :
        queue'[k][j] = IF k = n /\ j = m THEN RetransmitLimit ELSE queue[k][j]
  BY DEF TypeOK
<1>4. UnsentIsNowhere'
  BY <1>1, <1>3 DEF UnsentIsNowhere
<1>5. OneSender'
  <2> SUFFICES ASSUME NEW j \in Message, NEW a \in Node, NEW b \in Node,
                      queue'[a][j] > 0, queue'[b][j] > 0
               PROVE  a = b
    BY DEF OneSender
  <2>1. CASE j = m
    BY <1>2, <1>3, <2>1
  <2>2. CASE j # m
    BY <1>3, <2>2 DEF OneSender
  <2> QED
    BY <2>1, <2>2
<1>6. CopiesCountDown'
  <2> SUFFICES ASSUME NEW j \in Message, NEW p \in Copies(j), NEW a \in Node,
                      queue'[a][j] > 0
               PROVE  p.nth > queue'[a][j]
    BY <1>1 DEF CopiesCountDown
  <2>1. j # m
    BY <1>2
  <2> QED
    BY <1>3, <2>1 DEF CopiesCountDown
<1>7. CopiesDiffer'
  BY <1>1 DEF CopiesDiffer
<1> QED
  BY <1>4, <1>5, <1>6, <1>7

LEMMA SendKeeps ==
    ASSUME TypeOK, MessageInv, NEW n \in Node, NEW to \in Node, NEW m \in Message,
           Send(n, to, m)
    PROVE  MessageInv'
<1> DEFINE new == [from |-> n, to |-> to, msg |-> m, nth |-> 0]
<1>1. /\ m \notin sent /\ sent' = sent \cup {m} /\ UNCHANGED queue
      /\ packets' = packets \cup {new} /\ handled' = handled /\ new.msg = m
  BY DEF Send
<1>2. Copies(m) = {} /\ \A k \in Node : queue[k][m] = 0
  BY <1>1 DEF MessageInv, UnsentIsNowhere
<1> HIDE DEF new
<1>3. \A j \in Message : Copies(j)' = IF j = m THEN {new} ELSE Copies(j)
  BY <1>1, <1>2 DEF Copies
<1>4. UnsentIsNowhere'
  BY <1>1, <1>3 DEF MessageInv, UnsentIsNowhere
<1>5. OneSender'
  BY <1>1 DEF MessageInv, OneSender
<1>6. CopiesCountDown'
  <2> SUFFICES ASSUME NEW j \in Message, NEW p \in Copies(j)', NEW a \in Node,
                      queue[a][j] > 0
               PROVE  p.nth > queue[a][j]
    BY <1>1 DEF CopiesCountDown
  <2>1. j # m
    BY <1>2
  <2> QED
    BY <1>3, <2>1 DEF MessageInv, CopiesCountDown
<1>7. CopiesDiffer'
  BY <1>3 DEF MessageInv, CopiesDiffer
<1> QED
  BY <1>4, <1>5, <1>6, <1>7 DEF MessageInv

\* The new copy's number is what the sender had left: below those of all other copies.
LEMMA TransmitKeeps ==
    ASSUME TypeOK, MessageInv, NEW n \in Node, NEW to \in Node, NEW m \in Message,
           Transmit(n, to, m)
    PROVE  MessageInv'
<1> DEFINE new == [from |-> n, to |-> to, msg |-> m, nth |-> queue[n][m]]
<1>1. /\ UNCHANGED sent /\ packets' = packets \cup {new} /\ handled' = handled
      /\ new.msg = m /\ new.nth = queue[n][m]
      /\ queue[n][m] \in 0..RetransmitLimit /\ queue[n][m] > 0
  BY DEF Transmit, TypeOK
<1> HIDE DEF new
<1>2. \A k \in Node, j \in Message :
        queue'[k][j] = IF k = n /\ j = m THEN queue[n][m] - 1 ELSE queue[k][j]
  BY DEF Transmit, TypeOK
<1>3. \A j \in Message : Copies(j)' = IF j = m THEN Copies(m) \cup {new} ELSE Copies(j)
  BY <1>1 DEF Copies
<1>4. m \in sent
  BY <1>1 DEF MessageInv, UnsentIsNowhere
<1>5. UnsentIsNowhere'
  BY <1>1, <1>2, <1>3, <1>4 DEF MessageInv, UnsentIsNowhere
<1>6. \A k \in Node, j \in Message : queue[k][j] \in Nat
  BY GossipAssumption DEF TypeOK
<1>7. \A k \in Node : queue[k][m] > 0 => k = n
  BY <1>1 DEF MessageInv, OneSender
<1>8. OneSender'
  BY <1>2, <1>6, <1>7 DEF MessageInv, OneSender
<1>9. \A p \in Copies(m) : p.nth > queue[n][m] /\ p.nth \in Nat
  BY <1>1, GossipAssumption DEF MessageInv, CopiesCountDown, Copies, TypeOK, Packet
<1>10. CopiesCountDown'
  <2> SUFFICES ASSUME NEW j \in Message, NEW p \in Copies(j)', NEW a \in Node,
                      queue'[a][j] > 0
               PROVE  p.nth > queue'[a][j]
    BY DEF CopiesCountDown
  <2>1. CASE j = m
    <3>1. a = n /\ queue'[a][j] = queue[n][m] - 1
      BY <1>2, <1>7, <2>1
    <3>2. p.nth >= queue[n][m] /\ p.nth \in Nat
      BY <1>1, <1>3, <1>6, <1>9, <2>1
    <3> QED
      BY <1>6, <3>1, <3>2
  <2>2. CASE j # m
    BY <1>2, <1>3, <2>2 DEF MessageInv, CopiesCountDown
  <2> QED
    BY <2>1, <2>2
<1>11. CopiesDiffer'
  <2> SUFFICES ASSUME NEW j \in Message, NEW p \in Copies(j)', NEW q \in Copies(j)',
                      p.nth = q.nth \/ p.nth = 0
               PROVE  p = q
    BY DEF CopiesDiffer
  <2>1. CASE j # m
    BY <1>3, <2>1 DEF MessageInv, CopiesDiffer
  <2>2. CASE j = m /\ p \in Copies(m) /\ q \in Copies(m)
    BY <2>2 DEF MessageInv, CopiesDiffer
  <2>3. CASE j = m /\ p = new
    BY <1>1, <1>3, <1>6, <1>9, <2>3
  <2>4. CASE j = m /\ q = new
    BY <1>1, <1>3, <1>6, <1>9, <2>4
  <2> QED
    BY <1>3, <2>1, <2>2, <2>3, <2>4
<1> QED
  BY <1>5, <1>8, <1>10, <1>11 DEF MessageInv

LEMMA MessageStep ==
    ASSUME TypeOK, MessageInv, TypeOK', [Next]_vars
    PROVE  MessageInv'
<1> USE DEF vars, nodeVars, msgVars, netVars
<1>1. CASE UNCHANGED msgVars
  BY <1>1, FewerCopies
<1>2. ASSUME NEW n \in Node, Gone(n), UNCHANGED <<packets, sent, handled>>
      PROVE  MessageInv'
  BY <1>2, GoneKeepsQueues, FewerCopies
<1>3. ASSUME NEW n \in Node, NEW m \in Message, SendAny(n, m)
      PROVE  MessageInv'
  <2>1. PICK to \in view[n] \ {n} : Send(n, to, m)
    BY <1>3 DEF SendAny
  <2>2. to \in Node
    BY <2>1 DEF TypeOK
  <2> QED
    BY <2>1, <2>2, SendKeeps
<1>4. ASSUME NEW p \in packets, Receive(p)
      PROVE  MessageInv'
  <2>1. /\ sent' = sent /\ packets' \cup handled' \subseteq packets \cup handled
        /\ UNCHANGED queue \/ Gone(p.to)
    BY <1>4 DEF Receive, HandleMessage
  <2>2. p.to \in Node
    BY DEF TypeOK, Packet
  <2> QED
    BY <2>1, <2>2, GoneKeepsQueues, FewerCopies
<1>5. ASSUME NEW p \in packets, Lost(p)
      PROVE  MessageInv'
  BY <1>5, FewerCopies DEF Lost
<1>6. ASSUME NEW n \in Node, Crash(n) \/ PanicsEarly(n)
      PROVE  MessageInv'
  BY <1>2, <1>6 DEF Crash, PanicsEarly
<1>7. CASE Partition \/ \E n, p \in Node : Forget(n, p) \/ Hear(n, p)
  BY <1>1, <1>7 DEF Partition, Forget, Hear
<1>8. CASE \E n \in Node : \/ Create(n) \/ Started(n) \/ Stop(n) \/ OnMessage(n)
                           \/ LoopEnds(n) \/ Rejoin(n) \/ DiscoverHTTP(n)
                           \/ RunDiscovery(n)
  BY <1>1, <1>8 DEF Create, Started, Stop, OnMessage, LoopEnds, Rejoin, DiscoverHTTP,
                    RunDiscovery
<1> QED
  BY <1>1, <1>3, <1>4, <1>5, <1>6, <1>7, <1>8, BroadcastKeeps, SendKeeps, TransmitKeeps
     DEF Next

\* Deliveries of a message are told apart by their numbers, of which there are as many
\* as transmissions.
LEMMA NumbersBound ==
    ASSUME TypeOK, MessageInv, NEW m \in Message
    PROVE  /\ Cardinality(Deliveries(m)) <= RetransmitLimit
           /\ \A p \in Deliveries(m) : p.nth = 0 => Deliveries(m) = {p}
<1> USE GossipAssumption
<1>1. /\ Deliveries(m) \subseteq Copies(m)
      /\ \A p \in Deliveries(m) : p.nth \in 0..RetransmitLimit
  BY DEF Deliveries, Copies, TypeOK, Packet
<1>2. \A p, q \in Deliveries(m) : p.nth = q.nth \/ p.nth = 0 => p = q
  BY <1>1 DEF MessageInv, CopiesDiffer
<1>3. \A p \in Deliveries(m) : p.nth = 0 => Deliveries(m) = {p}
  BY <1>2
<1>4. CASE \E p \in Deliveries(m) : p.nth = 0
  <2>1. PICK p \in Deliveries(m) : Deliveries(m) = {p}
    BY <1>3, <1>4
  <2>2. Cardinality(Deliveries(m)) = 1
    BY <2>1, FS_Singleton
  <2> QED
    BY <1>3, <2>2
<1>5. CASE \A p \in Deliveries(m) : p.nth # 0
  <2> DEFINE number == [p \in Deliveries(m) |-> p.nth]
  <2>1. number \in [Deliveries(m) -> 1..RetransmitLimit]
    <3>1. \A p \in Deliveries(m) : p.nth \in 1..RetransmitLimit
      BY <1>1, <1>5
    <3> QED
      BY <3>1
  <2>2. \A p, q \in Deliveries(m) : number[p] = number[q] => p = q
    BY <1>2
  <2>3. number \in Injection(Deliveries(m), 1..RetransmitLimit)
    <3> HIDE DEF number
    <3> QED
      BY <2>1, <2>2 DEF Injection, IsInjective
  <2>4. IsFiniteSet(1..RetransmitLimit) /\ Cardinality(1..RetransmitLimit) = RetransmitLimit
    <3>1. 1 \in Int /\ RetransmitLimit \in Int /\ ~(1 > RetransmitLimit)
      OBVIOUS
    <3>2. /\ IsFiniteSet(1..RetransmitLimit)
          /\ Cardinality(1..RetransmitLimit) = RetransmitLimit - 1 + 1
      BY <3>1, FS_Interval
    <3> QED
      BY <3>1, <3>2
  <2>5. Cardinality(Deliveries(m)) <= Cardinality(1..RetransmitLimit)
    <3> HIDE DEF number
    <3> QED
      BY <2>3, <2>4, FS_Injection
  <2> QED
    BY <1>3, <2>4, <2>5
<1> QED
  BY <1>4, <1>5

\* For any cluster and any number of transmissions no message is handled more often than
\* memberlist transmits it, and a direct message at most once, through lost packets,
\* crashes, restarts and partitions.
THEOREM DeliveriesBounded == Spec => []DeliveriesAreBounded
<1>1. TypeOK /\ Init => MessageInv
  BY DEF Init, MessageInv, UnsentIsNowhere, OneSender, CopiesCountDown, CopiesDiffer, Copies
<1>2. TypeOK /\ TypeOK' /\ MessageInv /\ [Next]_vars => MessageInv'
  BY MessageStep
<1>3. TypeOK /\ MessageInv => DeliveriesAreBounded
  BY NumbersBound DEF DeliveriesAreBounded
<1> QED
  BY <1>1, <1>2, <1>3, GossipTypeCorrect, PTL DEF Spec

=============================================================================
