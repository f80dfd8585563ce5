---------------------------- MODULE GossipCluster ----------------------------
(***************************************************************************)
(* cluster/cluster.go: a node finds its peers, keeps a view of them, and   *)
(* sends them messages.  hashicorp/memberlist and mDNS are external: what  *)
(* is said of them is what their callers in cluster.go rely on.            *)
(*                                                                         *)
(* A node that has stopped has left the membership, but Stop does not shut *)
(* memberlist down: it goes on receiving, and its handlers go on running.  *)
(***************************************************************************)
EXTENDS Naturals, FiniteSets

CONSTANTS
    Node,             \* the nodes
    Peers,            \* Peers[n]: the nodes in Config.Peers, when n has static peers
    Discovery,        \* Discovery[n]: the kinds of discovery n may be started with
    Message,          \* the messages the applications send, each once
    RetransmitLimit,  \* how often memberlist transmits a broadcast: RetransmitMult
                      \* (3) times the number of digits of the number of members
    HttpTries,        \* how often the HTTP discovery asks (5 in the code)
    MaxStarts, MaxCuts  \* bounds: starts of nodes, partitions of the network

ASSUME GossipAssumption ==
    /\ IsFiniteSet(Node)
    /\ Peers \in [Node -> SUBSET Node]
    /\ Discovery \in [Node -> SUBSET {"rejoin", "http", "mdns", "none"}]
    /\ RetransmitLimit \in Nat \ {0}
    /\ {HttpTries, MaxStarts, MaxCuts} \subseteq Nat

VARIABLES
    phase,     \* phase[n]: no process, in Start after memberlist.Create, Start has
               \* returned, Stop has returned
    config,    \* config[n]: the kind of discovery n was started with
    view,      \* view[n]: the members n knows (list.Members())
    loop,      \* loop[n]: the discovery goroutine of n that is running
    tries,     \* tries[n]: requests left to the HTTP discovery of n
    handlers,  \* the nodes with a message handler (messageHandlers of the topic)
    queue,     \* queue[n]: transmissions left of the broadcasts queued at n
    packets,   \* the messages under way
    sent,      \* history: the messages sent
    handled,   \* history: the packets that were given to a handler
    starts,    \* how often a node was started
    cut, cuts  \* the nodes cut off from the others; how often that has changed

msgVars == <<queue, packets, sent, handled>>
netVars == <<cut, cuts>>
nodeVars == <<phase, config, view, loop, tries, handlers, starts>>
vars == <<nodeVars, msgVars, netVars>>

\* nth counts the transmissions of a broadcast down; 0 is a direct message.
Packet == [from : Node, to : Node, msg : Message, nth : 0..RetransmitLimit]
DirectPacket == [from : Node, to : Node, msg : Message, nth : {0}]

TypeOK ==
    /\ phase \in [Node -> {"off", "creating", "on", "left"}]
    /\ config \in [Node -> {"none", "rejoin", "http", "mdns"}]
    /\ view \in [Node -> SUBSET Node]
    /\ loop \in [Node -> {"none", "rejoin", "http", "mdns"}]
    /\ tries \in [Node -> 0..HttpTries]
    /\ handlers \subseteq Node
    /\ queue \in [Node -> [Message -> 0..RetransmitLimit]]
    /\ packets \subseteq Packet
    /\ sent \subseteq Message
    /\ handled \subseteq Packet
    /\ starts \in 0..MaxStarts
    /\ cut \subseteq Node
    /\ cuts \in 0..MaxCuts

Init ==
    /\ phase = [n \in Node |-> "off"]
    /\ config = [n \in Node |-> "none"]
    /\ view = [n \in Node |-> {}]
    /\ loop = [n \in Node |-> "none"]
    /\ tries = [n \in Node |-> 0]
    /\ handlers = {}
    /\ queue = [n \in Node |-> [m \in Message |-> 0]]
    /\ packets = {}
    /\ sent = {}
    /\ handled = {}
    /\ starts = 0
    /\ cut = {}
    /\ cuts = 0

-----------------------------------------------------------------------------
\* The network and memberlist.

Linked(a, b) == (a \in cut) <=> (b \in cut)
Listening(n) == phase[n] # "off"
Running(n) == phase[n] \in {"on", "left"}
Reachable(n, p) == p # n /\ Listening(p) /\ Linked(n, p)

\* What k takes over from the view of another: of a member that has left or
\* failed the other can only tell what k knows to be older.
Merged(k, other) == view[k] \cup {m \in view[other] : m \in view[m]}

\* memberlist.Join: n and each target that answers exchange their members.
ViewsAfterJoin(n, targets) ==
    LET found == {p \in targets : Reachable(n, p)}
    IN  [k \in Node |->
           CASE k = n -> view[n] \cup UNION {Merged(n, p) : p \in found}
             [] k \in found -> Merged(k, n)
             [] OTHER -> view[k]]

\* A process ends, and with it its goroutines and everything in its memory.
Gone(n) ==
    /\ phase' = [phase EXCEPT ![n] = "off"]
    /\ config' = [config EXCEPT ![n] = "none"]
    /\ view' = [view EXCEPT ![n] = {}]
    /\ loop' = [loop EXCEPT ![n] = "none"]
    /\ tries' = [tries EXCEPT ![n] = 0]
    /\ handlers' = handlers \ {n}
    /\ queue' = [queue EXCEPT ![n] = [m \in Message |-> 0]]
    /\ UNCHANGED starts

Crash(n) ==
    /\ Listening(n)
    /\ Gone(n)
    /\ UNCHANGED <<packets, sent, handled, netVars>>

\* The network is cut in two, or heals; one fixed node is never counted as cut off.
Partition ==
    /\ cuts < MaxCuts
    /\ \E side \in SUBSET (Node \ {CHOOSE n \in Node : TRUE}) :
         side # cut /\ cut' = side
    /\ cuts' = cuts + 1
    /\ UNCHANGED <<nodeVars, msgVars>>

\* n hears that m has left, or gets no answers from it; NotifyLeave follows.
Forget(n, m) ==
    /\ Listening(n)
    /\ m \in view[n] \ {n}
    /\ m \notin view[m] \/ ~Linked(n, m)
    /\ view' = [view EXCEPT ![n] = @ \ {m}]
    /\ UNCHANGED <<phase, config, loop, tries, handlers, starts, msgVars, netVars>>

\* A member of n's view tells n of another member; NotifyJoin follows.
Hear(n, p) ==
    /\ phase[n] \in {"creating", "on"}
    /\ p \in view[n]
    /\ Reachable(n, p)
    /\ view' = [view EXCEPT ![n] = Merged(n, p)]
    /\ UNCHANGED <<phase, config, loop, tries, handlers, starts, msgVars, netVars>>

-----------------------------------------------------------------------------
\* Start, discovery and Stop.

\* Start up to memberlist.Create, from which on the listeners run.
Create(n) ==
    /\ phase[n] = "off"
    /\ starts < MaxStarts
    /\ starts' = starts + 1
    /\ phase' = [phase EXCEPT ![n] = "creating"]
    /\ view' = [view EXCEPT ![n] = {n}]
    /\ UNCHANGED <<config, loop, tries, handlers, msgVars, netVars>>

\* The rest of Start: the fields are set, static peers are joined, and a discovery
\* loop begins: over them if there are any, else over HTTP if the host name resolves
\* to a service, else over mDNS if it is enabled.
Started(n) ==
    /\ phase[n] = "creating"
    /\ phase' = [phase EXCEPT ![n] = "on"]
    /\ \E kind \in Discovery[n] :
         /\ config' = [config EXCEPT ![n] = kind]
         /\ loop' = [loop EXCEPT ![n] = kind]
         /\ tries' = [tries EXCEPT ![n] = IF kind = "http" THEN HttpTries ELSE 0]
         /\ view' = IF kind = "rejoin" THEN ViewsAfterJoin(n, Peers[n]) ELSE view
    /\ UNCHANGED <<handlers, starts, msgVars, netVars>>

\* Mutant of Rejoin: it ends like the HTTP discovery once there is a member.
RejoinOnce(n) ==
    /\ loop[n] = "rejoin"
    /\ view' = ViewsAfterJoin(n, Peers[n])
    /\ loop' = [loop EXCEPT ![n] = IF Cardinality(view[n]) > 1 THEN "none" ELSE @]
    /\ UNCHANGED <<phase, config, tries, handlers, starts, msgVars, netVars>>

\* rejoinLoop joins the static peers every 15 s, for ever.
Rejoin(n) ==
    /\ loop[n] = "rejoin"
    /\ view' = ViewsAfterJoin(n, Peers[n])
    /\ UNCHANGED <<phase, config, loop, tries, handlers, starts, msgVars, netVars>>

\* Mutant of MayAsk: one request too many.
MayAskAgain(n) == loop[n] = "http" /\ tries[n] >= 0 /\ Cardinality(view[n]) <= 1

MayAsk(n) == loop[n] = "http" /\ tries[n] > 0 /\ Cardinality(view[n]) <= 1

\* ClusterPeersHandler: the node itself and the members it knows.
PeersAnswer(p) == {p} \cup view[p]

\* httpDiscoveryLoop asks whichever node the service's name leads to, n itself
\* included, and joins all that the answer names.
DiscoverHTTP(n) ==
    /\ MayAsk(n)
    /\ tries' = [tries EXCEPT ![n] = @ - 1]
    /\ \/ \E p \in Node :
             /\ Running(p)
             /\ Linked(n, p)
             /\ view' = ViewsAfterJoin(n, PeersAnswer(p))
       \/ UNCHANGED view   \* no answer
    /\ UNCHANGED <<phase, config, loop, handlers, starts, msgVars, netVars>>

\* The HTTP discovery is over once it has found a member or asked five times;
\* every loop ends when stopCh is closed.
LoopEnds(n) ==
    /\ loop[n] # "none"
    /\ phase[n] = "left" \/ (loop[n] = "http" /\ ~MayAsk(n))
    /\ loop' = [loop EXCEPT ![n] = "none"]
    /\ tries' = [tries EXCEPT ![n] = 0]
    /\ UNCHANGED <<phase, config, view, handlers, starts, msgVars, netVars>>

\* runDiscovery asks by multicast for the nodes that offer the mDNS service, at
\* first after 2 s and then every 30 s, for ever, and joins each.
MdnsNodes == {p \in Node : phase[p] = "on" /\ config[p] = "mdns"}

RunDiscovery(n) ==
    /\ loop[n] = "mdns"
    /\ view' = ViewsAfterJoin(n, MdnsNodes \ {n})
    /\ UNCHANGED <<phase, config, loop, tries, handlers, starts, msgVars, netVars>>

\* Mutant of Stop: it ends the discovery without list.Leave.
StopLoops(n) ==
    /\ phase[n] = "on"
    /\ phase' = [phase EXCEPT ![n] = "left"]
    /\ UNCHANGED <<config, view, loop, tries, handlers, starts, msgVars, netVars>>

\* Stop closes stopCh and leaves; a second Stop would close it again and panic.
Stop(n) ==
    /\ phase[n] = "on"
    /\ phase' = [phase EXCEPT ![n] = "left"]
    /\ view' = [view EXCEPT ![n] = @ \ {n}]
    /\ UNCHANGED <<config, loop, tries, handlers, starts, msgVars, netVars>>

-----------------------------------------------------------------------------
\* Messages.

\* The application registers its handler when Start has returned: Start makes the
\* map anew, and before the first Start there is none to write to.
OnMessage(n) ==
    /\ phase[n] = "on"
    /\ n \notin handlers
    /\ handlers' = handlers \cup {n}
    /\ UNCHANGED <<phase, config, view, loop, tries, starts, msgVars, netVars>>

\* Broadcast queues the message; it fails only when it cannot be encoded.
Broadcast(n, m) ==
    /\ Running(n)
    /\ m \notin sent
    /\ sent' = sent \cup {m}
    /\ queue' = [queue EXCEPT ![n][m] = RetransmitLimit]
    /\ UNCHANGED <<nodeVars, packets, handled, netVars>>

\* Send to a member n knows; it fails, without effect, when there is none of that
\* name or when the connection cannot be made.  Nothing excludes n itself.
Send(n, to, m) ==
    /\ Running(n)
    /\ m \notin sent
    /\ sent' = sent \cup {m}
    /\ to \in view[n] /\ Listening(to) /\ Linked(n, to)
    /\ packets' = packets \cup {[from |-> n, to |-> to, msg |-> m, nth |-> 0]}
    /\ UNCHANGED <<nodeVars, queue, handled, netVars>>

\* SendAny takes the first member that is not n itself.
SendAny(n, m) == \E to \in view[n] \ {n} : Send(n, to, m)

\* memberlist's gossip tick: one more transmission of one broadcast to one peer.  It
\* travels by UDP: nothing makes Receive happen.
Transmit(n, to, m) ==
    /\ Running(n)
    /\ queue[n][m] > 0
    /\ to \in view[n] \ {n}
    /\ queue' = [queue EXCEPT ![n][m] = @ - 1]
    /\ packets' = packets \cup {[from |-> n, to |-> to, msg |-> m, nth |-> queue[n][m]]}
    /\ UNCHANGED <<nodeVars, sent, handled, netVars>>

\* A gossip tick or a message between memberlist.Create and the assignment of
\* c.list and c.broadcasts finds nil there: the process ends.
PanicsEarly(n) ==
    /\ phase[n] = "creating"
    /\ view[n] # {n}
    /\ Gone(n)
    /\ UNCHANGED <<packets, sent, handled, netVars>>

\* Mutants of HandleMessage: a node passes on what it receives; a message of a
\* sender that is not among the members is refused.
HandleAndForward(p) ==
    /\ handled' = IF p.from # p.to /\ p.to \in handlers THEN handled \cup {p} ELSE handled
    /\ queue' = [queue EXCEPT ![p.to][p.msg] = RetransmitLimit]

HandleKnown(p) ==
    /\ handled' = IF p.from # p.to /\ p.to \in handlers /\ p.from \in view[p.to]
                  THEN handled \cup {p} ELSE handled
    /\ UNCHANGED queue

\* handleMessage: a node's own message, and one nobody has a handler for, is
\* dropped; a sender that is not among the members is handed over by name alone.
HandleMessage(p) ==
    /\ handled' = IF p.from # p.to /\ p.to \in handlers THEN handled \cup {p} ELSE handled
    /\ UNCHANGED queue

Receive(p) ==
    /\ p \in packets
    /\ packets' = packets \ {p}
    /\ \/ /\ Running(p.to)
          /\ HandleMessage(p)
          /\ UNCHANGED nodeVars
       \/ /\ phase[p.to] = "off"
          /\ UNCHANGED <<nodeVars, queue, handled>>
       \/ /\ phase[p.to] = "creating"   \* c.list is nil in handleMessage
          /\ Gone(p.to)
          /\ UNCHANGED handled
    /\ UNCHANGED <<sent, netVars>>

\* A direct message is lost with its connection.
Lost(p) ==
    /\ p \in packets
    /\ p.nth = 0
    /\ ~Linked(p.from, p.to)
    /\ packets' = packets \ {p}
    /\ UNCHANGED <<nodeVars, queue, sent, handled, netVars>>

-----------------------------------------------------------------------------
Next ==
    \/ Partition
    \/ \E n \in Node :
         \/ Crash(n) \/ Create(n) \/ Started(n) \/ Stop(n) \/ PanicsEarly(n)
         \/ Rejoin(n) \/ DiscoverHTTP(n) \/ RunDiscovery(n) \/ LoopEnds(n)
         \/ OnMessage(n)
    \/ \E n, p \in Node : Forget(n, p) \/ Hear(n, p)
    \/ \E n \in Node, m \in Message :
         \/ Broadcast(n, m)
         \/ SendAny(n, m)
         \/ \E to \in Node : Send(n, to, m) \/ Transmit(n, to, m)
    \/ \E p \in packets : Receive(p) \/ Lost(p)

\* A Start that has begun goes on, the endless loops tick, memberlist notices who has
\* left or gives no answer, and what a connection carries arrives while it lasts.
\* Nobody has to start, stop, send or ask over HTTP, and no UDP packet has to arrive.
Fairness ==
    /\ \A n \in Node :
         WF_vars(Started(n)) /\ WF_vars(Rejoin(n)) /\ WF_vars(RunDiscovery(n))
    /\ \A n, m \in Node : WF_vars(Forget(n, m))
    /\ \A p \in DirectPacket : WF_vars(Receive(p))

Spec == Init /\ [][Next]_vars
FairSpec == Spec /\ Fairness

-----------------------------------------------------------------------------
Deliveries(m) == {p \in handled : p.msg = m}

\* A message reaches handlers at most as often as memberlist transmits it, because
\* nobody passes it on: a broadcast RetransmitLimit times, whatever the size of the
\* cluster (so with five nodes at most three of the four others, though Broadcast
\* "sends a message to all cluster members", cluster.go:215), a direct message once,
\* and never in both ways.
DeliveriesAreBounded ==
    \A m \in Message :
        /\ Cardinality(Deliveries(m)) <= RetransmitLimit
        /\ \A p \in Deliveries(m) : p.nth = 0 => Deliveries(m) = {p}

\* Discovery over static peers or mDNS heals: once two nodes run for good and the
\* network between them stays up, each has the other among its members from some
\* time on, whatever partitions, crashes and restarts came before (cluster.go:371,
\* 452).  The HTTP discovery promises no such thing.
SeekEachOther(a, b) ==
    \/ config[a] = "rejoin" /\ b \in Peers[a]
    \/ config[a] = "mdns" /\ config[b] = "mdns"

PeersReconverge ==
    \A a \in Node : \A b \in Node \ {a} :
        <>[](phase[a] = "on" /\ phase[b] = "on" /\ Linked(a, b) /\ SeekEachOther(a, b))
            => <>[](a \in view[b] /\ b \in view[a])

\* A node that has stopped disappears from the members of every running node,
\* although its listeners still answer (cluster.go:172).
LeaveIsSeen ==
    \A a \in Node : \A b \in Node \ {a} :
        (phase[b] = "left" /\ b \in view[a]) ~> (b \notin view[a] \/ phase[b] # "left")

\* A direct message is handled, though its sender may have stopped, failed or been
\* forgotten in the meantime, unless the receiver's process ends or the connection is
\* cut on the way.
DirectIsHandled ==
    \A p \in {q \in DirectPacket : q.from # q.to} :
        (p \in packets /\ p.to \in handlers)
            ~> (p \in handled \/ phase[p.to] = "off" \/ ~Linked(p.from, p.to))

=============================================================================
