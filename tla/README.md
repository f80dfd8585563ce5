# A verification project for greyhound

greyhound is a Go library for services: clustering, configuration, billing,
storage, and AI agents.  This directory models its stateful parts in TLA+,
model-checks them with TLC on small instances and proves the facts that matter
most for every instance with TLAPS.  Line numbers refer to the files under `src/`.

## 1. Inventory

| Component | Source | State it keeps | Operations |
|---|---|---|---|
| Partitioned cluster | `cluster/partitioned.go` | member map, shard map, total shards under `partMu`; apply and change handlers; a Raft log, stable store and snapshots on disk | Start, Stop, Replicate, OnApply, OnChange, the handlers of gossip events, `rebalance`, the FSM's Apply, Snapshot, Restore |
| Gossip cluster | `cluster/cluster.go` | memberlist, message, join and leave handlers, broadcast queue, discovery goroutines | Start, Stop, Broadcast, Send, SendAny, OnMessage, OnJoin, OnLeave, discovery over static peers, HTTP or mDNS |
| Registry client | `configuration/client.go` | cache, subscriptions, change handlers, one WebSocket connection | Get, Resolve, OnChange, Close, the connect loop |
| Billing client | `billing/client.go` | a bounded queue, a done channel, one worker goroutine | Connect, Record, Close |
| Application | `app/app.go` | the listener and the cleanup functions of a service | Init, ListenAndWait |
| Storage | `storage/*.go` | files in a directory, objects in a bucket | Put, Get, List, Delete |
| Conversations | `ai/conversations/*.go` | metadata, messages and cost of a conversation, over a store | Create, Get, Save, AddMessage |
| Agent runs | `ai/agent/{agent,event,skill}.go` | a CLI child process and its pipes, a shared MCP configuration file, a session id | Run |
| JSON extraction | `ai/agent/parse.go` | none | ParseJSON, ParseJSONArray, ParseFiles |
| MCP server | `ai/agent/mcp/server.go` | the table of tools | RegisterTool, Run, HandleHTTP |
| Authentication | `security/*.go` | a token cache with a time to live | Middleware, Sign, Verify |
| Email, encryption, command line, usage, HTTP wrapper | `email`, `encryption`, `cli`, `ai/usage.go`, `server` | none | - |

`security`, `encryption`, `email`, `cli`, `server`, `ai/usage.go` are stateless but
for the token cache.  Storage is used by conversations and by services; a service
creates the clients it needs and hands their Close to `app`.

### How the components interact

- **Gossip and Raft.**  `PartitionedCluster` owns a gossip `Cluster`.  memberlist
  calls its join and leave handlers one at a time; on the Raft leader they turn
  into `AddVoter` and `RemoveServer`, and each change ends in `rebalance`, which
  proposes an "assign" command.  Every node's FSM applies the committed log, so
  the shard map travels through Raft, never through gossip.
- **Registry client.**  Callers of `Get` and the goroutine `connectLoop` share the
  cache (`mu`), the subscriptions (`subMu`) and the connection (`connMu`), each
  with a lock of its own; the registry is reached over HTTP and a WebSocket, two
  channels without a common order.
- **Billing client.**  Callers of `Record`, the worker goroutine and `Close` share
  one buffered channel and the `done` channel.
- **Gossip.**  Applications and discovery loops call memberlist, memberlist's goroutines
  call the message, join and leave handlers; they share the handlers (`mu`) and, without
  a lock, the fields that `Start` sets.
- **Application.**  `app.ListenAndWait` runs the cleanup functions of the service,
  which close its clients, and only then shuts the HTTP server down, whose handlers
  use them.  The handlers sit behind the middleware of `security`, which shares one
  cache of tokens among them.
- **Conversations over storage.**  A conversation is several keys of a store, which
  is a directory or a bucket.  Every process that uses a conversation has its own
  copy in memory; nothing locks.
- **Agent runs.**  A run starts the CLI as a child process, reads its output
  through a pipe, and writes a configuration file in the working directory.

### Hard behaviours, and what makes each component correct

| Component | Hard behaviour | Correct when |
|---|---|---|
| Partitioned cluster | handlers interleave with elections, lost leaderships, restarts, replays and snapshots; futures are ignored | a node's shard map is the last assignment of its log prefix; every assignment deals each shard to one member; joins and leaves reach the map; a `Replicate` that succeeded is committed; handlers see commands in order |
| Gossip cluster | messages that arrive before Start has returned or after a sender has gone, lost broadcasts, discovery while nodes fail, stop and are cut off | the members find each other again; a stopped node is seen to leave; a direct message is handled, once; nothing is handled more often than it was transmitted |
| Registry client | fetch, store and subscribe are three steps; events are lost with the connection; Close races with a dial | the namespace overlay is right for every order of changes; subscriptions survive reconnects; cached values are current in the end |
| Billing client | Close competes with the worker for the queue and does not wait for it | nothing accepted is lost or posted twice; order is kept; Close has drained |
| Storage, conversations | one temporary file per key; several files per operation; crashes in between | a reader finds whole objects; an acknowledged message stays and is read back; totals are backed by messages |
| Application | clients close while handlers run, and the process ends | what a handler recorded before the signal is posted, but for one event |
| Agent runs | the child process blocks on a full pipe; a stale session is retried; runs share a file | a run ends; its result is one run's |
| Token cache | a revocation between a verification and its store; expiry races with lookups | a revoked token is refused for good once its entry has expired |

PROJECT.json lists every hazard at its line, with the properties that cover it.

## 2. Plan

1. **Done: the partitioned cluster** - `ShardAssignment` (pure), `RaftLog` (external),
   `PartitionedCluster` over both, `OwnerLookup` for those who read its shard map; proofs of
   the shard arithmetic, of type correctness and of the agreement of shard map and log.
2. **Done: the two clients with goroutines** - `BillingClient`, `RegistryClient`.
3. **Done: storage** - `Storage`, and `Conversations` composed over it.
4. **Done: agent runs** - `AgentRun`: child process, pipe, scanner, session retry,
   shared file.
5. **Done: gossip** - `GossipCluster`: discovery, membership, broadcast and direct
   messages.
6. **Done: a service** - `TokenCache`, and `Service`, which composes it with
   `BillingClient` and the order of shutdown of `app`.
7. **Done: the change handlers** of `RegistryClient`.
8. Abstract specifications.  **Done:** `ShardDirectory` (one history of assignments, every
   node at a place in it that only grows while it runs), refined by `PartitionedCluster`;
   `UsageOutbox` (accept, post, or lose at most one at exit), refined by
   `Service`.  Left: an append-only message set, by `Conversations`.
9. `ParseJSON`: the delimiter scan of `ParseJSON` against a reference definition.
10. Theorems.  **Done:** every invariant, action property and refinement that the runs check,
    of all components, and the shard arithmetic behind them.  Left: an abstract message set for
    `Conversations`, and its refinement.

Two nodes, two processes, two getters are the bounds of all runs: the races in this
code are between two actors, and what depends on a number of nodes or shards is
proved rather than enumerated.  No module uses RECURSIVE operators.

## 3. The modules

**ShardAssignment** - `rebalance` without its effects: `MemberMap` numbers the sorted
server names (421-430), `ShardMap` deals shards round robin (432-436).  Node names
are naturals, their order the order of `sort.Strings`.  (README.md:160 speaks of
"consistent hashing"; the code hashes keys to shards and deals the shards in turn,
so a membership change moves most of them.)

**RaftLog** - hashicorp/raft, external, as its users may rely on it: one leader
at a time that may append, a committed log all nodes agree on, a pending suffix of
which a new leader keeps any prefix.  A deposed leader that has not noticed is the
same as none: what it appends is never committed and its calls fail.  The noop
entry of a new leader and the internals of votes are left out.

**PartitionedCluster** - the state of a node is `phase` (how far Start or Stop is),
`view` (memberlist), `fsm` (memberMap, shardMap, totalShards under `partMu`),
`applied` and `snap` (Raft's position and snapshot), `registered` and `delivered`
(the ApplyHandler), and `job`, the program counters of the two goroutines that change
the membership.  A handler is the sequence `NotifyJoin` (its `IsLeader` test, 357),
`JoinServer` (GetConfiguration and AddVoter, 364-377), `ChangeDone` (the future, then
`rebalance` up to its read of the configuration, 384, 407-411) and `Propose` (the shard
loop's second read of `totalShards`, and `raft.Apply`, 441-452), so that elections,
applies and crashes fall between any two.  The init goroutine is `InitLeader` (the leader
channel, 345) and `InitRebalance`.  Start is three steps because handlers
are wired last (91-98).  A crash keeps log and snapshot and loses the rest.  The timeouts of
AddVoter, RemoveServer and `raft.Apply` (377, 396, 452) bound the time until the leader takes
the entry, not the time until it commits: `EnqueueTimesOut` is such a call on a leader that
stays one and appends nothing.  A Replicate that times out so returns an error and leaves
nothing behind, like one that was never called.

**OwnerLookup** - the cluster, and a call of OwnsKey or OwnerOfKey in its two steps: `HashKey`
reads `totalShards` without the lock (183, 196), `ReadOwner` takes the lock and looks the
shard up.  Applies, restores and proposals fall between the two.  ShardForKey is the first
of them.  The calls write nothing, so one under way at a time shows what any may answer.

**ShardDirectory** - what PartitionedCluster promises to those who read the shard map:
`history` of assignments, numbered by numbers that only grow, those each node has `seen`, and
the one it has `held`.  `PartitionedCluster` maps `history` to the assignments in its committed
log, numbered by their places there, `seen` to those within `applied`, `held` to the FSM; its `ImplementsDirectory` says that
every step is one decision, one node that follows (one or, by a snapshot, several
assignments), a restart, or nothing of interest.

**GossipCluster** - a node is `phase` (Start between `memberlist.Create` and its return is
"creating"), `config` and `loop` (the discovery it was started with and the goroutine that runs),
`view` (`list.Members()`), `handlers`, and `queue` (the transmissions left of each
broadcast).  memberlist and the network are external: `Hear`, `Forget`, `ViewsAfterJoin`,
`Transmit`'s schedule, `Partition`, `Lost`.  A stopped node is not in its own view: that is
how leaving is told from failing.  `Stop` does not shut memberlist down, so listeners and
handlers of a stopped node go on.  Direct messages travel over a connection and are lost only
with it; broadcasts travel by UDP, and nothing makes one arrive.  Between `memberlist.Create`
(131) and the assignments of `c.list` and `c.broadcasts` (135-140) a message or a gossip
tick finds nil and the process panics: `PanicsEarly` and the last branch of `Receive`.
The three kinds of discovery are those of Start (143-157); `Discovery` says which a
node may meet, since the choice depends on its host name and configuration.  Join and leave
handlers, and what they are told, are modelled where they have a user, in
`PartitionedCluster` (`WireHandlers`, `NotifyJoin`, `NotifyLeave`).

**BillingClient** - the channel as `queue`, the two goroutines that receive from it as
`worker` and `closer` with the event they hold, and `posted` and `billed` to tell
what left the process from what arrived.  `post` returns in every case and its caller
looks at nothing, so failure is a choice inside `Post`.  `Next` and `Spec` are the client
alone, in a program that ends some time after Close; the runs use it within `Service`.

**UsageOutbox** - what BillingClient promises a service: an event offered is accepted or
refused, an accepted one `waiting` until it is posted, and at the end at most one of those accepted
before closing began still waits, unless the process is aborted.  `ImplementsOutbox`, in Service,
maps queue and both hands to `waiting`.

**TokenCache** - `auth` is where each request is in Middleware (its lookup, its call of
the verifier, its store), `cache` each token's entry, before or behind its `expiresAt`,
`revoked` what the verifier no longer accepts.  Expiry, cleanup and revocation
fall between any two steps of a request.

**Service** - a program as README.md's services are built: `ListenAndWait` (`server`) around
handlers that pass the middleware (`Lookup` ... "granted") and then call `Record`, with
`Close` as the cleanup function.  `Signal` begins the cleanup, the listener closes after it
(`BeginShutdown`), `Shutdown` may time out with handlers still running, and main
returns (`ServiceExit`) whatever the billing goroutines are doing.  At any moment before, the
goroutine around Serve may find an error and call log.Fatalf (`ServeFails`, 65-69), which ends
the process without the cleanup: the outbox is then aborted, not over.

**RegistryClient** - `cache` and `subscribed` as in the code; `conn`, `asked`, `subs`
and `wire` describe one WebSocket with what is under way in both directions;
`get` and `loop` are the program counters.  `Get` is `GetMiss`, `FetchReply`, `Store`,
`Subscribe`, one step per lock or call.  `AfterEvent` is the overlay rule of
`handleChange`; `Tell` what it tells the handlers of the key: every event once, whether
by the list of changed entries (423) or by the branch for keys that are not cached
or not changed (432-442).  `told` and `news` are the last event told and the last one sent.
`synced` is history: the keys whose cached value missed no event.

**Storage** - `Put` of the file store is `OpenTmp`, `WriteTmp`, `RenameTmp`, with
the file that the descriptor stands for in `fd`: once another call renames the
shared temporary file, the descriptor writes to the key's own file.  A call may fail at
each step.  `Put` of S3 is one step that may fail with or without effect.  A file is
`Empty` once opened and may become `Torn` when texts of different lengths overwrite each
other.  `Listings` is what List returns, temporary files and S3's single page included.

**Conversations** - one conversation with a key for metadata, one for the cost and
one per message.  `call` says where each process is in Create, Save, AddMessage or Get,
`total` is its copy of TotalCost.  Each Put goes through the steps of Storage, each
read of Get is a step.  Messages cost one unit, and the caller sets TotalCost to the total of
its copy plus the message's cost; the time stamps are distinct (the key of a message
without one, as in README.md:343, is ".json": a second one overwrites the first).
On the file store List joins prefix and name with one slash too many (file.go:76), so
the filter of Get (s3.go:111) lets metadata.json, cost.json and temporary files through
as messages: `MessageNames`.

**AgentRun** - `run` says where each Run call is, `attempt` whether it still resumes the
session, `cli` and `pipe` describe its child process.  The steps are those of the code:
`OpenConfig` and `WriteConfig` (os.WriteFile truncates, then writes), `Start`, `Scan` for
each line, `ScanEnds`, `Wait`, and `Remove`, the deferred removal, after which Run
either returns or starts the second attempt (106-129).  The CLI is external: it loads the
file, refuses a session it has lost, writes lines to a pipe that blocks it when full, and
exits.  A run whose file another one removes between opening and writing is an "orphan".
A line too long for the scanner ends the scan, and nobody looks at its error: Wait then
waits for a process that may wait for a reader.

## 4. The runs

| Run | Bounds | Shows |
|---|---|---|
| Membership | 2 nodes with totals of 3 and 2, 1 key, 2 elections, 1 stop or crash, 1 snapshot | `TypeOK`, `FsmFollowsLog`, `AnswersFollowLog`, `LeaderIsServer`, `ImplementsDirectory` through join, leave, restart, replay, snapshot |
| Replication | 2 nodes, 2 commands, 2 elections, 1 stop or crash, 1 snapshot | `AckedIsCommitted`, `HandlersRunInLogOrder`, over a replay after the restart too |
| Convergence | 2 nodes, 3 shards, 1 election, 1 false suspicion, 1 lost leadership, 1 timeout, fair | `AssignmentsPartition`, `JoinIsAssigned`, `LeaveIsUnassigned` |
| LostJoin (violation) | 2 nodes, no failure | `TotalMembersConverges` fails: join events that come before the handlers are wired, or before the node leads, are dropped for good |
| MissedCommand (violation) | 2 nodes, 1 command, 1 stop, OnApply as early as possible | `HandlersSeeEveryCommand` fails: the replay of a restart comes before OnApply can |
| Gossip | 2 nodes with static peers, mDNS or HTTP discovery, 3 starts, 2 changes of the network, 1 message, 2 transmissions, fair | `DeliveriesAreBounded`, `PeersReconverge`, `LeaveIsSeen`, `DirectIsHandled` |
| Service | 3 requests with one token, capacity 2, fair | `EventsConserved`, `InOrderUntilClose`, `CloseLeavesAtMostOne`, `AcceptedIsPosted`, `ImplementsOutbox`, `RevokedStaysOut` |
| Registry | 1 key in 2 scopes, 2 values, 2 getters, 2 changes, 1 lost connection, fair | `SyncedReplay`, `HandlersMatchCache`, `SubscriptionsSurvive`, `SubscriptionsRecover`, `CloseEndsLoop` |
| StaleCache (violation) | 1 getter, 1 change, no failure | `CacheConverges` fails: the change falls between fetch and subscription |
| Conversations | 2 processes, 2 messages, 2 sessions, both stores, 1 failure or crash | `MessagesAreWhole`, `AckedMessagesSurvive`, `GetSeesAcked`, `GetTotalIsBacked` |
| TornWrite (violation) | 2 processes, no failure | `ObjectsAreWhole` fails: one Save renames the file another has just truncated |
| AgentRun | 2 Run calls, a pipe of 1 line, 2 lines per process | `OutputIsComplete`, `StaleIsNeverReported`, `ConfigIsRemoved`, `RunReturns`; a line too long and a failed write of the file are the exceptions the properties name |

Every property of a passing run has a *mutant* in its module: a definition marked as
such that changes one step as a plausible bug would (a dropped guard, an early
return, a swapped order).  With it in place TLC finds the property violated.

**Bounds.**  The counters are `MaxTerms`, `MaxStops`, `MaxFlaps`, `MaxLosses`,
`MaxSnapshots`, `MaxTimeouts`, `MaxChanges`, `MaxDrops`, `MaxFaults`, `MaxLines`, `MaxStarts`, `MaxCuts`; all bound the environment, never
the program.  Two elections and a stop let a node lead, be deposed, restart and replay,
and lead again.  A leader loses its leadership with its process, when its lease expires because
the other node is gone, or without a reason (`MaxLosses`, in Convergence).
Three shards over two members make the deal uneven.  The hash value 4 falls on different
shards under the two totals of Membership, with different owners: a lookup that has hashed it
before the first assignment is applied names the wrong one, the case that
`AnswersFollowLog` excepts, and without the exception TLC finds it.
Replication has three reductions.  Its commands are symmetric.  The action constraint
`CommandsOnRunningCluster` starts the second node after the first assignment and the
first Replicate when both run and are assigned, since Membership covers the way there; and
a node that stops is back before gossip misses it, so that what is left is commands, elections,
the stop with its replay, and the snapshot.  A queue of two
with three events fills, drops and drains, and leaves events queued behind Close; one
token for all requests makes them race for one cache entry.  Three starts of two
nodes let either crash or stop and come back, two changes of the network cut it and heal it.
`RetransmitLimit` is 3 in the code for clusters of up to nine members and `HttpTries` 5; 2 and 1
are the least that show a repetition and a discovery that gives up.  One failure may fall on any step of any call;
two were tried for Conversations (with one session) and showed nothing else.  A pipe of one line
makes a process block on its second.  In `PartitionedCluster` an
empty `Command` also switches `OnApply` off, which changes nothing without commands.
`CHECK_DEADLOCK FALSE` is set throughout because every run comes to rest: elections,
events, changes and messages are used up, clients are closed, processes exit.
`PageSize` is 1000 as in the S3 service: conversations of more messages than that
are outside the runs, and Get loses what lies behind the first page.

**Fairness.**  `PartitionedCluster`: weak fairness of `SystemStep`, the disjunction of
what goroutines, Raft's replication and gossip's detection do by themselves; nobody has
to start, stop, call, win an election or lose anything.  Since these steps compete
only boundedly often, one condition is enough.  `BillingClient`: each of the two
goroutines is scheduled, and a post returns (its client has a 10 s timeout).
`RegistryClient`: the goroutines run, a dial ends (the websocket dialer limits its handshake to
45 s), a lost connection is noticed by TCP, messages on a connection that stays up arrive.
A fetch may hang for good: `http.DefaultClient` (client.go:269) has no timeout.  The loss of a
connection is never required.  `Service` assumes no more than `BillingClient`: no request has to come in or
to be answered, no signal has to be sent.  `GossipCluster`: a Start that has begun goes on, the loops without an
end (static peers, mDNS) tick, memberlist notices who has left or gives no answer, and what
a connection carries arrives while it lasts.  `AgentRun`: each Run call is scheduled;
a CLI process goes on while it can and exits some time.  `Conversations` states no liveness: nothing there is retried.

## 5. What is proved

`ShardAssignmentProofs` proves, for every finite set of names and every number of
shards, that the members are numbered from 0 without gaps (`MemberMapIsBijection`) and
that the owner of each shard is a server (`NameAtIsServer`, `ShardMapType`): the facts
that make `shardMap[s] = members[s % n]` total.  `DealIsEven` counts: two servers get
numbers of shards that differ by one at most.  Each shard of one server that has a whole round behind it has a shard of the
other in its own round (`SameRound`), and at most one shard has none (`RoundApart`).

`PartitionedClusterProofs` proves, for any nodes, configured totals, commands and bounds,

- `TypeCorrect`, `Spec => []TypeOK`.  It is more than bookkeeping: the type of the log
  says that every assignment maps its shards to nodes and carries a configured total,
  and that `rebalance` is never left with an empty configuration to divide by, in spite
  of the unlocked second read of `totalShards`.  The proof has one lemma per group of
  actions (lifecycle, membership, FSM, Replicate, Raft) over lemmas on the operators
  they share.
- `FsmAgreesWithLog`, `Spec => []FsmFollowsLog`: the shard map of each node, and of
  each snapshot, is the last assignment of the log prefix it has applied.  `FsmFollowsLog` is
  inductive relative to `TypeOK`, which gives that `log` is a sequence and that
  `applied` and the snapshot index are naturals, so that prefixes mean something.  The
  argument: a committed log only grows, so what a prefix says stays true (`LogGrows`,
  `PrefixKeepsMeaning`); a restart begins with nothing applied or with its snapshot
  (`RestoredFollows`); an apply skips nothing but configurations, or entries of the other
  kind (`ApplyFollows`).

`PartitionedSafetyProofs` proves the rest of the cluster's safety, under the same assumptions:

- `ClusterImplementsDirectory`, `Spec => ImplementsDirectory`: the refinement.  A step
  decides nothing or one assignment (`StepDecides`: nobody can have followed an
  assignment beyond the end of the log, because `applied` is a place in it), and moves one node
  at most (`OneNodeMoves`): to a later assignment, back to none, or not at all (`MoveFollows`).
  What the node then holds is `FsmFollowsLog` before and after the step, and `FreshProcess`
  says that a process that is about to start Raft has applied nothing.
- `CommandsRunInLogOrder`, `Spec => []HandlersRunInLogOrder`.  The invariant says that what
  was given to a handler lies in the applied prefix, in order, and that NewRaft restores a
  snapshot only where nothing was given yet; otherwise a replay could repeat a command.
- `LeaderStaysServer`, `Spec => []LeaderIsServer`.  `LeaderInv` adds that
  a node's gossip tells it of its peers only, so that it never removes itself, and that nobody leads
  and nothing is pending before the first configuration is written.
- `AckedCommandsAreCommitted`, `Spec => []AckedIsCommitted`.  `CallsAreLogged` follows
  the call while it waits: as long as the term lasts the command stays at the place where it
  was appended, committed or pending, so a leader that has applied that place has applied it.
- `AssignmentsArePartitions`, `SameTotals` implies `Spec => []AssignmentsPartition`.  `ProposalsInv` says
  of every assignment in the log, committed or pending, that `rebalance` made it from one
  configuration with servers.  `SameTotals` (equal configured totals, 0 being the default)
  is needed: without the lock around 433 and 441 a leader that applies the assignment of another total
  in between proposes a map of the wrong size.  Convergence, which checks it, has equal totals too.
- `LookupsFollowLog`, `LookupSpec => []AnswersFollowLog`, for any totals: a lookup that was not
  overtaken by another total answers the owner in the last assignment its node has applied, and
  any lookup answers a member of it, or nobody.  `LookupInv` remembers of a call what it has
  hashed with; the rest is `FsmFollowsLog` at the moment of the locked read, wherever an apply
  or a restore has moved the node since the first (`HeldIsLastApplied`), and `ProposalsInv`
  for the owners (`OwnersAreMembers`).
- `EqualTotalsNameOneOwner`: under `SameTotals` no lookup is overtaken, so the exception goes,
  and of the lookups that end at one place in the log all name one owner.

`RegistryClientProofs` proves, for any keys, values, getters, changes and lost connections,

- `TypeCorrect`, and `SubscriptionsAreKept`, `Spec => []SubscriptionsSurvive`.  `LoopInv` says that
  the loop leaves a connection only when it is gone and its events are handled, so that the next one
  begins with nothing subscribed and `ResubscribeAll` misses nothing.
- `SyncedEntriesReplay`, `Spec => []SyncedReplay`.  `Right(x, k, w, i, st)` is what the events
  after the i-th make of an entry x, said without a replay: an entry of the namespace
  has its value or a later event of the namespace, a global one is overlaid by a later
  set or there is no value in the namespace.  `AfterEvent` carries it from one event to
  the next (`RightNext`) and at the end it is the registry's value (`RightEnds`).  The
  invariant (`WireInv`, `SyncInv`) is that the last event of each scope has the registry's value,
  that entries in `synced` are right for all that is under way, and so are the answers of
  fetches that may still be stored.  The last step to the replays is an induction over the events
  (`ReplayStaysRight`), and `ReplaysExist` shows that there is a replay to speak of.
- `HandlersHearTheCache`, `Spec => []HandlersMatchCache`.  `NewsInv` says that the last event of a
  key under way is its news, and that its handlers were told the news if there is none.

`ConversationsProofs` proves, for any processes and messages, any faults and either store,

- `TypeCorrect`, `MessageFilesAreWhole`, `AckedMessagesStay`.  `FilesInv` says who
  writes: a message's key has one writer, ever, and its temporary file holds what that one has put
  there, while metadata and cost have many; one lemma (`PutSteps`) says what any step of a
  Put may do to the files.  `CostsInv` bounds every total, in a copy, a Put or a cost file,
  by the messages stored.
- `GetReturnsAcked`, `GetReturnsBackedTotal`: `Spec => [](PageSuffices => ...)` of `GetSeesAcked` and
  `GetTotalIsBacked`.  `GetInv` follows a Get from its first read on: what was acknowledged
  before it is listed, and read or still to be read; its sum was backed when the cost was read.
  `PageSuffices` says that the store is a directory, or that all names fit into
  one page of S3; beyond that Get does lose messages (s3.go:162).

`AgentRunProofs` proves, for any Run calls, pipe size and length of output,

- `TypeCorrect`; `StaleSessionsAreRetried` (`StaleIsNeverReported`), where `StaleInv`
  ties a refusal to an attempt that resumes a session; and `ServersFileIsRemoved`
  (`ConfigIsRemoved`), where `ConfigHasOwner` says that the file exists only on behalf of a
  Run that will remove it, or of one whose write failed.
- `OutputStaysWhole`, `Spec => []OutputIsComplete`.  `OutputInv` says where every line is: collected,
  not text, or in the pipe, which holds the last lines written, in order; and that no process outlives
  its attempt.  `Collected` relates the text to the lines by their places,
  so no line is missing, repeated or out of order.

`ServiceProofs` proves, for any events, requests, tokens and capacity of the queue,

- `ServiceTypeCorrect`, `EventsAreConserved`, `PostsAreInOrder`, `CloseLeavesOneBehind`:
  all invariants of the Service run.  They are not inductive by themselves.
  `BillingInv` adds what the two goroutines hold (`HandsAreFull`: a hand is full exactly in
  the middle of a post), what Close has marked (`CloseIsMarked`), and that the queue is
  the newest part of what was accepted (`QueueIsNewest`), without which a
  receive need not be the next event in order.  There is one lemma per step that
  moves an event (`RecordKeepsOrder`, `WorkerTakeKeeps`, ...); `StepSplits` says that each
  step of the service is a step of one component and leaves the other alone.
- `ServiceImplementsOutbox`, `ServiceSpec => ImplementsOutbox`: the whole refinement.
  It needs two invariants more: an event is in one place only
  (`PlacesAreDisjoint`: a post that takes it out of a hand must leave it nowhere else), and
  shutdown begins after Close has returned (`CleanupComesFirst`: what is waiting
  at the exit is then late, or in the worker's hand).  Record is an `Offer`
  (`RecordIsOffer`), a post a `Post`, Close a `BeginClose`, the exit an `End`
  (`ExitIsEnd`), a Serve that fails an `Abort` (`ServeFailureIsAbort`); receives, returns and all
  other steps of requests and of the server stutter.
- `RevokedTokensStayOut`, `ServiceSpec => RevokedStaysOut`: an action property, from the
  types of the token cache; the only steps that could let a token in are a lookup that
  hits and a store behind a verification, and `ShutOut` excludes both for good.

`GossipClusterProofs` proves, for any nodes, peers, messages and limits,

- `GossipTypeCorrect`, `Spec => []TypeOK`;
- `DeliveriesBounded`, `Spec => []DeliveriesAreBounded`.  The invariant `MessageInv` looks at
  all copies of a message, under way or handled: what is not sent is nowhere
  (`UnsentIsNowhere`), one node at most still transmits it (`OneSender`), its copies are
  numbered above what that node has left (`CopiesCountDown`), so that no two copies
  have one number and a direct message has one copy (`CopiesDiffer`).  Handled copies then
  map one-to-one into `1..RetransmitLimit` (`NumbersBound`).

Assumptions are those on the constants: node names are a finite set of naturals (of
anything, in the gossip cluster), `Bootstrap` is one of them, the totals and bounds are
naturals, the default is positive; the queue has room for one event, a broadcast is
transmitted at least once, each request carries a token and records one event; a conversation
has a finite set of messages, a page at least one name; a pipe holds at least one line; and model values that
stand for "nothing" are no data.  Some theorems name a hypothesis of their own, `SameTotals`
or `PageSuffices`.

Every inductive invariant was model-checked on the instances of the runs, and on some
larger, before it was proved.  Induction over Nat is a lemma (`Induction` in `RegistryClientProofs`), about sets of
naturals, from the library's theorem on minimal elements; it needs no operator as a parameter.

**Model-checked only:** liveness (`JoinIsAssigned`, `LeaveIsUnassigned`, `PeersReconverge`, `DirectIsHandled`,
`LeaveIsSeen`, `AcceptedIsPosted`, `SubscriptionsRecover`, `CloseEndsLoop`, `RunReturns`), which is out
of the prover's reach; it is also where the specifications use their fairness, which no theorem
does.  All other properties of the passing runs are proved.  The four violations are
counterexamples found by TLC.

### Where code and documents differ

Four are shown by the violation runs.  These were met on the way as well and are visible in
the models.

- `OwnsKey` "returns true if this node owns the shard for the given key" (partitioned.go:181), but
  hashes with a `totalShards` that an assignment of another total may replace before the
  lookup (183-186): on the node with a total of 2 it can be TRUE for a key that the first assignment,
  just applied, gives to the bootstrap node, where it is TRUE as well.  `AnswersFollowLog` excepts it;
  with equal totals it cannot happen (`EqualTotalsNameOneOwner`).
- `Close` of the billing client "drains remaining events and shuts down the background
  worker" (client.go:89), but does not wait for the worker: the process may end in the
  middle of its post.  `CloseLeavesAtMostOne` and the `End` of `UsageOutbox` say
  "but for one" for that reason, and fail without it.
- `Broadcast` "sends a message to all cluster members" (cluster.go:215), but transmits
  it three times (per digit of the number of members) and receivers do not pass it on:
  with five nodes at most three of the four others get it.
- A handler registered with `OnMessage` before `Start`, as in README.md:131-139, writes to a
  nil map and panics; after `Start` it may miss what arrived in between.
- `Stop` "gracefully leaves the cluster and shuts down" (cluster.go:163): it leaves, but
  the listeners and handlers go on.  A second `Stop`, like a second `Close` of the
  billing client, closes a closed channel and panics.

## 6. What is not modelled

- `ParseJSON`: see the plan.  The MCP server handles each request by a pure function of the
  request and a tool table that is filled before it starts.
- In the gossip cluster: the formats of messages and addresses, the HTTP and mDNS
  protocols, a start whose mDNS service fails (it is a start without discovery), what
  memberlist does inside.
- In the registry client: formats in cache keys, settings of other namespaces, the old
  value a handler is told, the race on `entry.value` at 151, a Close that falls into a
  dial and leaves the new connection open.
- In a service: the other clients a cleanup function may close, requests without a bearer
  header (refused at once), and the verifier.
- In storage: Delete, Stat; a timed-out S3 put that takes effect after a later one; loss
  of unsynced data when the machine fails.  The in-memory conversation store, one map
  under one mutex.
- In agent runs: a removal of the configuration file that fails (its error is ignored, 141),
  which servers a CLI loads when runs share the file, the application's OnEvent and LogWriter, token usage and prices, agents
  without MCP servers, skill templates.
- In the partitioned cluster: user data behind the ApplyHandler, the hash function, the
  order of the FSM's change handlers.
- Stateless code: signing, the Citadel client, the proxy, prices, e-mail, encryption,
  command line.
