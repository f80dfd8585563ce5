---------------------------- MODULE RegistryClient ----------------------------
(***************************************************************************)
(* configuration/client.go: a cache of registry settings.  A miss fetches  *)
(* over HTTP, stores and subscribes in three steps; one goroutine keeps a  *)
(* WebSocket up and applies the change events it reads to the cache.  The  *)
(* registry is external.  Keys are looked up without a format, by a client *)
(* that has a namespace ("own"); settings of other namespaces are left out.*)
(***************************************************************************)
EXTENDS Naturals, Sequences

CONSTANTS
    Key,         \* the settings
    Value,       \* the values a setting takes
    Getter,      \* goroutines that call Get and OnChange
    Unset,       \* no value in the registry
    NoEntry,     \* no entry in the cache
    NoNews,      \* no event
    MaxChanges,  \* bound: changes made in the registry
    MaxDrops     \* bound: connections lost and dials that fail, together

ASSUME RegistryAssumption ==
    /\ Unset \notin Value
    /\ {MaxChanges, MaxDrops} \subseteq Nat

VARIABLES
    setting,    \* registry: the value of each key, in the namespace and globally
    conn,       \* c.conn: nil, open, lost by the network, or closed by Close
    asked,      \* subscribe messages under way on the open connection
    subs,       \* registry: what the open connection is subscribed to
    wire,       \* change events on their way to the client
    cache,      \* c.cache
    subscribed, \* c.subscribed
    get,        \* where each getter is, and what its fetch brought
    handlers,   \* the keys of c.handlers: those with a handler (OnChange)
    told,       \* the last event the handlers of each key were called for
    news,       \* history: the last event sent for each key, if none was lost since
    loop,       \* where the goroutine connectLoop is
    done,       \* TRUE once the channel c.done is closed
    closer,     \* where the caller of Close is
    synced,     \* history: keys cached from a fetch that missed no event
    budget      \* what is left of the bounds on the environment

registryVars == <<setting, asked, subs, wire>>
cacheVars == <<cache, get, synced>>
handlerVars == <<handlers, told, news>>
closeVars == <<done, closer>>
vars == <<registryVars, conn, cacheVars, subscribed, handlerVars, loop, closeVars, budget>>

Scope == {"own", "global"}

\* What the registry answers: the namespace's value, else the global one.
Effective(k) ==
    IF setting[k]["own"] # Unset
    THEN [value |-> setting[k]["own"], source |-> "own"]
    ELSE [value |-> setting[k]["global"], source |-> "global"]

Init ==
    /\ setting \in [Key -> [Scope -> Value \cup {Unset}]]
    /\ conn = "nil"
    /\ asked = {}
    /\ subs = {}
    /\ wire = <<>>
    /\ cache = [k \in Key |-> NoEntry]
    /\ subscribed = {}
    /\ get = [g \in Getter |-> [at |-> "idle"]]
    /\ handlers = {}
    /\ told = [k \in Key |-> NoNews]
    /\ news = [k \in Key |-> NoNews]
    /\ loop = "top"
    /\ done = FALSE
    /\ closer = "idle"
    /\ synced = {}
    /\ budget = [changes |-> MaxChanges, drops |-> MaxDrops]

Spend(b) == budget[b] > 0 /\ budget' = [budget EXCEPT ![b] = @ - 1]

-----------------------------------------------------------------------------
\* The registry: a change is sent to the open connection if it subscribed.
Change(k, s, v) ==
    /\ Spend("changes")
    /\ setting[k][s] # v
    /\ setting' = [setting EXCEPT ![k][s] = v]
    /\ LET event == [key |-> k, scope |-> s, value |-> v,
                     action |-> IF v = Unset THEN "delete" ELSE "set"]
       IN IF k \in subs
          THEN wire' = Append(wire, event) /\ news' = [news EXCEPT ![k] = event]
          ELSE wire' = wire /\ news' = [news EXCEPT ![k] = NoNews]
    /\ UNCHANGED <<conn, asked, subs, cacheVars, subscribed, handlers, told, loop, closeVars>>

AcceptSubscribe(k) ==
    /\ k \in asked
    /\ asked' = asked \ {k}
    /\ subs' = subs \cup {k}
    /\ UNCHANGED <<setting, wire, conn, cacheVars, subscribed, handlerVars, loop, closeVars, budget>>

\* Nothing comes over a connection that is gone, except for the events already
\* received (pre of them), so no fetch can rely on it any more.
Hangup(state, pre) ==
    /\ conn' = state
    /\ asked' = {}
    /\ subs' = {}
    /\ wire' = pre
    /\ synced' = {}
    /\ news' = [k \in Key |-> NoNews]
    /\ get' = [g \in Getter |-> IF get[g].at = "reply"
                                THEN [get[g] EXCEPT !.clean = FALSE] ELSE get[g]]

LoseConnection ==
    /\ conn = "open"
    /\ Spend("drops")
    /\ \E n \in 0..Len(wire) : Hangup("lost", SubSeq(wire, 1, n))
    /\ UNCHANGED <<setting, cache, subscribed, handlers, told, loop, closeVars>>

-----------------------------------------------------------------------------
\* Get: a hit changes nothing; a miss fetches, stores and subscribes.
GetMiss(g, k) ==
    /\ get[g].at = "idle"
    /\ cache[k] = NoEntry
    /\ get' = [get EXCEPT ![g] = [at |-> "fetch", key |-> k]]
    /\ UNCHANGED <<registryVars, conn, cache, synced, subscribed, handlerVars, loop, closeVars, budget>>

\* Mutant of FetchReply: the status of the answer is not looked at.
FetchReplyUnchecked(g) ==
    /\ get[g].at = "fetch"
    /\ LET k == get[g].key IN
       get' = [get EXCEPT ![g] = [at |-> "reply", key |-> k, entry |-> Effective(k),
                                  clean |-> k \in subs]]
    /\ UNCHANGED <<registryVars, conn, cache, synced, subscribed, handlerVars, loop, closeVars, budget>>

\* The registry answers with the value of this moment, or Get returns an error.
FetchReply(g) ==
    /\ get[g].at = "fetch"
    /\ LET k == get[g].key IN
       get' = [get EXCEPT ![g] =
                 IF Effective(k).value = Unset THEN [at |-> "idle"]
                 ELSE [at |-> "reply", key |-> k, entry |-> Effective(k), clean |-> k \in subs]]
    /\ UNCHANGED <<registryVars, conn, cache, synced, subscribed, handlerVars, loop, closeVars, budget>>

FetchFails(g) ==
    /\ get[g].at = "fetch"
    /\ Spend("drops")
    /\ get' = [get EXCEPT ![g] = [at |-> "idle"]]
    /\ UNCHANGED <<registryVars, conn, cache, synced, subscribed, handlerVars, loop, closeVars>>

\* Whatever happened to the key since, the answer goes into the cache.
Store(g) ==
    /\ get[g].at = "reply"
    /\ LET k == get[g].key IN
       /\ cache' = [cache EXCEPT ![k] = get[g].entry]
       /\ synced' = IF get[g].clean THEN synced \cup {k} ELSE synced \ {k}
       /\ get' = [get EXCEPT ![g] = [at |-> "subscribe", key |-> k]]
    /\ UNCHANGED <<registryVars, conn, subscribed, handlerVars, loop, closeVars, budget>>

\* sendSubscribe on c.conn: errors are ignored.
Send(keys) == asked' = IF conn = "open" THEN asked \cup (keys \ subs) ELSE asked

\* subscribe: subMu is held over the test, the mark and the send.
Subscribe(g) ==
    /\ get[g].at = "subscribe"
    /\ LET k == get[g].key IN
       /\ subscribed' = subscribed \cup {k}
       /\ IF k \in subscribed THEN UNCHANGED asked ELSE Send({k})
    /\ get' = [get EXCEPT ![g] = [at |-> "idle"]]
    /\ UNCHANGED <<setting, subs, wire, conn, cache, synced, handlerVars, loop, closeVars, budget>>

OnTheWay(k) == \E i \in 1 .. Len(wire) : wire[i].key = k

\* OnChange registers its handler, which hears what is handled from now on, then
\* subscribes.
OnChange(g, k) ==
    /\ get[g].at = "idle"
    /\ k \notin handlers
    /\ handlers' = handlers \cup {k}
    /\ news' = IF OnTheWay(k) THEN news ELSE [news EXCEPT ![k] = NoNews]
    /\ get' = [get EXCEPT ![g] = [at |-> "subscribe", key |-> k]]
    /\ UNCHANGED <<registryVars, conn, cache, synced, subscribed, told, loop, closeVars, budget>>

-----------------------------------------------------------------------------
\* connectLoop.
LoopTop ==
    /\ loop = "top"
    /\ loop' = IF done THEN "exited" ELSE "dial"
    /\ UNCHANGED <<registryVars, conn, cacheVars, subscribed, handlerVars, closeVars, budget>>

Connect ==
    /\ loop = "dial"
    /\ conn' = "open"
    /\ wire' = <<>>
    /\ loop' = "resubscribe"
    /\ UNCHANGED <<setting, asked, subs, cacheVars, subscribed, handlerVars, closeVars, budget>>

DialFails ==
    /\ loop = "dial"
    /\ Spend("drops")
    /\ loop' = "wait"
    /\ UNCHANGED <<registryVars, conn, cacheVars, subscribed, handlerVars, closeVars>>

\* Mutant of ResubscribeAll: it relies on what subscribe sent.
ResubscribeNothing ==
    /\ loop = "resubscribe"
    /\ loop' = "listen"
    /\ UNCHANGED <<registryVars, conn, cacheVars, subscribed, handlerVars, closeVars, budget>>

ResubscribeAll ==
    /\ loop = "resubscribe"
    /\ Send(subscribed)
    /\ loop' = "listen"
    /\ UNCHANGED <<setting, subs, wire, conn, cacheVars, subscribed, handlerVars, closeVars, budget>>

\* Mutant of AfterEvent: a global value overwrites the one of the namespace.
AfterEventIgnoringSource(entry, e) ==
    IF entry # NoEntry /\ e.action = "set"
    THEN [value |-> e.value, source |-> e.scope]
    ELSE IF entry # NoEntry /\ e.scope = entry.source THEN NoEntry ELSE entry

\* The namespace overlay of handleChange, for one cache entry of the event's key:
\* a global value does not overwrite the namespace's, and an entry goes when the
\* setting it came from is deleted.
AfterEvent(entry, e) ==
    IF entry # NoEntry /\ e.action = "set" /\ (e.scope = "own" \/ entry.source = "global")
    THEN [value |-> e.value, source |-> e.scope]
    ELSE IF entry # NoEntry /\ e.action = "delete" /\ e.scope = entry.source
    THEN NoEntry
    ELSE entry

\* Mutant of Tell: handlers are called when a cached value changes, and only then.
TellIfChanged(e) ==
    told' = [told EXCEPT ![e.key] =
               IF e.key \in handlers /\ cache'[e.key] # cache[e.key] THEN e ELSE @]

\* The handlers of the event's key are called once: with the change of its cache
\* entry, or without an old value if the key is not cached, if its value is the
\* same, or if the namespace's value shadows the event's.
Tell(e) == told' = [told EXCEPT ![e.key] = IF e.key \in handlers THEN e ELSE @]

\* handleChange: the cache under its lock, then the handlers.
HandleChange ==
    /\ loop = "listen"
    /\ conn # "closed"
    /\ wire # <<>>
    /\ LET e == Head(wire) IN
       /\ cache' = [cache EXCEPT ![e.key] = AfterEvent(@, e)]
       /\ Tell(e)
       /\ get' = [g \in Getter |-> IF get[g].at = "reply" /\ get[g].key = e.key
                                   THEN [get[g] EXCEPT !.clean = FALSE] ELSE get[g]]
    /\ wire' = Tail(wire)
    /\ UNCHANGED <<setting, asked, subs, conn, synced, subscribed, handlers, news>>
    /\ UNCHANGED <<loop, closeVars, budget>>

\* Mutant of ReadFails: the goroutine ends with its connection.
ReadFailsForGood ==
    /\ loop = "listen"
    /\ conn = "closed" \/ (conn = "lost" /\ wire = <<>>)
    /\ loop' = "exited"
    /\ UNCHANGED <<registryVars, conn, cacheVars, subscribed, handlerVars, closeVars, budget>>

\* ReadMessage returns an error: listen returns, c.conn stays as it is.
ReadFails ==
    /\ loop = "listen"
    /\ conn = "closed" \/ (conn = "lost" /\ wire = <<>>)
    /\ loop' = "wait"
    /\ UNCHANGED <<registryVars, conn, cacheVars, subscribed, handlerVars, closeVars, budget>>

\* The timer, or c.done: the top of the loop looks at c.done in either case.
Retry ==
    /\ loop = "wait"
    /\ loop' = "top"
    /\ UNCHANGED <<registryVars, conn, cacheVars, subscribed, handlerVars, closeVars, budget>>

\* Close, called once, first closes c.done ...
CloseBegins ==
    /\ closer = "idle"
    /\ closer' = "closing"
    /\ done' = TRUE
    /\ UNCHANGED <<registryVars, conn, cacheVars, subscribed, handlerVars, loop, budget>>

\* Mutant of CloseConn: closing c.done is taken to be enough.
CloseOnlySignals ==
    /\ closer = "closing"
    /\ closer' = "returned"
    /\ UNCHANGED <<registryVars, conn, cacheVars, subscribed, handlerVars, loop, done, budget>>

\* ... then the connection, if there is one.
CloseConn ==
    /\ closer = "closing"
    /\ closer' = "returned"
    /\ IF conn = "nil"
       THEN UNCHANGED <<conn, asked, subs, wire, get, synced, news>>
       ELSE Hangup("closed", <<>>)
    /\ UNCHANGED <<setting, cache, subscribed, handlers, told, loop, done, budget>>

-----------------------------------------------------------------------------
LoopStep ==
    \/ LoopTop \/ Connect \/ ResubscribeAll \/ HandleChange \/ ReadFails \/ Retry

GetStep(g) == FetchReply(g) \/ Store(g) \/ Subscribe(g)

Next ==
    \/ \E k \in Key, s \in Scope, v \in Value \cup {Unset} : Change(k, s, v)
    \/ \E k \in Key : AcceptSubscribe(k)
    \/ LoseConnection
    \/ \E g \in Getter : \/ \E k \in Key : GetMiss(g, k) \/ OnChange(g, k)
                         \/ GetStep(g)
                         \/ FetchFails(g)
    \/ LoopStep
    \/ DialFails
    \/ CloseBegins
    \/ CloseConn

\* Goroutines get scheduled, and messages on a connection that stays up arrive.
\* Nobody has to call, change or lose anything, and a fetch may hang: it goes over
\* http.DefaultClient, which has no timeout.
Fairness ==
    /\ WF_vars(LoopStep)
    /\ \A g \in Getter : WF_vars(Store(g) \/ Subscribe(g))
    /\ \A k \in Key : WF_vars(AcceptSubscribe(k))
    /\ WF_vars(CloseConn)

Spec == Init /\ [][Next]_vars /\ Fairness

-----------------------------------------------------------------------------
EntryType == [value : Value, source : Scope]

EventType == [key : Key, scope : Scope, value : Value, action : {"set"}]
                 \cup [key : Key, scope : Scope, value : {Unset}, action : {"delete"}]

GetType ==
    [at : {"idle"}]
        \cup [at : {"fetch", "subscribe"}, key : Key]
        \cup [at : {"reply"}, key : Key, entry : EntryType, clean : BOOLEAN]

TypeOK ==
    /\ setting \in [Key -> [Scope -> Value \cup {Unset}]]
    /\ conn \in {"nil", "open", "lost", "closed"}
    /\ asked \subseteq Key
    /\ subs \subseteq Key
    /\ wire \in Seq(EventType)
    /\ cache \in [Key -> EntryType \cup {NoEntry}]
    /\ subscribed \subseteq Key
    /\ get \in [Getter -> GetType]
    /\ loop \in {"top", "dial", "resubscribe", "listen", "wait", "exited"}
    /\ done \in BOOLEAN
    /\ closer \in {"idle", "closing", "returned"}
    /\ handlers \subseteq Key
    /\ told \in [Key -> EventType \cup {NoNews}]
    /\ news \in [Key -> EventType \cup {NoNews}]
    /\ synced \subseteq Key
    /\ budget \in [{"changes", "drops"} -> Nat]

-----------------------------------------------------------------------------
\* What becomes of an entry of k, as the events under way are handled one by one.
Replays(k, entry) ==
    {r \in [0 .. Len(wire) -> EntryType \cup {NoEntry}] :
        /\ r[0] = entry
        /\ \A i \in 1 .. Len(wire) :
              r[i] = IF wire[i].key = k THEN AfterEvent(r[i - 1], wire[i]) ELSE r[i - 1]}

\* The namespace overlay is right for every order of changes: for an entry whose
\* fetch was answered under its subscription and stored before an event of the
\* key was handled, the events still under way lead to the registry's value, or
\* to no entry at all - also when they were sent before the fetch.
SyncedReplay ==
    \A k \in synced : \A r \in Replays(k, cache[k]) : r[Len(wire)] \in {NoEntry, Effective(k)}

\* Handlers and cache do not drift apart: where no event was lost and none is under
\* way, the handlers of a key were last told the registry's last change, and what a
\* Get returns is what they were told - unless that was a deletion, or a global
\* change that the namespace's value shadows, which they are told all the same
\* (client.go:441).
HandlersMatchCache ==
    \A k \in handlers : (news[k] # NoNews /\ ~OnTheWay(k)) =>
        /\ told[k] = news[k]
        /\ (k \in synced /\ cache[k] # NoEntry /\ told[k].action = "set") =>
              \/ cache[k] = [value |-> told[k].value, source |-> told[k].scope]
              \/ cache[k].source = "own" /\ told[k].scope = "global"

\* Between subscribe on the getters' goroutines and reconnects of the loop no
\* subscription falls through: while the loop listens on an open connection, what
\* the client believes to be subscribed the registry knows, or will.
SubscriptionsSurvive ==
    (loop = "listen" /\ conn = "open") => subscribed \subseteq asked \cup subs

\* After the last lost connection the registry comes to know every subscription
\* for good, unless Close is called.
SubscriptionsRecover == <>[](done \/ subscribed \subseteq subs)

\* A Close that finds the loop on a connection ends the goroutine.
CloseEndsLoop ==
    (closer = "closing" /\ loop \in {"resubscribe", "listen"}) ~> (loop = "exited")

-----------------------------------------------------------------------------
\* "It caches values in memory and listens for WebSocket updates so callers can
\* call Get() frequently" (client.go:61): when the registry and the network have
\* come to rest, a cached value is the registry's.  The code has two gaps: events
\* between a fetch and its store or its subscription, and events while the
\* connection was down, are lost, and the entry stays stale for good.
CacheConverges ==
    <>[](done \/ \A k \in Key : cache[k] \in {NoEntry, Effective(k)})
=============================================================================
