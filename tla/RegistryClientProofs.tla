------------------------ MODULE RegistryClientProofs ------------------------
(***************************************************************************)
(* The registry client for any number of keys, values, goroutines, changes *)
(* and lost connections: subscriptions, the namespace overlay, handlers.   *)
(***************************************************************************)
EXTENDS RegistryClient, WellFoundedInduction, TLAPS

-----------------------------------------------------------------------------
(* The connection. *)

\* The loop leaves a connection only when it is gone and its events are handled, so
\* a new one begins with nothing asked, subscribed or under way.
LoopInv ==
    /\ conn # "open" => asked = {} /\ subs = {}
    /\ conn \in {"nil", "closed"} => wire = <<>>
    /\ loop \in {"top", "dial", "wait", "exited"} => conn # "open" /\ wire = <<>>
    /\ SubscriptionsSurvive

(* The events on the wire: of key k and scope s, after the i-th. *)

After(w, i, k, s) == \E j \in i + 1 .. Len(w) : w[j].key = k /\ w[j].scope = s

OwnSetAfter(w, i, k) ==
    \E j \in i + 1 .. Len(w) : w[j].key = k /\ w[j].scope = "own" /\ w[j].action = "set"

\* The last event of each scope has the registry's value.
Latest(k, w, st) ==
    \A s \in Scope, i \in 1 .. Len(w) :
        (w[i].key = k /\ w[i].scope = s /\ ~After(w, i, k, s)) => w[i].value = st[k][s]

WireInv ==
    /\ conn = "open" => \A i \in 1 .. Len(wire) : wire[i].key \in subs
    /\ \A k \in subs : Latest(k, wire, setting)

\* The events after the i-th turn x into the registry's value, or into no entry: an
\* entry of the namespace has its value or a later event of the namespace; a global
\* one is overlaid or dropped in time, or has its value or a later global event.
Right(x, k, w, i, st) ==
    \/ x = NoEntry
    \/ x.source = "own" /\ (After(w, i, k, "own") \/ x.value = st[k]["own"])
    \/ /\ x.source = "global"
       /\ \/ OwnSetAfter(w, i, k)
          \/ /\ st[k]["own"] = Unset
             /\ After(w, i, k, "global") \/ x.value = st[k]["global"]

CleanReply(r, known, w, st) ==
    (r.at = "reply" /\ r.clean) => r.key \in known /\ Right(r.entry, r.key, w, 0, st)

SyncInv ==
    /\ \A g \in Getter : CleanReply(get[g], subs, wire, setting)
    /\ \A k \in synced : k \in subs /\ Right(cache[k], k, wire, 0, setting)

(* What the handlers of a key were told last, or will be. *)

NewsOf(k, n, t, known, hs, w, st) ==
    n # NoNews =>
        /\ k \in known
        /\ n.key = k /\ n.value = st[k][n.scope]
        /\ \A i \in 1 .. Len(w) :
              (w[i].key = k /\ \A j \in i + 1 .. Len(w) : w[j].key # k) => w[i] = n
        /\ (k \in hs /\ \A i \in 1 .. Len(w) : w[i].key # k) => t = n

NewsInv == \A k \in Key : NewsOf(k, news[k], told[k], subs, handlers, wire, setting)

Inv == TypeOK /\ LoopInv /\ WireInv /\ SyncInv /\ NewsInv

-----------------------------------------------------------------------------
(* Types. *)

LEMMA GetFields ==
    ASSUME NEW r \in GetType
    PROVE  /\ r.at \in {"idle", "fetch", "subscribe", "reply"}
           /\ r.at \in {"fetch", "subscribe", "reply"} => r.key \in Key
           /\ r.at = "reply" => /\ r.entry \in EntryType /\ r.clean \in BOOLEAN
                                /\ [r EXCEPT !.clean = FALSE] \in GetType
                                /\ [r EXCEPT !.clean = FALSE].at = "reply"
                                /\ [r EXCEPT !.clean = FALSE].clean = FALSE
BY DEF GetType

LEMMA EventFields ==
    ASSUME NEW e \in EventType
    PROVE  /\ e.key \in Key /\ e.scope \in Scope /\ e.value \in Value \cup {Unset}
           /\ e.action \in {"set", "delete"}
           /\ e.action = "set" <=> e.value \in Value
           /\ e.action = "delete" <=> e.value = Unset
BY RegistryAssumption DEF EventType

LEMMA AfterEventType ==
    ASSUME NEW x \in EntryType \cup {NoEntry}, NEW e \in EventType
    PROVE  AfterEvent(x, e) \in EntryType \cup {NoEntry}
<1>1. e.action = "set" => [value |-> e.value, source |-> e.scope] \in EntryType
  BY EventFields DEF EntryType
<1> QED BY <1>1 DEF AfterEvent

LEMMA SpendType ==
    ASSUME TypeOK, NEW b \in {"changes", "drops"}, Spend(b)
    PROVE  budget' \in [{"changes", "drops"} -> Nat]
BY DEF TypeOK, Spend

LEMMA TypeInit == Init => TypeOK
<1> SUFFICES ASSUME Init PROVE TypeOK
  OBVIOUS
<1>1. budget \in [{"changes", "drops"} -> Nat]
  BY RegistryAssumption DEF Init
<1>2. get \in [Getter -> GetType]
  BY DEF Init, GetType
<1>3. wire \in Seq(EventType)
  BY DEF Init
<1> QED BY <1>1, <1>2, <1>3 DEF Init, TypeOK

\* A connection goes: the replies of the fetches under way are no longer clean.
LEMMA HangupType ==
    ASSUME TypeOK, NEW state \in {"lost", "closed"}, NEW pre \in Seq(EventType),
           Hangup(state, pre)
    PROVE  /\ conn' \in {"nil", "open", "lost", "closed"} /\ wire' \in Seq(EventType)
           /\ asked' \subseteq Key /\ subs' \subseteq Key /\ synced' \subseteq Key
           /\ news' \in [Key -> EventType \cup {NoNews}]
           /\ get' \in [Getter -> GetType]
           /\ \A g \in Getter : get'[g].at = "reply" => ~get'[g].clean
<1>1. get \in [Getter -> GetType]
  BY DEF TypeOK
<1>2. ASSUME NEW g \in Getter
      PROVE  get'[g] \in GetType /\ (get'[g].at = "reply" => ~get'[g].clean)
  BY <1>1, GetFields DEF Hangup
<1>3. get' \in [Getter -> GetType]
  BY <1>2 DEF Hangup
<1> QED BY <1>2, <1>3 DEF Hangup

LEMMA TypeNext == TypeOK /\ [Next]_vars => TypeOK'
<1> SUFFICES ASSUME TypeOK, [Next]_vars PROVE TypeOK'
  OBVIOUS
<1> USE DEF registryVars, cacheVars, handlerVars, closeVars
<1>1. CASE UNCHANGED vars
  BY <1>1 DEF vars, TypeOK, EventType, EntryType, GetType, Scope
<1>2. ASSUME NEW k \in Key, NEW s \in Scope, NEW v \in Value \cup {Unset}, Change(k, s, v)
      PROVE  TypeOK'
  <2> DEFINE event == [key |-> k, scope |-> s, value |-> v,
                       action |-> IF v = Unset THEN "delete" ELSE "set"]
  <2>1. event \in EventType
    BY RegistryAssumption DEF EventType
  <2>2. setting' \in [Key -> [Scope -> Value \cup {Unset}]]
    BY <1>2 DEF Change, TypeOK
  <2>3. /\ wire' \in {wire, Append(wire, event)}
        /\ news' \in {[news EXCEPT ![k] = event], [news EXCEPT ![k] = NoNews]}
    BY <1>2 DEF Change
  <2> HIDE DEF event
  <2>4. wire' \in Seq(EventType) /\ news' \in [Key -> EventType \cup {NoNews}]
    <3>1. wire \in Seq(EventType) /\ news \in [Key -> EventType \cup {NoNews}]
      BY DEF TypeOK
    <3>2. Append(wire, event) \in Seq(EventType)
      BY <2>1, <3>1
    <3>3. /\ [news EXCEPT ![k] = event] \in [Key -> EventType \cup {NoNews}]
          /\ [news EXCEPT ![k] = NoNews] \in [Key -> EventType \cup {NoNews}]
      BY <2>1, <3>1
    <3> QED BY <2>3, <3>1, <3>2, <3>3
  <2>5. budget' \in [{"changes", "drops"} -> Nat]
    BY <1>2, SpendType DEF Change
  <2> QED BY <1>2, <2>2, <2>4, <2>5
          DEF Change, TypeOK, EventType, EntryType, GetType, Scope
<1>3. ASSUME NEW k \in Key, AcceptSubscribe(k)
      PROVE  TypeOK'
  BY <1>3 DEF AcceptSubscribe, TypeOK, EventType, EntryType, GetType, Scope
<1>4. CASE LoseConnection
  <2>1. PICK n \in 0 .. Len(wire) : Hangup("lost", SubSeq(wire, 1, n))
    BY <1>4 DEF LoseConnection
  <2>2. SubSeq(wire, 1, n) \in Seq(EventType)
    BY DEF TypeOK
  <2>3. budget' \in [{"changes", "drops"} -> Nat]
    BY <1>4, SpendType DEF LoseConnection
  <2> QED BY <1>4, <2>1, <2>2, <2>3, HangupType
          DEF LoseConnection, TypeOK, EventType, EntryType, GetType, Scope
<1>5. ASSUME NEW g \in Getter, NEW k \in Key, GetMiss(g, k) \/ OnChange(g, k)
      PROVE  TypeOK'
  <2>1. get' \in [Getter -> GetType]
    BY <1>5 DEF GetMiss, OnChange, TypeOK, GetType
  <2>2. CASE GetMiss(g, k)
    BY <2>1, <2>2 DEF GetMiss, TypeOK, EventType, EntryType, GetType, Scope
  <2>3. CASE OnChange(g, k)
    <3>1. news' \in [Key -> EventType \cup {NoNews}] /\ handlers' \subseteq Key
      BY <2>3 DEF OnChange, TypeOK
    <3> QED BY <2>1, <2>3, <3>1 DEF OnChange, TypeOK, EventType, EntryType, GetType, Scope
  <2> QED BY <1>5, <2>2, <2>3
<1>6. ASSUME NEW g \in Getter, FetchReply(g) \/ FetchFails(g)
      PROVE  TypeOK'
  <2>1. CASE FetchReply(g)
    <3> DEFINE k == get[g].key
    <3>1. k \in Key
      BY <2>1, GetFields DEF FetchReply, TypeOK
    <3>2. Effective(k).value # Unset => Effective(k) \in EntryType
      BY <3>1 DEF Effective, EntryType, TypeOK, Scope
    <3>3. get' \in {[get EXCEPT ![g] = [at |-> "idle"]],
                    [get EXCEPT ![g] = [at |-> "reply", key |-> k, entry |-> Effective(k),
                                        clean |-> k \in subs]]}
      BY <2>1 DEF FetchReply
    <3>4. Effective(k).value = Unset => get' = [get EXCEPT ![g] = [at |-> "idle"]]
      BY <2>1 DEF FetchReply
    <3>5. [at |-> "idle"] \in GetType
      BY DEF GetType
    <3>6. Effective(k).value # Unset =>
             [at |-> "reply", key |-> k, entry |-> Effective(k), clean |-> k \in subs] \in GetType
      BY <3>1, <3>2 DEF GetType
    <3> HIDE DEF k
    <3>7. get' \in [Getter -> GetType]
      BY <3>3, <3>4, <3>5, <3>6 DEF TypeOK
    <3> QED BY <2>1, <3>7 DEF FetchReply, TypeOK, EventType, EntryType, GetType, Scope
  <2>2. CASE FetchFails(g)
    <3>1. get' \in [Getter -> GetType]
      BY <2>2 DEF FetchFails, TypeOK, GetType
    <3>2. budget' \in [{"changes", "drops"} -> Nat]
      BY <2>2, SpendType DEF FetchFails
    <3> QED BY <2>2, <3>1, <3>2 DEF FetchFails, TypeOK, EventType, EntryType, GetType, Scope
  <2> QED BY <1>6, <2>1, <2>2
<1>7. ASSUME NEW g \in Getter, Store(g) \/ Subscribe(g)
      PROVE  TypeOK'
  <2>1. get[g].key \in Key /\ (get[g].at = "reply" => get[g].entry \in EntryType)
    BY <1>7, GetFields DEF Store, Subscribe, TypeOK
  <2>2. get' \in [Getter -> GetType]
    BY <1>7, <2>1 DEF Store, Subscribe, TypeOK, GetType
  <2>3. CASE Store(g)
    <3>1. cache' \in [Key -> EntryType \cup {NoEntry}] /\ synced' \subseteq Key
      BY <2>1, <2>3 DEF Store, TypeOK
    <3> QED BY <2>2, <2>3, <3>1 DEF Store, TypeOK, EventType, EntryType, GetType, Scope
  <2>4. CASE Subscribe(g)
    <3>1. subscribed' \subseteq Key /\ asked' \subseteq Key
      BY <2>1, <2>4 DEF Subscribe, Send, TypeOK
    <3> QED BY <2>2, <2>4, <3>1 DEF Subscribe, TypeOK, EventType, EntryType, GetType, Scope
  <2> QED BY <1>7, <2>3, <2>4
<1>8. CASE LoopTop \/ ReadFails \/ Retry
  <2>1. loop' \in {"top", "dial", "wait", "exited"}
    BY <1>8 DEF LoopTop, ReadFails, Retry
  <2>2. UNCHANGED <<registryVars, conn, cacheVars, subscribed, handlerVars, closeVars, budget>>
    BY <1>8 DEF LoopTop, ReadFails, Retry
  <2> QED BY <2>1, <2>2 DEF TypeOK, EventType, EntryType, GetType, Scope
<1>9. CASE Connect \/ ResubscribeAll
  <2>1. wire' \in Seq(EventType) /\ asked' \subseteq Key
    <3>1. CASE Connect
      BY <3>1 DEF Connect, TypeOK
    <3>2. CASE ResubscribeAll
      BY <3>2 DEF ResubscribeAll, Send, TypeOK
    <3> QED BY <1>9, <3>1, <3>2
  <2>2. /\ conn' \in {conn, "open"} /\ loop' \in {"resubscribe", "listen"}
        /\ UNCHANGED <<setting, subs, cacheVars, subscribed, handlerVars, closeVars, budget>>
    BY <1>9 DEF Connect, ResubscribeAll
  <2> QED BY <2>1, <2>2 DEF TypeOK, EventType, EntryType, GetType, Scope
<1>10. CASE DialFails
  <2>1. budget' \in [{"changes", "drops"} -> Nat]
    BY <1>10, SpendType DEF DialFails
  <2> QED BY <1>10, <2>1 DEF DialFails, TypeOK, EventType, EntryType, GetType, Scope
<1>11. CASE HandleChange
  <2> DEFINE e == Head(wire)
  <2>1. e \in EventType /\ e.key \in Key /\ wire' \in Seq(EventType)
    BY <1>11, EventFields DEF HandleChange, TypeOK
  <2>2. /\ cache' = [cache EXCEPT ![e.key] = AfterEvent(cache[e.key], e)]
        /\ told' = [told EXCEPT ![e.key] = IF e.key \in handlers THEN e ELSE told[e.key]]
        /\ get' = [g \in Getter |-> IF get[g].at = "reply" /\ get[g].key = e.key
                                    THEN [get[g] EXCEPT !.clean = FALSE] ELSE get[g]]
    BY <1>11 DEF HandleChange, Tell
  <2> HIDE DEF e
  <2>3. cache[e.key] \in EntryType \cup {NoEntry} /\ told[e.key] \in EventType \cup {NoNews}
    BY <2>1 DEF TypeOK
  <2>4. AfterEvent(cache[e.key], e) \in EntryType \cup {NoEntry}
    BY <2>1, <2>3, AfterEventType
  <2>5. /\ cache' \in [Key -> EntryType \cup {NoEntry}]
        /\ told' \in [Key -> EventType \cup {NoNews}]
    BY <2>1, <2>2, <2>3, <2>4 DEF TypeOK
  <2>6. get' \in [Getter -> GetType]
    BY <2>2, GetFields DEF TypeOK
  <2> QED BY <1>11, <2>1, <2>5, <2>6
          DEF HandleChange, TypeOK, EventType, EntryType, GetType, Scope
<1>12. CASE CloseBegins
  BY <1>12 DEF CloseBegins, TypeOK, EventType, EntryType, GetType, Scope
<1>13. CASE CloseConn
  <2>1. CASE conn = "nil"
    BY <1>13, <2>1 DEF CloseConn, TypeOK, EventType, EntryType, GetType, Scope
  <2>2. CASE conn # "nil"
    <3>1. Hangup("closed", <<>>) /\ <<>> \in Seq(EventType)
      BY <1>13, <2>2 DEF CloseConn
    <3> QED BY <1>13, <3>1, HangupType
            DEF CloseConn, TypeOK, EventType, EntryType, GetType, Scope
  <2> QED BY <2>1, <2>2
<1> QED BY <1>1, <1>2, <1>3, <1>4, <1>5, <1>6, <1>7, <1>8, <1>9, <1>10, <1>11, <1>12, <1>13
        DEF Next, LoopStep, GetStep

\* Every value that comes from the registry or goes over the wire is one: a setting
\* that the registry does not have never reaches the cache.
THEOREM TypeCorrect == Spec => []TypeOK
BY TypeInit, TypeNext, PTL DEF Spec

-----------------------------------------------------------------------------
(* Subscriptions. *)

LEMMA LoopNext == TypeOK /\ LoopInv /\ [Next]_vars => LoopInv'
<1> SUFFICES ASSUME TypeOK, LoopInv, [Next]_vars PROVE LoopInv'
  OBVIOUS
<1> USE DEF registryVars, cacheVars, handlerVars, closeVars, LoopInv, SubscriptionsSurvive
<1>1. CASE UNCHANGED vars
  BY <1>1 DEF vars
<1>2. ASSUME NEW k \in Key, NEW s \in Scope, NEW v \in Value \cup {Unset}, Change(k, s, v)
      PROVE  LoopInv'
  <2>1. /\ wire' # wire => k \in subs
        /\ UNCHANGED <<conn, asked, subs, subscribed, loop>>
    BY <1>2 DEF Change
  <2> QED BY <2>1
<1>3. ASSUME NEW k \in Key, AcceptSubscribe(k)
      PROVE  LoopInv'
  BY <1>3 DEF AcceptSubscribe
<1>4. CASE LoseConnection
  <2>1. conn = "open" /\ conn' = "lost" /\ asked' = {} /\ subs' = {} /\ UNCHANGED loop
    BY <1>4 DEF LoseConnection, Hangup
  <2> QED BY <2>1
<1>5. ASSUME NEW g \in Getter, NEW k \in Key, GetMiss(g, k) \/ OnChange(g, k)
      PROVE  LoopInv'
  <2>1. UNCHANGED <<wire, conn, asked, subs, subscribed, loop>>
    BY <1>5 DEF GetMiss, OnChange
  <2> QED BY <2>1
<1>6. ASSUME NEW g \in Getter, FetchReply(g) \/ FetchFails(g) \/ Store(g)
      PROVE  LoopInv'
  <2>1. UNCHANGED <<wire, conn, asked, subs, subscribed, loop>>
    BY <1>6 DEF FetchReply, FetchFails, Store
  <2> QED BY <2>1
<1>7. ASSUME NEW g \in Getter, Subscribe(g)
      PROVE  LoopInv'
  BY <1>7 DEF Subscribe, Send
<1>8. CASE LoopTop \/ Retry \/ DialFails
  <2>1. /\ loop \in {"top", "dial", "wait", "exited"} /\ loop' \in {"top", "dial", "wait", "exited"}
        /\ UNCHANGED <<wire, conn, asked, subs, subscribed>>
    BY <1>8 DEF LoopTop, Retry, DialFails
  <2> QED BY <2>1
<1>9. CASE Connect
  BY <1>9 DEF Connect
<1>10. CASE ResubscribeAll
  BY <1>10 DEF ResubscribeAll, Send
<1>11. CASE ReadFails
  BY <1>11 DEF ReadFails
<1>12. CASE HandleChange
  <2>1. /\ loop = "listen" /\ wire # <<>> /\ UNCHANGED <<conn, asked, subs, subscribed, loop>>
    BY <1>12 DEF HandleChange
  <2> QED BY <2>1
<1>13. CASE CloseBegins
  <2>1. UNCHANGED <<wire, conn, asked, subs, subscribed, loop>>
    BY <1>13 DEF CloseBegins
  <2> QED BY <2>1
<1>14. CASE CloseConn
  <2>1. CASE conn = "nil"
    BY <1>14, <2>1 DEF CloseConn
  <2>2. CASE conn # "nil"
    BY <1>14, <2>2 DEF CloseConn, Hangup
  <2> QED BY <2>1, <2>2
<1> QED BY <1>1, <1>2, <1>3, <1>4, <1>5, <1>6, <1>7, <1>8, <1>9, <1>10, <1>11, <1>12, <1>13, <1>14
        DEF Next, LoopStep, GetStep

\* A subscription that a getter sends, or that the loop repeats after a reconnect, falls
\* between no two of them.
THEOREM SubscriptionsAreKept == Spec => []SubscriptionsSurvive
<1>1. Init => TypeOK /\ LoopInv
  <2>1. Init => LoopInv
    BY DEF Init, LoopInv, SubscriptionsSurvive
  <2> QED BY <2>1, TypeInit
<1>2. TypeOK /\ LoopInv /\ [Next]_vars => (TypeOK /\ LoopInv)'
  BY TypeNext, LoopNext
<1>3. LoopInv => SubscriptionsSurvive
  BY DEF LoopInv
<1> QED BY <1>1, <1>2, <1>3, PTL DEF Spec

-----------------------------------------------------------------------------
(* The namespace overlay, for any events w and settings st. *)

Settings == [Key -> [Scope -> Value \cup {Unset}]]

\* Past the event that comes next.
LEMMA AfterNext ==
    ASSUME NEW w \in Seq(EventType), NEW i \in 0 .. Len(w), i < Len(w), NEW k, NEW s
    PROVE  /\ After(w, i, k, s) <=> \/ w[i + 1].key = k /\ w[i + 1].scope = s
                                    \/ After(w, i + 1, k, s)
           /\ OwnSetAfter(w, i, k) <=>
                 \/ w[i + 1].key = k /\ w[i + 1].scope = "own" /\ w[i + 1].action = "set"
                 \/ OwnSetAfter(w, i + 1, k)
<1>1. i + 1 .. Len(w) = {i + 1} \cup (i + 1 + 1 .. Len(w))
  OBVIOUS
<1> QED BY <1>1 DEF After, OwnSetAfter

\* AfterEvent keeps an entry right: the heart of handleChange.
LEMMA RightNext ==
    ASSUME NEW w \in Seq(EventType), NEW st \in Settings, NEW k \in Key,
           NEW i \in 0 .. Len(w), i < Len(w),
           NEW x \in EntryType \cup {NoEntry},
           Latest(k, w, st), Right(x, k, w, i, st)
    PROVE  Right(IF w[i + 1].key = k THEN AfterEvent(x, w[i + 1]) ELSE x, k, w, i + 1, st)
<1> DEFINE e == w[i + 1]
<1>1. e \in EventType
  OBVIOUS
<1>2. /\ e.scope \in Scope /\ e.action \in {"set", "delete"}
      /\ e.action = "set" <=> e.value \in Value
      /\ e.action = "delete" <=> e.value = Unset
  BY <1>1, EventFields
<1>3. /\ \A s \in Scope : After(w, i, k, s) <=> \/ e.key = k /\ e.scope = s
                                               \/ After(w, i + 1, k, s)
      /\ OwnSetAfter(w, i, k) <=> \/ e.key = k /\ e.scope = "own" /\ e.action = "set"
                                  \/ OwnSetAfter(w, i + 1, k)
  BY AfterNext
<1>4. e.key = k /\ ~After(w, i + 1, k, e.scope) => e.value = st[k][e.scope]
  BY <1>2 DEF Latest
<1> HIDE DEF e
<1>5. CASE e.key # k
  BY <1>3, <1>5 DEF Right, Scope, e
<1>6. CASE e.key = k /\ x = NoEntry
  BY <1>6 DEF Right, AfterEvent, e
<1>7. CASE e.key = k /\ x # NoEntry
  <2>1. x \in EntryType /\ x.source \in Scope
    BY <1>7 DEF EntryType
  <2> DEFINE y == AfterEvent(x, e)
  <2>2. CASE e.action = "set" /\ (e.scope = "own" \/ x.source = "global")
    <3>1. y = [value |-> e.value, source |-> e.scope]
      BY <1>7, <2>2 DEF AfterEvent
    <3>2. y.value = e.value /\ y.source = e.scope
      BY <3>1
    <3> HIDE DEF y
    <3>3. ASSUME e.scope = "own"
          PROVE  Right(y, k, w, i + 1, st)
      BY <1>4, <1>7, <3>2, <3>3 DEF Right
    <3>4. ASSUME e.scope = "global"
          PROVE  Right(y, k, w, i + 1, st)
      <4>1. x.source = "global"
        BY <2>2, <3>4
      <4>2. OwnSetAfter(w, i + 1, k) \/ st[k]["own"] = Unset
        BY <1>3, <1>7, <3>4, <4>1 DEF Right
      <4> QED BY <1>4, <1>7, <3>2, <3>4, <4>2 DEF Right
    <3>5. Right(y, k, w, i + 1, st)
      BY <1>2, <3>3, <3>4 DEF Scope
    <3> QED BY <1>7, <3>5 DEF y, e
  <2>3. CASE e.action = "set" /\ ~(e.scope = "own" \/ x.source = "global")
    <3>1. y = x
      BY <1>7, <2>3 DEF AfterEvent
    <3>2. x.source = "own" /\ e.scope = "global"
      BY <1>2, <2>1, <2>3 DEF Scope
    <3>3. Right(x, k, w, i + 1, st)
      BY <1>3, <1>7, <3>2 DEF Right, Scope
    <3> QED BY <1>7, <3>1, <3>3 DEF e
  <2>4. CASE e.action = "delete" /\ e.scope = x.source
    <3>1. y = NoEntry
      BY <1>7, <2>4 DEF AfterEvent
    <3> QED BY <1>7, <3>1 DEF Right, e
  <2>5. CASE e.action = "delete" /\ e.scope # x.source
    <3>1. y = x
      BY <1>7, <2>5 DEF AfterEvent
    <3>2. Right(x, k, w, i + 1, st)
      BY <1>2, <1>3, <1>7, <2>1, <2>5 DEF Right, Scope
    <3> QED BY <1>7, <3>1, <3>2 DEF e
  <2> QED BY <1>2, <2>2, <2>3, <2>4, <2>5
<1> QED BY <1>5, <1>6, <1>7

\* With no event to come, an entry is the registry's value or none.
LEMMA RightEnds ==
    ASSUME TypeOK, NEW k \in Key, NEW i \in Nat,
           NEW x \in EntryType \cup {NoEntry}, Right(x, k, wire, i, setting),
           \A j \in i + 1 .. Len(wire) : wire[j].key # k
    PROVE  x \in {NoEntry, Effective(k)}
<1>1. /\ ~OwnSetAfter(wire, i, k)
      /\ \A s \in Scope : ~After(wire, i, k, s)
  BY DEF After, OwnSetAfter
<1>2. CASE x # NoEntry
  <2>1. /\ x = [value |-> x.value, source |-> x.source] /\ x.value \in Value
        /\ \/ x.source = "own" /\ x.value = setting[k]["own"]
           \/ /\ x.source = "global" /\ setting[k]["own"] = Unset
              /\ x.value = setting[k]["global"]
    BY <1>1, <1>2 DEF Right, EntryType, Scope
  <2> QED BY <2>1, RegistryAssumption DEF Effective
<1> QED BY <1>2

\* What the registry answers is right for all events that are under way.
LEMMA AnswerIsRight ==
    ASSUME TypeOK, NEW k \in Key, NEW w
    PROVE  Right(Effective(k), k, w, 0, setting)
BY DEF Right, Effective

\* One event is handled ...
LEMMA TailShifts ==
    ASSUME NEW w \in Seq(EventType), w # <<>>, NEW k, NEW st
    PROVE  /\ Tail(w) \in Seq(EventType) /\ Len(Tail(w)) = Len(w) - 1
           /\ \A i \in 1 .. Len(Tail(w)) : Tail(w)[i] = w[i + 1]
           /\ Latest(k, w, st) => Latest(k, Tail(w), st)
           /\ \A x : Right(x, k, w, 1, st) => Right(x, k, Tail(w), 0, st)
<1> DEFINE t == Tail(w)
<1>1. /\ t \in Seq(EventType) /\ Len(t) = Len(w) - 1 /\ Len(w) \in Nat /\ Len(t) \in Nat
      /\ \A i \in 1 .. Len(t) : t[i] = w[i + 1]
  OBVIOUS
<1> HIDE DEF t
<1>2. ASSUME NEW i \in 0 .. Len(t), NEW s
      PROVE  /\ After(t, i, k, s) <=> After(w, i + 1, k, s)
             /\ OwnSetAfter(t, i, k) <=> OwnSetAfter(w, i + 1, k)
  <2>1. /\ \A j \in i + 1 .. Len(t) : j + 1 \in i + 1 + 1 .. Len(w) /\ t[j] = w[j + 1]
        /\ \A j \in i + 1 + 1 .. Len(w) :
               j - 1 \in i + 1 .. Len(t) /\ t[j - 1] = w[j]
    BY <1>1
  <2>2. After(t, i, k, s) <=> After(w, i + 1, k, s)
    BY <2>1 DEF After
  <2>3. OwnSetAfter(t, i, k) <=> OwnSetAfter(w, i + 1, k)
    BY <2>1 DEF OwnSetAfter
  <2> QED BY <2>2, <2>3
<1>3. ASSUME Latest(k, w, st)
      PROVE  Latest(k, t, st)
  <2> SUFFICES ASSUME NEW s \in Scope, NEW i \in 1 .. Len(t),
                      t[i].key = k, t[i].scope = s, ~After(t, i, k, s)
               PROVE  t[i].value = st[k][s]
    BY DEF Latest
  <2>1. i + 1 \in 1 .. Len(w) /\ i \in 0 .. Len(t) /\ t[i] = w[i + 1]
    BY <1>1
  <2>2. ~After(w, i + 1, k, s)
    BY <1>2, <2>1
  <2> QED BY <1>3, <2>1, <2>2 DEF Latest
<1>4. \A x : Right(x, k, w, 1, st) => Right(x, k, t, 0, st)
  <2>1. /\ 0 \in 0 .. Len(t) /\ 0 + 1 = 1
    BY <1>1
  <2>2. /\ \A s : After(t, 0, k, s) <=> After(w, 1, k, s)
        /\ OwnSetAfter(t, 0, k) <=> OwnSetAfter(w, 1, k)
    BY <1>2, <2>1
  <2> QED BY <2>2 DEF Right
<1> QED BY <1>1, <1>3, <1>4 DEF t

\* ... and one is sent.
LEMMA AppendShifts ==
    ASSUME NEW w \in Seq(EventType), NEW e \in EventType
    PROVE  LET a == Append(w, e) IN
           /\ a \in Seq(EventType) /\ Len(a) = Len(w) + 1 /\ Len(w) \in Nat
           /\ \A i \in 1 .. Len(w) : a[i] = w[i]
           /\ a[Len(w) + 1] = e
           /\ \A i \in 0 .. Len(w) : \A k, s :
                 After(a, i, k, s) <=> After(w, i, k, s) \/ (e.key = k /\ e.scope = s)
           /\ \A i \in 0 .. Len(w) : \A k :
                 OwnSetAfter(a, i, k) <=>
                     \/ OwnSetAfter(w, i, k)
                     \/ e.key = k /\ e.scope = "own" /\ e.action = "set"
<1> DEFINE a == Append(w, e)
<1>1. /\ a \in Seq(EventType) /\ Len(a) = Len(w) + 1 /\ Len(w) \in Nat
      /\ \A i \in 1 .. Len(w) : a[i] = w[i]
      /\ a[Len(w) + 1] = e
  OBVIOUS
<1> HIDE DEF a
<1>2. ASSUME NEW i \in 0 .. Len(w), NEW k, NEW s
      PROVE  /\ After(a, i, k, s) <=> After(w, i, k, s) \/ (e.key = k /\ e.scope = s)
             /\ OwnSetAfter(a, i, k) <=>
                   \/ OwnSetAfter(w, i, k)
                   \/ e.key = k /\ e.scope = "own" /\ e.action = "set"
  <2>1. /\ i + 1 .. Len(a) = (i + 1 .. Len(w)) \cup {Len(w) + 1}
        /\ \A j \in i + 1 .. Len(w) : a[j] = w[j]
    BY <1>1
  <2> QED BY <1>1, <2>1 DEF After, OwnSetAfter
<1> QED BY <1>1, <1>2 DEF a

\* The settings after a change.
Changed(st, e) == [st EXCEPT ![e.key][e.scope] = e.value]

\* A change that the client has subscribed to.
LEMMA ChangeKeepsOverlay ==
    ASSUME NEW w \in Seq(EventType), NEW e \in EventType, NEW st \in Settings,
           st[e.key][e.scope] # e.value, Latest(e.key, w, st)
    PROVE  /\ Latest(e.key, Append(w, e), Changed(st, e))
           /\ \A x \in EntryType \cup {NoEntry} :
                 Right(x, e.key, w, 0, st) => Right(x, e.key, Append(w, e), 0, Changed(st, e))
<1> DEFINE a == Append(w, e)
           k == e.key
           s == e.scope
           v == e.value
           st2 == Changed(st, e)
<1>1. \A r \in Scope : st2[k][r] = IF r = s THEN v ELSE st[k][r]
  BY EventFields DEF Settings, Changed
<1>2. /\ a \in Seq(EventType) /\ Len(a) = Len(w) + 1 /\ Len(w) \in Nat
      /\ \A i \in 1 .. Len(w) : a[i] = w[i]
      /\ a[Len(w) + 1] = e
      /\ \A i \in 0 .. Len(w) : \A r :
            /\ After(a, i, k, r) <=> After(w, i, k, r) \/ r = s
            /\ OwnSetAfter(a, i, k) <=>
                  OwnSetAfter(w, i, k) \/ (s = "own" /\ e.action = "set")
  BY AppendShifts
<1> HIDE DEF a, st2
<1>3. /\ e.action = "set" <=> v # Unset
      /\ s \in Scope /\ st[k][s] # v /\ Latest(k, w, st)
  BY EventFields, RegistryAssumption
<1> HIDE DEF k, s, v
<1>4. Latest(k, a, st2)
  <2> SUFFICES ASSUME NEW r \in Scope, NEW i \in 1 .. Len(a),
                      a[i].key = k, a[i].scope = r, ~After(a, i, k, r)
               PROVE  a[i].value = st2[k][r]
    BY DEF Latest
  <2>1. CASE i = Len(w) + 1
    BY <1>1, <1>2, <2>1 DEF s, v
  <2>2. CASE i # Len(w) + 1
    <3>1. i \in 1 .. Len(w) /\ i \in 0 .. Len(w)
      BY <1>2, <2>2
    <3>2. r # s /\ ~After(w, i, k, r) /\ a[i] = w[i]
      BY <1>2, <3>1
    <3> QED BY <1>1, <1>3, <3>1, <3>2 DEF Latest
  <2> QED BY <2>1, <2>2
<1>5. ASSUME NEW x \in EntryType \cup {NoEntry}, Right(x, k, w, 0, st)
      PROVE  Right(x, k, a, 0, st2)
  <2>1. 0 \in 0 .. Len(w)
    BY <1>2
  <2>2. /\ \A r : After(a, 0, k, r) <=> After(w, 0, k, r) \/ r = s
        /\ OwnSetAfter(a, 0, k) <=> OwnSetAfter(w, 0, k) \/ (s = "own" /\ e.action = "set")
    BY <1>2, <2>1
  <2>3. CASE s = "own"
    BY <1>1, <1>3, <1>5, <2>2, <2>3 DEF Right, Scope
  <2>4. CASE s = "global"
    BY <1>1, <1>5, <2>2, <2>4 DEF Right, Scope
  <2> QED BY <1>3, <2>3, <2>4 DEF Scope
<1> QED BY <1>4, <1>5 DEF a, k, s, v, st2

\* A change to another key.
LEMMA ChangeElsewhere ==
    ASSUME NEW w \in Seq(EventType), NEW st, NEW st2, NEW k, st2[k] = st[k],
           NEW e \in EventType, e.key # k, NEW x
    PROVE  /\ Latest(k, w, st) => Latest(k, Append(w, e), st2)
           /\ Right(x, k, w, 0, st) => Right(x, k, Append(w, e), 0, st2)
<1> DEFINE a == Append(w, e)
<1>1. /\ Len(a) = Len(w) + 1 /\ Len(w) \in Nat
      /\ \A i \in 1 .. Len(w) : a[i] = w[i]
      /\ a[Len(w) + 1] = e
      /\ \A i \in 0 .. Len(w) : \A r :
            /\ After(a, i, k, r) <=> After(w, i, k, r)
            /\ OwnSetAfter(a, i, k) <=> OwnSetAfter(w, i, k)
  BY AppendShifts
<1> HIDE DEF a
<1>2. ASSUME Latest(k, w, st)
      PROVE  Latest(k, a, st2)
  <2> SUFFICES ASSUME NEW r \in Scope, NEW i \in 1 .. Len(a),
                      a[i].key = k, a[i].scope = r, ~After(a, i, k, r)
               PROVE  a[i].value = st2[k][r]
    BY DEF Latest
  <2>1. i \in 1 .. Len(w) /\ i \in 0 .. Len(w)
    BY <1>1
  <2> QED BY <1>1, <1>2, <2>1 DEF Latest
<1>3. 0 \in 0 .. Len(w)
  BY <1>1
<1>4. Right(x, k, w, 0, st) => Right(x, k, a, 0, st2)
  BY <1>1, <1>3 DEF Right
<1> QED BY <1>2, <1>4 DEF a

-----------------------------------------------------------------------------
(* The overlay, in the client. *)

LEMMA ReplyFields ==
    ASSUME TypeOK, NEW g \in Getter, get[g].at = "reply"
    PROVE  get[g].key \in Key /\ get[g].entry \in EntryType
BY GetFields DEF TypeOK

\* Steps that leave the overlay alone.
LEMMA QuietSteps ==
    ASSUME WireInv, SyncInv, UNCHANGED <<setting, subs, wire, conn, cache, synced>>,
           \A g \in Getter : get'[g] = get[g] \/ get'[g].at # "reply"
    PROVE  WireInv' /\ SyncInv'
<1>1. \A g \in Getter : CleanReply(get'[g], subs, wire, setting)
  BY DEF SyncInv, CleanReply
<1> QED BY <1>1 DEF WireInv, SyncInv

LEMMA ConnectionEnds ==
    ASSUME TypeOK, NEW state \in {"lost", "closed"}, NEW pre \in Seq(EventType),
           Hangup(state, pre)
    PROVE  WireInv' /\ SyncInv'
<1>1. \A g \in Getter : get'[g].at = "reply" => ~get'[g].clean
  BY HangupType
<1>2. conn' # "open" /\ subs' = {} /\ synced' = {}
  BY DEF Hangup
<1> QED BY <1>1, <1>2 DEF WireInv, SyncInv, CleanReply

LEMMA OverlayChange ==
    ASSUME TypeOK, LoopInv, WireInv, SyncInv,
           NEW k \in Key, NEW s \in Scope, NEW v \in Value \cup {Unset}, Change(k, s, v)
    PROVE  WireInv' /\ SyncInv'
<1> DEFINE e == [key |-> k, scope |-> s, value |-> v,
                 action |-> IF v = Unset THEN "delete" ELSE "set"]
<1>1. /\ setting[k][s] # v /\ setting' = [setting EXCEPT ![k][s] = v]
      /\ IF k \in subs THEN wire' = Append(wire, e) ELSE wire' = wire
      /\ UNCHANGED <<conn, subs, cache, get, synced>>
  BY DEF Change, cacheVars
<1>2. e \in EventType /\ e.key = k /\ e.scope = s /\ e.value = v
  BY RegistryAssumption DEF EventType
<1>3. wire \in Seq(EventType) /\ setting \in Settings
  BY DEF TypeOK, Settings
<1> HIDE DEF e
<1>4. ASSUME NEW j \in Key, j \in subs, NEW x \in EntryType \cup {NoEntry}
      PROVE  /\ Latest(j, wire', setting')
             /\ Right(x, j, wire, 0, setting) => Right(x, j, wire', 0, setting')
  <2>1. Latest(j, wire, setting)
    BY <1>4 DEF WireInv
  <2>2. CASE j = k
    <3>1. wire' = Append(wire, e) /\ k \in subs /\ Latest(k, wire, setting)
      BY <1>1, <1>4, <2>1, <2>2
    <3>2. setting' = Changed(setting, e)
      BY <1>1, <1>2 DEF Changed
    <3>3. /\ Latest(e.key, Append(wire, e), setting')
          /\ Right(x, e.key, wire, 0, setting) => Right(x, e.key, Append(wire, e), 0, setting')
      <4>1. /\ wire \in Seq(EventType) /\ e \in EventType /\ setting \in Settings
            /\ setting[e.key][e.scope] # e.value /\ Latest(e.key, wire, setting)
        BY <1>1, <1>2, <1>3, <3>1
      <4>2. /\ Latest(e.key, Append(wire, e), Changed(setting, e))
            /\ \A y \in EntryType \cup {NoEntry} :
                  Right(y, e.key, wire, 0, setting) =>
                      Right(y, e.key, Append(wire, e), 0, Changed(setting, e))
        BY <4>1, ChangeKeepsOverlay
      <4> QED BY <3>2, <4>2
    <3> QED BY <1>2, <2>2, <3>1, <3>3
  <2>3. CASE j # k
    <3>1. setting'[j] = setting[j]
      BY <1>1, <1>3, <2>3 DEF Settings
    <3>2. e.key # j
      BY <1>2, <2>3
    <3>3. CASE k \in subs
      <4>1. wire' = Append(wire, e)
        BY <1>1, <3>3
      <4>2. /\ Latest(j, Append(wire, e), setting')
            /\ Right(x, j, wire, 0, setting) => Right(x, j, Append(wire, e), 0, setting')
        BY <1>2, <1>3, <2>1, <3>1, <3>2, ChangeElsewhere
      <4> QED BY <4>1, <4>2
    <3>4. CASE k \notin subs
      <4>1. wire' = wire
        BY <1>1, <3>4
      <4> QED BY <2>1, <3>1, <4>1 DEF Latest, Right
    <3> QED BY <3>3, <3>4
  <2> QED BY <2>2, <2>3
<1>5. WireInv'
  <2>1. ASSUME conn = "open", NEW i \in 1 .. Len(wire')
        PROVE  wire'[i].key \in subs
    <3>1. CASE k \in subs
      <4>1. /\ Len(wire') = Len(wire) + 1 /\ Len(wire) \in Nat
            /\ \A j \in 1 .. Len(wire) : wire'[j] = wire[j]
            /\ wire'[Len(wire) + 1] = e
        BY <1>1, <1>2, <1>3, <3>1, AppendShifts
      <4>2. i \in 1 .. Len(wire) \/ i = Len(wire) + 1
        BY <4>1
      <4> QED BY <1>2, <2>1, <3>1, <4>1, <4>2 DEF WireInv
    <3>2. CASE k \notin subs
      BY <1>1, <2>1, <3>2 DEF WireInv
    <3> QED BY <3>1, <3>2
  <2>2. \A j \in subs : Latest(j, wire', setting')
    BY <1>4 DEF TypeOK
  <2> QED BY <1>1, <2>1, <2>2 DEF WireInv
<1>6. SyncInv'
  <2>1. ASSUME NEW g \in Getter
        PROVE  CleanReply(get[g], subs, wire', setting')
    BY <1>4, ReplyFields DEF SyncInv, CleanReply
  <2>2. \A j \in synced : j \in subs /\ Right(cache[j], j, wire', 0, setting')
    BY <1>4 DEF SyncInv, TypeOK
  <2> QED BY <1>1, <2>1, <2>2 DEF SyncInv
<1> QED BY <1>5, <1>6

LEMMA OverlayHandle ==
    ASSUME TypeOK, LoopInv, WireInv, SyncInv, HandleChange
    PROVE  WireInv' /\ SyncInv'
<1> DEFINE e == Head(wire)
<1>1. /\ wire # <<>> /\ wire' = Tail(wire)
      /\ cache' = [cache EXCEPT ![e.key] = AfterEvent(cache[e.key], e)]
      /\ get' = [g \in Getter |-> IF get[g].at = "reply" /\ get[g].key = e.key
                                  THEN [get[g] EXCEPT !.clean = FALSE] ELSE get[g]]
      /\ UNCHANGED <<setting, subs, conn, synced>>
  BY DEF HandleChange
<1>2. /\ wire \in Seq(EventType) /\ setting \in Settings
      /\ cache \in [Key -> EntryType \cup {NoEntry}] /\ get \in [Getter -> GetType]
  BY DEF TypeOK, Settings
<1>3. e \in EventType /\ e = wire[1] /\ 0 \in 0 .. Len(wire) /\ 0 < Len(wire) /\ e.key \in Key
  BY <1>1, <1>2, EventFields
<1> HIDE DEF e
<1>4. ASSUME NEW j \in Key, j \in subs, NEW x \in EntryType \cup {NoEntry}
      PROVE  /\ Latest(j, wire', setting)
             /\ Right(x, j, wire, 0, setting) =>
                    Right(IF e.key = j THEN AfterEvent(x, e) ELSE x, j, wire', 0, setting)
  <2>1. Latest(j, wire, setting)
    BY <1>4 DEF WireInv
  <2>2. Latest(j, wire', setting)
    BY <1>1, <1>2, <2>1, TailShifts
  <2>3. ASSUME Right(x, j, wire, 0, setting)
        PROVE  Right(IF e.key = j THEN AfterEvent(x, e) ELSE x, j, wire', 0, setting)
    <3>1. Right(IF wire[0 + 1].key = j THEN AfterEvent(x, wire[0 + 1]) ELSE x,
                j, wire, 0 + 1, setting)
      BY <1>2, <1>3, <2>1, <2>3, RightNext
    <3>2. 0 + 1 = 1
      OBVIOUS
    <3>3. Right(IF e.key = j THEN AfterEvent(x, e) ELSE x, j, wire, 1, setting)
      BY <1>3, <3>1, <3>2
    <3> QED BY <1>1, <1>2, <3>3, TailShifts
  <2> QED BY <2>2, <2>3
<1>5. WireInv'
  <2>1. conn = "open" => \A i \in 1 .. Len(wire') : wire'[i].key \in subs
    <3>1. \A i \in 1 .. Len(wire') : wire'[i] = wire[i + 1] /\ i + 1 \in 1 .. Len(wire)
      BY <1>1, <1>2, TailShifts
    <3> QED BY <3>1 DEF WireInv
  <2>2. \A j \in subs : Latest(j, wire', setting)
    BY <1>4 DEF TypeOK
  <2> QED BY <1>1, <2>1, <2>2 DEF WireInv
<1>6. ASSUME NEW g \in Getter
      PROVE  CleanReply(get'[g], subs, wire', setting)
  <2>1. CASE get[g].at = "reply" /\ get[g].key = e.key
    <3>1. get'[g].clean = FALSE
      BY <1>1, <1>2, <2>1, GetFields
    <3> QED BY <3>1 DEF CleanReply
  <2>2. CASE ~(get[g].at = "reply" /\ get[g].key = e.key)
    <3>1. get'[g] = get[g]
      BY <1>1, <2>2
    <3>2. CASE get[g].at = "reply" /\ get[g].clean
      <4>1. /\ get[g].key \in subs /\ get[g].key \in Key /\ get[g].entry \in EntryType
            /\ Right(get[g].entry, get[g].key, wire, 0, setting)
        BY <3>2, ReplyFields DEF SyncInv, CleanReply
      <4>2. e.key # get[g].key
        BY <2>2, <3>2
      <4>3. Right(get[g].entry, get[g].key, wire', 0, setting)
        BY <1>4, <4>1, <4>2
      <4> QED BY <3>1, <4>1, <4>3 DEF CleanReply
    <3>3. CASE ~(get[g].at = "reply" /\ get[g].clean)
      BY <3>1, <3>3 DEF CleanReply
    <3> QED BY <3>2, <3>3
  <2> QED BY <2>1, <2>2
<1>7. ASSUME NEW j \in synced
      PROVE  j \in subs /\ Right(cache'[j], j, wire', 0, setting)
  <2>1. j \in Key /\ j \in subs /\ Right(cache[j], j, wire, 0, setting)
        /\ cache[j] \in EntryType \cup {NoEntry}
    BY <1>2, <1>7 DEF SyncInv, TypeOK
  <2>2. cache'[j] = IF e.key = j THEN AfterEvent(cache[j], e) ELSE cache[j]
    BY <1>1, <1>2, <2>1
  <2> QED BY <1>4, <2>1, <2>2
<1> QED BY <1>1, <1>5, <1>6, <1>7 DEF SyncInv

LEMMA OverlayNext ==
    TypeOK /\ LoopInv /\ WireInv /\ SyncInv /\ [Next]_vars => WireInv' /\ SyncInv'
<1> SUFFICES ASSUME TypeOK, LoopInv, WireInv, SyncInv, [Next]_vars PROVE WireInv' /\ SyncInv'
  OBVIOUS
<1> USE DEF registryVars, cacheVars, handlerVars, closeVars
<1>0. get \in [Getter -> GetType]
  BY DEF TypeOK
<1>1. CASE UNCHANGED vars
  BY <1>1, QuietSteps DEF vars
<1>2. ASSUME NEW k \in Key, NEW s \in Scope, NEW v \in Value \cup {Unset}, Change(k, s, v)
      PROVE  WireInv' /\ SyncInv'
  BY <1>2, OverlayChange
<1>3. ASSUME NEW k \in Key, AcceptSubscribe(k)
      PROVE  WireInv' /\ SyncInv'
  <2>1. /\ k \in asked /\ subs' = subs \cup {k}
        /\ UNCHANGED <<setting, wire, conn, cache, get, synced>>
    BY <1>3 DEF AcceptSubscribe
  <2>2. conn = "open"
    BY <2>1 DEF LoopInv
  <2>3. Latest(k, wire, setting)
    BY <2>2 DEF WireInv, Latest
  <2>4. WireInv'
    BY <2>1, <2>2, <2>3 DEF WireInv
  <2>5. SyncInv'
    BY <2>1 DEF SyncInv, CleanReply
  <2> QED BY <2>4, <2>5
<1>4. CASE LoseConnection
  <2>1. PICK n \in 0 .. Len(wire) : Hangup("lost", SubSeq(wire, 1, n))
    BY <1>4 DEF LoseConnection
  <2>2. SubSeq(wire, 1, n) \in Seq(EventType)
    BY DEF TypeOK
  <2> QED BY <2>1, <2>2, ConnectionEnds
<1>5. ASSUME NEW g \in Getter, NEW k \in Key, GetMiss(g, k) \/ OnChange(g, k)
      PROVE  WireInv' /\ SyncInv'
  <2>1. /\ UNCHANGED <<setting, subs, wire, conn, cache, synced>>
        /\ get' \in {[get EXCEPT ![g] = [at |-> "fetch", key |-> k]],
                     [get EXCEPT ![g] = [at |-> "subscribe", key |-> k]]}
    BY <1>5 DEF GetMiss, OnChange
  <2>2. \A h \in Getter : get'[h] = get[h] \/ get'[h].at # "reply"
    BY <1>0, <2>1
  <2> QED BY <2>1, <2>2, QuietSteps
<1>6. ASSUME NEW g \in Getter, FetchReply(g)
      PROVE  WireInv' /\ SyncInv'
  <2> DEFINE k == get[g].key
             r == [at |-> "reply", key |-> k, entry |-> Effective(k), clean |-> k \in subs]
  <2>1. /\ UNCHANGED <<setting, subs, wire, conn, cache, synced>>
        /\ get' \in {[get EXCEPT ![g] = [at |-> "idle"]], [get EXCEPT ![g] = r]}
    BY <1>6 DEF FetchReply
  <2>2. k \in Key
    BY <1>0, <1>6, GetFields DEF FetchReply
  <2>3. Right(Effective(k), k, wire, 0, setting)
    BY <2>2, AnswerIsRight
  <2>4. r.key = k /\ r.entry = Effective(k) /\ r.clean = (k \in subs)
    OBVIOUS
  <2> HIDE DEF r, k
  <2>5. CleanReply(r, subs, wire, setting)
    BY <2>3, <2>4 DEF CleanReply
  <2>6. ASSUME NEW h \in Getter
        PROVE  CleanReply(get'[h], subs, wire, setting)
    <3>1. get'[h] = get[h] \/ get'[h] = r \/ get'[h] = [at |-> "idle"]
      BY <1>0, <2>1
    <3>2. CASE get'[h] = get[h]
      BY <3>2 DEF SyncInv
    <3>3. CASE get'[h] = r
      BY <2>5, <3>3
    <3>4. CASE get'[h] = [at |-> "idle"]
      BY <3>4 DEF CleanReply
    <3> QED BY <3>1, <3>2, <3>3, <3>4
  <2> QED BY <2>1, <2>6 DEF WireInv, SyncInv
<1>7. ASSUME NEW g \in Getter, FetchFails(g) \/ Subscribe(g)
      PROVE  WireInv' /\ SyncInv'
  <2>1. /\ UNCHANGED <<setting, subs, wire, conn, cache, synced>>
        /\ get' = [get EXCEPT ![g] = [at |-> "idle"]]
    BY <1>7 DEF FetchFails, Subscribe
  <2>2. \A h \in Getter : get'[h] = get[h] \/ get'[h].at # "reply"
    BY <1>0, <2>1
  <2> QED BY <2>1, <2>2, QuietSteps
<1>8. ASSUME NEW g \in Getter, Store(g)
      PROVE  WireInv' /\ SyncInv'
  <2> DEFINE k == get[g].key
  <2>1. /\ UNCHANGED <<setting, subs, wire, conn>> /\ get[g].at = "reply"
        /\ cache' = [cache EXCEPT ![k] = get[g].entry]
        /\ synced' = IF get[g].clean THEN synced \cup {k} ELSE synced \ {k}
        /\ get' = [get EXCEPT ![g] = [at |-> "subscribe", key |-> k]]
    BY <1>8 DEF Store
  <2>2. k \in Key /\ cache \in [Key -> EntryType \cup {NoEntry}]
    BY <2>1, ReplyFields DEF TypeOK
  <2>3. get[g].clean => k \in subs /\ Right(get[g].entry, k, wire, 0, setting)
    BY <2>1 DEF SyncInv, CleanReply
  <2> HIDE DEF k
  <2>4. ASSUME NEW j \in synced'
        PROVE  j \in subs /\ Right(cache'[j], j, wire, 0, setting)
    <3>1. CASE j = k
      BY <2>1, <2>2, <2>3, <2>4, <3>1
    <3>2. CASE j # k
      <4>1. j \in synced /\ j \in Key
        BY <2>1, <2>4, <3>2 DEF TypeOK
      <4>2. cache'[j] = cache[j]
        BY <2>1, <2>2, <3>2, <4>1
      <4> QED BY <4>1, <4>2 DEF SyncInv
    <3> QED BY <3>1, <3>2
  <2>5. \A h \in Getter : CleanReply(get'[h], subs, wire, setting)
    BY <1>0, <2>1 DEF SyncInv, CleanReply
  <2> QED BY <2>1, <2>4, <2>5 DEF WireInv, SyncInv
<1>9. CASE LoopTop \/ ReadFails \/ Retry \/ DialFails \/ CloseBegins \/ ResubscribeAll
  <2>1. UNCHANGED <<setting, subs, wire, conn, cache, get, synced>>
    BY <1>9 DEF LoopTop, ReadFails, Retry, DialFails, CloseBegins, ResubscribeAll
  <2> QED BY <2>1, QuietSteps
<1>10. CASE Connect
  <2>1. subs = {} /\ wire' = <<>> /\ UNCHANGED <<setting, subs, cache, get, synced>>
    BY <1>10 DEF Connect, LoopInv
  <2>2. synced' = {} /\ \A g \in Getter : ~(get'[g].at = "reply" /\ get'[g].clean)
    BY <2>1 DEF SyncInv, CleanReply
  <2> QED BY <2>1, <2>2 DEF WireInv, SyncInv, CleanReply
<1>11. CASE HandleChange
  BY <1>11, OverlayHandle
<1>12. CASE CloseConn
  <2>1. CASE conn = "nil"
    <3>1. UNCHANGED <<setting, subs, wire, conn, cache, get, synced>>
      BY <1>12, <2>1 DEF CloseConn
    <3> QED BY <3>1, QuietSteps
  <2>2. CASE conn # "nil"
    <3>1. Hangup("closed", <<>>) /\ <<>> \in Seq(EventType)
      BY <1>12, <2>2 DEF CloseConn
    <3> QED BY <3>1, ConnectionEnds
  <2> QED BY <2>1, <2>2
<1> QED BY <1>1, <1>2, <1>3, <1>4, <1>5, <1>6, <1>7, <1>8, <1>9, <1>10, <1>11, <1>12
        DEF Next, LoopStep, GetStep

-----------------------------------------------------------------------------
(* What the handlers hear. *)

\* Steps that no handler notices.
LEMMA SilentSteps ==
    ASSUME TypeOK, NewsInv, UNCHANGED <<setting, wire, handlers, told, news>>, subs \subseteq subs'
    PROVE  NewsInv'
BY DEF NewsInv, NewsOf

LEMMA NewsEnds ==
    ASSUME NEW state, NEW pre, Hangup(state, pre)
    PROVE  NewsInv'
BY DEF Hangup, NewsInv, NewsOf

LEMMA NewsChange ==
    ASSUME TypeOK, NewsInv,
           NEW k \in Key, NEW s \in Scope, NEW v \in Value \cup {Unset}, Change(k, s, v)
    PROVE  NewsInv'
<1> DEFINE e == [key |-> k, scope |-> s, value |-> v,
                 action |-> IF v = Unset THEN "delete" ELSE "set"]
<1>1. /\ setting' = [setting EXCEPT ![k][s] = v]
      /\ IF k \in subs
         THEN wire' = Append(wire, e) /\ news' = [news EXCEPT ![k] = e]
         ELSE wire' = wire /\ news' = [news EXCEPT ![k] = NoNews]
      /\ UNCHANGED <<subs, handlers, told>>
  BY DEF Change, handlerVars
<1>2. e \in EventType /\ e.key = k /\ e.scope = s /\ e.value = v
  BY RegistryAssumption DEF EventType
<1>3. /\ wire \in Seq(EventType) /\ setting \in Settings
      /\ news \in [Key -> EventType \cup {NoNews}]
  BY DEF TypeOK, Settings
<1> HIDE DEF e
<1>4. /\ setting'[k][s] = v
      /\ \A j \in Key : j # k => setting'[j] = setting[j] /\ news'[j] = news[j]
  BY <1>1, <1>3 DEF Settings
<1>5. ASSUME k \in subs
      PROVE  /\ Len(wire') = Len(wire) + 1 /\ Len(wire) \in Nat
             /\ \A i \in 1 .. Len(wire) : wire'[i] = wire[i]
             /\ wire'[Len(wire) + 1] = e
             /\ news'[k] = e
  BY <1>1, <1>2, <1>3, <1>5, AppendShifts
<1>6. NewsOf(k, news'[k], told[k], subs, handlers, wire', setting')
  <2>1. CASE k \in subs
    <3>1. \A i \in 1 .. Len(wire') :
             (wire'[i].key = k /\ \A j \in i + 1 .. Len(wire') : wire'[j].key # k) => wire'[i] = e
      <4> SUFFICES ASSUME NEW i \in 1 .. Len(wire'), i # Len(wire) + 1
                   PROVE  \E j \in i + 1 .. Len(wire') : wire'[j].key = k
        BY <1>5, <2>1
      <4>1. Len(wire) + 1 \in i + 1 .. Len(wire')
        BY <1>5, <2>1
      <4> QED BY <1>2, <1>5, <2>1, <4>1
    <3>2. Len(wire) + 1 \in 1 .. Len(wire') /\ wire'[Len(wire) + 1].key = k
      BY <1>2, <1>5, <2>1
    <3> QED BY <1>2, <1>4, <1>5, <2>1, <3>1, <3>2 DEF NewsOf
  <2>2. CASE k \notin subs
    <3>1. news'[k] = NoNews
      BY <1>1, <1>3, <2>2
    <3> QED BY <3>1 DEF NewsOf
  <2> QED BY <2>1, <2>2
<1>7. ASSUME NEW h \in Key, h # k
      PROVE  NewsOf(h, news'[h], told[h], subs, handlers, wire', setting')
  <2>1. NewsOf(h, news[h], told[h], subs, handlers, wire, setting)
    BY DEF NewsInv
  <2>2. news'[h] = news[h] /\ setting'[h] = setting[h]
    BY <1>4, <1>7
  <2>3. CASE k \in subs
    <3> SUFFICES ASSUME news[h] # NoNews
                 PROVE  /\ h \in subs
                        /\ news[h].key = h /\ news[h].value = setting[h][news[h].scope]
                        /\ \A i \in 1 .. Len(wire') :
                              (wire'[i].key = h /\ \A j \in i + 1 .. Len(wire') : wire'[j].key # h)
                                  => wire'[i] = news[h]
                        /\ (h \in handlers /\ \A i \in 1 .. Len(wire') : wire'[i].key # h)
                                  => told[h] = news[h]
      BY <2>2 DEF NewsOf
    <3>1. /\ h \in subs
          /\ news[h].key = h /\ news[h].value = setting[h][news[h].scope]
          /\ \A i \in 1 .. Len(wire) :
                (wire[i].key = h /\ \A j \in i + 1 .. Len(wire) : wire[j].key # h)
                    => wire[i] = news[h]
          /\ (h \in handlers /\ \A i \in 1 .. Len(wire) : wire[i].key # h)
                    => told[h] = news[h]
      BY <2>1 DEF NewsOf
    <3>2. ASSUME NEW i \in 1 .. Len(wire'), wire'[i].key = h,
                 \A j \in i + 1 .. Len(wire') : wire'[j].key # h
          PROVE  wire'[i] = news[h]
      <4>1. i \in 1 .. Len(wire)
        BY <1>2, <1>5, <1>7, <2>3, <3>2
      <4>2. \A j \in i + 1 .. Len(wire) : j \in i + 1 .. Len(wire') /\ wire'[j] = wire[j]
        BY <1>5, <2>3
      <4> QED BY <1>5, <2>3, <3>1, <3>2, <4>1, <4>2
    <3>3. \A i \in 1 .. Len(wire) : i \in 1 .. Len(wire') /\ wire'[i] = wire[i]
      BY <1>5, <2>3
    <3> QED BY <3>1, <3>2, <3>3
  <2>4. CASE k \notin subs
    BY <1>1, <2>1, <2>2, <2>4 DEF NewsOf
  <2> QED BY <2>3, <2>4
<1> QED BY <1>1, <1>6, <1>7 DEF NewsInv

LEMMA NewsHandle ==
    ASSUME TypeOK, NewsInv, HandleChange
    PROVE  NewsInv'
<1> DEFINE e == Head(wire)
<1>1. /\ wire # <<>> /\ wire' = Tail(wire)
      /\ told' = [told EXCEPT ![e.key] = IF e.key \in handlers THEN e ELSE told[e.key]]
      /\ UNCHANGED <<setting, subs, handlers, news>>
  BY DEF HandleChange, Tell
<1>2. wire \in Seq(EventType) /\ told \in [Key -> EventType \cup {NoNews}]
  BY DEF TypeOK
<1>3. e = wire[1] /\ e.key \in Key
  BY <1>1, <1>2, EventFields
<1>4. /\ Len(wire') = Len(wire) - 1 /\ Len(wire) \in Nat /\ Len(wire) > 0
      /\ \A i \in 1 .. Len(wire') : wire'[i] = wire[i + 1]
  BY <1>1, <1>2
<1>5. \A h \in Key : told'[h] = IF h = e.key /\ h \in handlers THEN e ELSE told[h]
  BY <1>1, <1>2
<1> HIDE DEF e
<1>6. ASSUME NEW h \in Key, news[h] # NoNews
      PROVE  /\ h \in subs
             /\ news[h].key = h /\ news[h].value = setting[h][news[h].scope]
             /\ \A i \in 1 .. Len(wire') :
                   (wire'[i].key = h /\ \A j \in i + 1 .. Len(wire') : wire'[j].key # h)
                       => wire'[i] = news[h]
             /\ (h \in handlers /\ \A i \in 1 .. Len(wire') : wire'[i].key # h)
                       => told'[h] = news[h]
  <2>1. /\ h \in subs
        /\ news[h].key = h /\ news[h].value = setting[h][news[h].scope]
        /\ \A i \in 1 .. Len(wire) :
              (wire[i].key = h /\ \A j \in i + 1 .. Len(wire) : wire[j].key # h)
                  => wire[i] = news[h]
        /\ (h \in handlers /\ \A i \in 1 .. Len(wire) : wire[i].key # h)
                  => told[h] = news[h]
    BY <1>6 DEF NewsInv, NewsOf
  <2>2. ASSUME NEW i \in 0 .. Len(wire'), \A j \in i + 1 .. Len(wire') : wire'[j].key # h
        PROVE  \A j \in i + 1 + 1 .. Len(wire) : wire[j].key # h
    <3>1. \A j \in i + 1 + 1 .. Len(wire) :
             j - 1 \in i + 1 .. Len(wire') /\ wire'[j - 1] = wire[j]
      BY <1>4
    <3> QED BY <2>2, <3>1
  <2>3. ASSUME NEW i \in 1 .. Len(wire'), wire'[i].key = h,
               \A j \in i + 1 .. Len(wire') : wire'[j].key # h
        PROVE  wire'[i] = news[h]
    <3>1. i \in 0 .. Len(wire') /\ i + 1 \in 1 .. Len(wire) /\ wire'[i] = wire[i + 1]
      BY <1>4
    <3>2. \A j \in i + 1 + 1 .. Len(wire) : wire[j].key # h
      BY <2>2, <2>3, <3>1
    <3> QED BY <2>1, <2>3, <3>1, <3>2
  <2>4. ASSUME h \in handlers, \A i \in 1 .. Len(wire') : wire'[i].key # h
        PROVE  told'[h] = news[h]
    <3>1. \A j \in 2 .. Len(wire) : wire[j].key # h
      <4>1. 0 \in 0 .. Len(wire') /\ 0 + 1 = 1 /\ 1 + 1 = 2
        BY <1>4
      <4> QED BY <2>2, <2>4, <4>1
    <3>2. 1 \in 1 .. Len(wire) /\ 1 + 1 = 2
      BY <1>4
    <3>3. CASE e.key = h
      BY <1>3, <1>5, <2>1, <2>4, <3>1, <3>2, <3>3
    <3>4. CASE e.key # h
      <4>1. \A j \in 1 .. Len(wire) : j = 1 \/ j \in 2 .. Len(wire)
        BY <1>4
      <4> QED BY <1>3, <1>5, <2>1, <2>4, <3>1, <3>4, <4>1
    <3> QED BY <3>3, <3>4
  <2> QED BY <2>1, <2>3, <2>4
<1> QED BY <1>1, <1>6 DEF NewsInv, NewsOf

LEMMA NewsNext == TypeOK /\ LoopInv /\ NewsInv /\ [Next]_vars => NewsInv'
<1> SUFFICES ASSUME TypeOK, LoopInv, NewsInv, [Next]_vars PROVE NewsInv'
  OBVIOUS
<1> USE DEF registryVars, cacheVars, handlerVars, closeVars
<1>1. CASE UNCHANGED vars
  BY <1>1, SilentSteps DEF vars
<1>2. ASSUME NEW k \in Key, NEW s \in Scope, NEW v \in Value \cup {Unset}, Change(k, s, v)
      PROVE  NewsInv'
  BY <1>2, NewsChange
<1>3. ASSUME NEW k \in Key, AcceptSubscribe(k)
      PROVE  NewsInv'
  BY <1>3, SilentSteps DEF AcceptSubscribe
<1>4. CASE LoseConnection
  BY <1>4, NewsEnds DEF LoseConnection
<1>5. ASSUME NEW g \in Getter, NEW k \in Key, OnChange(g, k)
      PROVE  NewsInv'
  <2>1. /\ UNCHANGED <<setting, wire, subs, told>> /\ handlers' = handlers \cup {k}
        /\ news' = IF OnTheWay(k) THEN news ELSE [news EXCEPT ![k] = NoNews]
    BY <1>5 DEF OnChange
  <2>2. news \in [Key -> EventType \cup {NoNews}]
    BY DEF TypeOK
  <2>3. ASSUME NEW h \in Key
        PROVE  NewsOf(h, news'[h], told[h], subs, handlers', wire, setting)
    <3>1. NewsOf(h, news[h], told[h], subs, handlers, wire, setting)
      BY DEF NewsInv
    <3>2. CASE h # k
      <4>1. news'[h] = news[h] /\ (h \in handlers' <=> h \in handlers)
        BY <2>1, <2>2, <3>2
      <4> QED BY <3>1, <4>1 DEF NewsOf
    <3>3. CASE h = k /\ OnTheWay(k)
      <4>1. news'[h] = news[h] /\ \E i \in 1 .. Len(wire) : wire[i].key = h
        BY <2>1, <3>3 DEF OnTheWay
      <4> QED BY <3>1, <4>1 DEF NewsOf
    <3>4. CASE h = k /\ ~OnTheWay(k)
      <4>1. news'[h] = NoNews
        BY <2>1, <2>2, <3>4
      <4> QED BY <4>1 DEF NewsOf
    <3> QED BY <3>2, <3>3, <3>4
  <2> QED BY <2>1, <2>3 DEF NewsInv
<1>6. ASSUME NEW g \in Getter,
             \/ \E k \in Key : GetMiss(g, k)
             \/ GetStep(g)
             \/ FetchFails(g)
      PROVE  NewsInv'
  <2>1. UNCHANGED <<setting, wire, subs, handlers, told, news>>
    BY <1>6 DEF GetMiss, GetStep, FetchReply, Store, Subscribe, FetchFails
  <2> QED BY <2>1, SilentSteps
<1>7. CASE LoopTop \/ ReadFails \/ Retry \/ DialFails \/ CloseBegins \/ ResubscribeAll
  <2>1. UNCHANGED <<setting, wire, subs, handlers, told, news>>
    BY <1>7 DEF LoopTop, ReadFails, Retry, DialFails, CloseBegins, ResubscribeAll
  <2> QED BY <2>1, SilentSteps
<1>8. CASE Connect
  <2>1. subs = {} /\ UNCHANGED news
    BY <1>8 DEF Connect, LoopInv
  <2>2. \A k \in Key : news[k] = NoNews
    BY <2>1 DEF NewsInv, NewsOf
  <2> QED BY <2>1, <2>2 DEF NewsInv, NewsOf
<1>9. CASE HandleChange
  BY <1>9, NewsHandle
<1>10. CASE CloseConn
  <2>1. CASE conn = "nil"
    BY <1>10, <2>1, SilentSteps DEF CloseConn
  <2>2. CASE conn # "nil"
    BY <1>10, <2>2, NewsEnds DEF CloseConn
  <2> QED BY <2>1, <2>2
<1> QED BY <1>1, <1>2, <1>3, <1>4, <1>5, <1>6, <1>7, <1>8, <1>9, <1>10 DEF Next, LoopStep

-----------------------------------------------------------------------------
(* The inductive invariant, and what it shows. *)

LEMMA InvInit == Init => Inv
<1> SUFFICES ASSUME Init PROVE Inv
  OBVIOUS
<1>1. LoopInv
  BY DEF Init, LoopInv, SubscriptionsSurvive
<1>2. WireInv /\ SyncInv /\ NewsInv
  BY DEF Init, WireInv, SyncInv, CleanReply, NewsInv, NewsOf
<1> QED BY <1>1, <1>2, TypeInit DEF Inv

LEMMA InvNext == Inv /\ [Next]_vars => Inv'
BY TypeNext, LoopNext, OverlayNext, NewsNext DEF Inv

\* Handlers and cache do not drift apart, whatever changes, fetches, registrations and
\* lost connections come between.
THEOREM HandlersHearTheCache == Spec => []HandlersMatchCache
<1>1. Inv => HandlersMatchCache
  <2> SUFFICES ASSUME Inv, NEW k \in handlers, news[k] # NoNews, ~OnTheWay(k)
               PROVE  /\ told[k] = news[k]
                      /\ (k \in synced /\ cache[k] # NoEntry /\ told[k].action = "set") =>
                            \/ cache[k] = [value |-> told[k].value, source |-> told[k].scope]
                            \/ cache[k].source = "own" /\ told[k].scope = "global"
    BY DEF HandlersMatchCache
  <2>1. /\ k \in Key /\ cache[k] \in EntryType \cup {NoEntry}
        /\ news[k] \in EventType
    BY DEF Inv, TypeOK
  <2>2. told[k] = news[k] /\ news[k].value = setting[k][news[k].scope]
    BY <2>1 DEF Inv, NewsInv, NewsOf, OnTheWay
  <2>3. ASSUME k \in synced, cache[k] # NoEntry, told[k].action = "set"
        PROVE  \/ cache[k] = [value |-> told[k].value, source |-> told[k].scope]
               \/ cache[k].source = "own" /\ told[k].scope = "global"
    <3>1. Right(cache[k], k, wire, 0, setting)
      BY <2>3 DEF Inv, SyncInv
    <3>2. \A j \in 0 + 1 .. Len(wire) : wire[j].key # k
      BY DEF OnTheWay
    <3>3. cache[k] = Effective(k)
      BY <2>1, <2>3, <3>1, <3>2, RightEnds DEF Inv
    <3>4. news[k].scope \in Scope /\ news[k].value # Unset
      BY <2>1, <2>2, <2>3, EventFields, RegistryAssumption
    <3> QED BY <2>2, <3>3, <3>4 DEF Effective, Scope
  <2> QED BY <2>2, <2>3
<1> QED BY <1>1, InvInit, InvNext, PTL DEF Spec

-----------------------------------------------------------------------------
(* Replays of the events under way, by induction over their number. *)

LEMMA Least ==
    ASSUME NEW T \in SUBSET Nat, T # {}
    PROVE  \E n \in T : \A m \in T : n <= m
<1>1. PICK n \in T : \A m \in T : ~(<<m, n>> \in OpToRel(<, Nat))
  BY NatLessThanWellFounded, WFMin
<1>2. \A m \in T : ~(m < n)
  BY <1>1 DEF OpToRel
<1>3. \A m \in T : m \in Nat
  OBVIOUS
<1>4. \A m \in T : n <= m
  BY <1>2, <1>3
<1> QED BY <1>4

LEMMA Induction ==
    ASSUME NEW S \in SUBSET Nat, 0 \in S, \A n \in S : n + 1 \in S
    PROVE  S = Nat
<1>1. SUFFICES ASSUME Nat \ S # {} PROVE FALSE
  OBVIOUS
<1>2. PICK n \in Nat \ S : \A m \in Nat \ S : n <= m
  BY <1>1, Least
<1>3. n - 1 \in S
  BY <1>2
<1> QED BY <1>2, <1>3

ReplayType == [0 .. Len(wire) -> EntryType \cup {NoEntry}]

\* An entry has a replay, so SyncedReplay is about every key it names.
LEMMA ReplaysExist ==
    ASSUME TypeOK, NEW k \in Key, NEW x \in EntryType \cup {NoEntry}
    PROVE  \E r : r \in Replays(k, x)
<1> DEFINE UpTo(r, n) ==
               /\ r[0] = x
               /\ \A i \in 1 .. n :
                     r[i] = IF wire[i].key = k THEN AfterEvent(r[i - 1], wire[i]) ELSE r[i - 1]
           S == {n \in Nat : n <= Len(wire) => \E r \in ReplayType : UpTo(r, n)}
<1>1. wire \in Seq(EventType) /\ Len(wire) \in Nat
  BY DEF TypeOK
<1>2. 0 \in S
  <2>1. [i \in 0 .. Len(wire) |-> x] \in ReplayType /\ [i \in 0 .. Len(wire) |-> x][0] = x
    BY <1>1 DEF ReplayType
  <2>2. UpTo([i \in 0 .. Len(wire) |-> x], 0)
    BY <2>1
  <2> QED BY <2>1, <2>2
<1>3. ASSUME NEW n \in S
      PROVE  n + 1 \in S
  <2> SUFFICES ASSUME n + 1 <= Len(wire)
               PROVE  \E r \in ReplayType : UpTo(r, n + 1)
    OBVIOUS
  <2>1. n \in Nat /\ n <= Len(wire) /\ n + 1 \in 1 .. Len(wire) /\ n \in 0 .. Len(wire)
    BY <1>1
  <2>2. PICK r \in ReplayType : UpTo(r, n)
    BY <2>1
  <2> DEFINE y == IF wire[n + 1].key = k THEN AfterEvent(r[n], wire[n + 1]) ELSE r[n]
             q == [r EXCEPT ![n + 1] = y]
  <2>3. r[n] \in EntryType \cup {NoEntry} /\ wire[n + 1] \in EventType
    BY <1>1, <2>1, <2>2 DEF ReplayType
  <2>4. y \in EntryType \cup {NoEntry}
    BY <2>3, AfterEventType
  <2>5. y = IF wire[n + 1].key = k THEN AfterEvent(r[n], wire[n + 1]) ELSE r[n]
    OBVIOUS
  <2> HIDE DEF y
  <2>6. /\ q \in ReplayType /\ q[n + 1] = y
        /\ \A i \in 0 .. n : q[i] = r[i]
    BY <1>1, <2>1, <2>2, <2>4 DEF ReplayType
  <2> HIDE DEF q
  <2>7. q[0] = x
    BY <2>1, <2>2, <2>6
  <2>8. ASSUME NEW i \in 1 .. n + 1
        PROVE  q[i] = IF wire[i].key = k THEN AfterEvent(q[i - 1], wire[i]) ELSE q[i - 1]
    <3>1. CASE i = n + 1
      <4>1. i - 1 = n /\ n \in 0 .. n
        BY <2>1, <3>1
      <4> QED BY <2>5, <2>6, <3>1, <4>1
    <3>2. CASE i # n + 1
      <4>1. i \in 1 .. n /\ i \in 0 .. n /\ i - 1 \in 0 .. n
        BY <2>1, <3>2
      <4> QED BY <2>2, <2>6, <4>1
    <3> QED BY <3>1, <3>2
  <2> QED BY <2>6, <2>7, <2>8
<1>4. Len(wire) \in S
  <2>1. S \subseteq Nat
    OBVIOUS
  <2> HIDE DEF S
  <2> QED BY <1>1, <1>2, <1>3, <2>1, Induction
<1> QED BY <1>4 DEF Replays, ReplayType

\* AfterEvent keeps an entry right from one event to the next, up to the last.
LEMMA ReplayStaysRight ==
    ASSUME TypeOK, NEW k \in Key, NEW x \in EntryType \cup {NoEntry},
           Latest(k, wire, setting), Right(x, k, wire, 0, setting),
           NEW r \in Replays(k, x)
    PROVE  r[Len(wire)] \in {NoEntry, Effective(k)}
<1> DEFINE S == {n \in Nat : n <= Len(wire) => Right(r[n], k, wire, n, setting)}
<1>1. /\ wire \in Seq(EventType) /\ Len(wire) \in Nat /\ setting \in Settings
      /\ r \in [0 .. Len(wire) -> EntryType \cup {NoEntry}] /\ r[0] = x
      /\ \A i \in 1 .. Len(wire) :
            r[i] = IF wire[i].key = k THEN AfterEvent(r[i - 1], wire[i]) ELSE r[i - 1]
  BY DEF TypeOK, Settings, Replays
<1>2. 0 \in S
  BY <1>1
<1>3. ASSUME NEW n \in S
      PROVE  n + 1 \in S
  <2> SUFFICES ASSUME n + 1 <= Len(wire)
               PROVE  Right(r[n + 1], k, wire, n + 1, setting)
    OBVIOUS
  <2>1. /\ n \in Nat /\ n \in 0 .. Len(wire) /\ n < Len(wire) /\ n + 1 \in 1 .. Len(wire)
        /\ (n + 1) - 1 = n
    BY <1>1
  <2>2. Right(r[n], k, wire, n, setting) /\ r[n] \in EntryType \cup {NoEntry}
    BY <1>1, <2>1
  <2>3. Right(IF wire[n + 1].key = k THEN AfterEvent(r[n], wire[n + 1]) ELSE r[n],
              k, wire, n + 1, setting)
    BY <1>1, <2>1, <2>2, RightNext
  <2>4. r[n + 1] = IF wire[n + 1].key = k THEN AfterEvent(r[n], wire[n + 1]) ELSE r[n]
    BY <1>1, <2>1
  <2> QED BY <2>3, <2>4
<1>4. Len(wire) \in S
  <2>1. S \subseteq Nat
    OBVIOUS
  <2> HIDE DEF S
  <2> QED BY <1>1, <1>2, <1>3, <2>1, Induction
<1>5. /\ Right(r[Len(wire)], k, wire, Len(wire), setting)
      /\ r[Len(wire)] \in EntryType \cup {NoEntry}
      /\ Len(wire) + 1 .. Len(wire) = {}
  BY <1>1, <1>4
<1> QED BY <1>1, <1>5, RightEnds

\* Whatever is sent, fetched, stored and handled in whatever order: an entry fetched
\* under its subscription comes to the registry's value, or is dropped.
THEOREM SyncedEntriesReplay == Spec => []SyncedReplay
<1>1. Inv => SyncedReplay
  <2> SUFFICES ASSUME Inv, NEW k \in synced, NEW r \in Replays(k, cache[k])
               PROVE  r[Len(wire)] \in {NoEntry, Effective(k)}
    BY DEF SyncedReplay
  <2>1. /\ TypeOK /\ k \in Key /\ cache[k] \in EntryType \cup {NoEntry}
        /\ Latest(k, wire, setting) /\ Right(cache[k], k, wire, 0, setting)
    BY DEF Inv, TypeOK, WireInv, SyncInv
  <2> QED BY <2>1, ReplayStaysRight
<1> QED BY <1>1, InvInit, InvNext, PTL DEF Spec
=============================================================================
