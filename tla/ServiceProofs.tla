---------------------------- MODULE ServiceProofs ----------------------------
(***************************************************************************)
(* Theorems about Service: the token cache and the billing client in it,   *)
(* for any requests, tokens and capacity of the queue.                     *)
(***************************************************************************)
EXTENDS Service, SequenceTheorems, TLAPS

-----------------------------------------------------------------------------
\* Sequences as queues: what an Append and a Tail do to the elements.

LEMMA RangeOfAppend ==
    ASSUME NEW S, NEW s \in Seq(S), NEW e \in S
    PROVE  Range(Append(s, e)) = Range(s) \cup {e}
<1>1. /\ DOMAIN Append(s, e) = 1..(Len(s) + 1)
      /\ DOMAIN s = 1..Len(s)
      /\ Len(s) \in Nat
  OBVIOUS
<1>2. \A i \in 1..(Len(s) + 1) : Append(s, e)[i] = IF i <= Len(s) THEN s[i] ELSE e
  OBVIOUS
<1>3. Range(Append(s, e)) \subseteq Range(s) \cup {e}
  BY <1>1, <1>2 DEF Range
<1>4. \A i \in 1..Len(s) : s[i] \in Range(Append(s, e))
  BY <1>1, <1>2 DEF Range
<1>5. e \in Range(Append(s, e))
  <2>1. Len(s) + 1 \in 1..(Len(s) + 1) /\ Append(s, e)[Len(s) + 1] = e
    BY <1>1, <1>2
  <2> QED
    BY <1>1, <2>1 DEF Range
<1> QED
  BY <1>1, <1>3, <1>4, <1>5 DEF Range

LEMMA RangeOfTail ==
    ASSUME NEW S, NEW s \in Seq(S), s # <<>>
    PROVE  /\ Head(s) \in S /\ Tail(s) \in Seq(S) /\ Len(Tail(s)) = Len(s) - 1
           /\ \A i \in 1..Len(Tail(s)) : Tail(s)[i] = s[i + 1]
           /\ Range(s) = {Head(s)} \cup Range(Tail(s))
<1>1. /\ Head(s) = s[1] /\ Head(s) \in S /\ Tail(s) \in Seq(S)
      /\ Len(Tail(s)) = Len(s) - 1 /\ Len(s) \in Nat \ {0}
      /\ DOMAIN s = 1..Len(s) /\ DOMAIN Tail(s) = 1..(Len(s) - 1)
  OBVIOUS
<1>2. \A i \in 1..(Len(s) - 1) : Tail(s)[i] = s[i + 1]
  OBVIOUS
<1>3. \A i \in 1..Len(s) : s[i] \in {Head(s)} \cup Range(Tail(s))
  <2> SUFFICES ASSUME NEW i \in 1..Len(s), i # 1
               PROVE  s[i] \in Range(Tail(s))
    BY <1>1
  <2>1. i - 1 \in 1..(Len(s) - 1) /\ Tail(s)[i - 1] = s[i]
    BY <1>1, <1>2
  <2> QED
    BY <1>1, <2>1 DEF Range
<1>4. Range(Tail(s)) \subseteq Range(s)
  <2>1. \A i \in 1..(Len(s) - 1) : i + 1 \in 1..Len(s)
    BY <1>1
  <2> QED
    BY <1>1, <1>2, <2>1 DEF Range
<1>5. Head(s) \in Range(s)
  BY <1>1 DEF Range
<1> QED
  BY <1>1, <1>2, <1>3, <1>4, <1>5 DEF Range

-----------------------------------------------------------------------------
\* Every step of the middleware keeps the types of the token cache.
LEMMA TokenStepKeepsType ==
    ASSUME TokenTypeOK, TokenStep \/ \E r \in Request : Lookup(r)
    PROVE  TokenTypeOK'
<1>1. ASSUME NEW r \in Request, VerifyReturns(r) PROVE TokenTypeOK'
  BY <1>1 DEF TokenTypeOK, VerifyReturns
<1>2. ASSUME NEW r \in Request, StoreClaims(r) PROVE TokenTypeOK'
  BY <1>2 DEF TokenTypeOK, StoreClaims
<1>3. ASSUME NEW t \in Token, Expire(t) PROVE TokenTypeOK'
  BY <1>3 DEF TokenTypeOK, Expire
<1>4. ASSUME NEW t \in Token, Revoke(t) PROVE TokenTypeOK'
  BY <1>4 DEF TokenTypeOK, Revoke
<1>5. CASE Cleanup
  BY <1>5 DEF TokenTypeOK, Cleanup
<1>6. ASSUME NEW r \in Request, Lookup(r) PROVE TokenTypeOK'
  BY <1>6 DEF TokenTypeOK, Lookup
<1> QED BY <1>1, <1>2, <1>3, <1>4, <1>5, <1>6 DEF TokenStep

\* The steps of the service, as the two components see them: each is a step of one
\* of them and leaves the other alone.
BillingAction ==
    \/ \E e \in Event : Record(e)
    \/ WorkerTake \/ WorkerPost \/ WorkerReturn
    \/ Close
    \/ DrainTake \/ DrainPost \/ DrainReturn
    \/ ServeFails
    \/ ServiceExit

TokenAction == TokenStep \/ \E r \in Request : Lookup(r)

LEMMA StepSplits ==
    ASSUME [ServiceNext]_serviceVars
    PROVE  /\ BillingAction \/ UNCHANGED vars
           /\ TokenAction \/ UNCHANGED tokenVars
<1>1. ASSUME NEW r \in Request, Accept(r)
      PROVE TokenAction /\ UNCHANGED vars
  BY <1>1 DEF Accept, TokenAction
<1>2. ASSUME NEW r \in Request, HandlerRecords(r)
      PROVE BillingAction /\ UNCHANGED tokenVars
  BY <1>2, RequestAssumption DEF HandlerRecords, BillingAction
<1>3. CASE Authenticate
  BY <1>3 DEF Authenticate, TokenAction
<1>4. CASE BillingStep
  BY <1>4 DEF BillingStep, BillingAction
<1>5. CASE Signal
  BY <1>5 DEF Signal, BillingAction
<1>6. CASE BeginShutdown
  BY <1>6 DEF BeginShutdown
<1>7. CASE ShutdownReturns
  BY <1>7 DEF ShutdownReturns
<1>8. CASE ServeFails \/ ServiceExit
  BY <1>8 DEF ServeFails, ServiceExit, BillingAction
<1>9. CASE UNCHANGED serviceVars
  BY <1>9 DEF serviceVars
<1> QED BY <1>1, <1>2, <1>3, <1>4, <1>5, <1>6, <1>7, <1>8, <1>9 DEF ServiceNext

-----------------------------------------------------------------------------
\* The token cache.

\* The variables of the token cache keep their types in the service.
LEMMA TokenTypeCorrect == ServiceSpec => []TokenTypeOK
<1>1. ServiceInit => TokenTypeOK
  BY DEF ServiceInit, TokenInit, TokenTypeOK
<1>2. TokenTypeOK /\ [ServiceNext]_serviceVars => TokenTypeOK'
  <2> SUFFICES ASSUME TokenTypeOK, [ServiceNext]_serviceVars PROVE TokenTypeOK'
    OBVIOUS
  <2>1. CASE TokenAction
    BY <2>1, TokenStepKeepsType DEF TokenAction
  <2>2. CASE UNCHANGED tokenVars
    BY <2>2 DEF tokenVars, TokenTypeOK
  <2> QED
    BY <2>1, <2>2, StepSplits
<1> QED
  BY <1>1, <1>2, PTL DEF ServiceSpec

\* No step of the middleware lets a token back in that is shut out: the only requests
\* that could are past the verifier, and there are none.
LEMMA ShutOutStays ==
    ASSUME TokenTypeOK, TokenAction, NEW r \in Request, ShutOut(TokenOf[r])
    PROVE  ShutOut(TokenOf[r])' /\ (auth'[r] = "granted" => auth[r] = "granted")
<1>0. TokenOf[r] \in Token /\ \A q \in Request : TokenOf[q] \in Token
  BY TokenAssumption
<1> USE <1>0 DEF ShutOut, TokenTypeOK
<1>1. ASSUME NEW q \in Request, VerifyReturns(q)
      PROVE  ShutOut(TokenOf[r])' /\ (auth'[r] = "granted" => auth[r] = "granted")
  BY <1>1 DEF VerifyReturns
<1>2. ASSUME NEW q \in Request, StoreClaims(q)
      PROVE  ShutOut(TokenOf[r])' /\ (auth'[r] = "granted" => auth[r] = "granted")
  <2>1. TokenOf[q] # TokenOf[r] /\ q # r
    BY <1>2 DEF StoreClaims
  <2> QED
    BY <1>2, <2>1 DEF StoreClaims
<1>3. ASSUME NEW t \in Token, Expire(t)
      PROVE  ShutOut(TokenOf[r])' /\ (auth'[r] = "granted" => auth[r] = "granted")
  BY <1>3 DEF Expire
<1>4. ASSUME NEW t \in Token, Revoke(t)
      PROVE  ShutOut(TokenOf[r])' /\ (auth'[r] = "granted" => auth[r] = "granted")
  BY <1>4 DEF Revoke
<1>5. CASE Cleanup
  BY <1>5 DEF Cleanup
<1>6. ASSUME NEW q \in Request, Lookup(q)
      PROVE  ShutOut(TokenOf[r])' /\ (auth'[r] = "granted" => auth[r] = "granted")
  BY <1>6 DEF Lookup, Hit
<1> QED
  BY <1>1, <1>2, <1>3, <1>4, <1>5, <1>6 DEF TokenAction, TokenStep

\* Once a token is revoked, its cache entry expired, and no verification answered
\* earlier is on its way into the cache, no request with it is let in any more: for any
\* number of requests and tokens, however lookups, stores, expiry and cleanup interleave.
THEOREM RevokedTokensStayOut == ServiceSpec => RevokedStaysOut
<1>1. TokenTypeOK /\ [ServiceNext]_serviceVars =>
        [\A r \in Request :
            ShutOut(TokenOf[r]) => /\ ShutOut(TokenOf[r])'
                                   /\ auth'[r] = "granted" => auth[r] = "granted"]_tokenVars
  <2> SUFFICES ASSUME TokenTypeOK, [ServiceNext]_serviceVars, ~UNCHANGED tokenVars,
                      NEW r \in Request, ShutOut(TokenOf[r])
               PROVE  /\ ShutOut(TokenOf[r])'
                      /\ auth'[r] = "granted" => auth[r] = "granted"
    OBVIOUS
  <2> QED
    BY StepSplits, ShutOutStays
<1> QED
  BY <1>1, TokenTypeCorrect, PTL DEF ServiceSpec, RevokedStaysOut

-----------------------------------------------------------------------------
\* The billing client.  The inductive invariant: types, what the two goroutines hold,
\* the queue is the newest part of what was accepted, and the properties.

HandsAreFull ==
    /\ worker.hand # NoEvent <=> worker.at = "post"
    /\ closer.hand # NoEvent <=> closer.at = "post"

CloseIsMarked ==
    /\ done <=> closer.at # "idle"
    /\ closedAt <= Len(accepted)

QueueIsNewest ==
    /\ Len(queue) <= Len(accepted)
    /\ \A i \in 1..Len(queue) : queue[i] = accepted[Taken + i]

BillingInv ==
    /\ TypeOK
    /\ HandsAreFull
    /\ CloseIsMarked
    /\ QueueIsNewest
    /\ EventsConserved
    /\ InOrderUntilClose
    /\ CloseLeavesAtMostOne

LEMMA BillingInvInit == ServiceInit => BillingInv
<1> SUFFICES ASSUME ServiceInit PROVE BillingInv
  OBVIOUS
<1> USE BillingAssumption DEF ServiceInit, Init
<1>1. TypeOK
  <2>1. <<>> \in Seq(Event) /\ Len(<<>>) = 0 /\ Capacity \in Nat
    OBVIOUS
  <2>2. worker \in [at : {"select", "post", "returned"}, hand : Event \cup {NoEvent}]
    OBVIOUS
  <2>3. closer \in [at : {"idle", "drain", "post", "returned"}, hand : Event \cup {NoEvent}]
    OBVIOUS
  <2>4. done \in BOOLEAN /\ alive \in BOOLEAN
    OBVIOUS
  <2>5. queue \in Seq(Event) /\ Len(queue) <= Capacity
    BY <2>1
  <2>6. accepted \in Seq(Event) /\ posted \in Seq(Event)
    BY <2>1
  <2>7. dropped \subseteq Event /\ billed \subseteq Event /\ closedAt \in Nat
    OBVIOUS
  <2> HIDE DEF ServiceInit, Init
  <2> QED
    BY <2>2, <2>3, <2>4, <2>5, <2>6, <2>7 DEF TypeOK
<1>2. HandsAreFull /\ CloseIsMarked
  BY DEF HandsAreFull, CloseIsMarked
<1>3. QueueIsNewest
  BY DEF QueueIsNewest, Taken
<1>4. EventsConserved
  BY DEF EventsConserved, InHand, Range
<1>5. InOrderUntilClose /\ CloseLeavesAtMostOne
  BY DEF InOrderUntilClose, CloseLeavesAtMostOne
<1> QED
  BY <1>1, <1>2, <1>3, <1>4, <1>5 DEF BillingInv

\* Types, hands and marks: every step, by its definition.
LEMMA BillingTypeStep ==
    ASSUME TypeOK, HandsAreFull, CloseIsMarked, BillingAction
    PROVE  TypeOK' /\ HandsAreFull' /\ CloseIsMarked'
<1> USE BillingAssumption DEF TypeOK, HandsAreFull, CloseIsMarked
<1>1. ASSUME NEW e \in Event, Record(e)
      PROVE  TypeOK' /\ HandsAreFull' /\ CloseIsMarked'
  <2>1. CASE Enqueue(e)
    <3>1. /\ Append(queue, e) \in Seq(Event) /\ Append(accepted, e) \in Seq(Event)
          /\ Len(Append(queue, e)) = Len(queue) + 1
          /\ Len(Append(accepted, e)) = Len(accepted) + 1
          /\ Len(queue) \in Nat /\ Len(accepted) \in Nat
      OBVIOUS
    <3> QED
      BY <1>1, <2>1, <3>1 DEF Record, Enqueue
  <2>2. CASE DropEvent(e)
    BY <1>1, <2>2 DEF Record, DropEvent
  <2> QED
    BY <1>1, <2>1, <2>2 DEF Record
<1>2. CASE WorkerTake
  BY <1>2, RangeOfTail DEF WorkerTake
<1>3. CASE WorkerPost
  BY <1>3 DEF WorkerPost, Post
<1>4. CASE WorkerReturn
  BY <1>4 DEF WorkerReturn
<1>5. CASE Close
  BY <1>5 DEF Close
<1>6. CASE DrainTake
  BY <1>6, RangeOfTail DEF DrainTake
<1>7. CASE DrainPost
  BY <1>7 DEF DrainPost, Post
<1>8. CASE DrainReturn
  BY <1>8 DEF DrainReturn
<1>9. CASE ServeFails
  BY <1>9 DEF ServeFails
<1>10. CASE ServiceExit
  BY <1>10 DEF ServiceExit
<1> QED
  BY <1>1, <1>2, <1>3, <1>4, <1>5, <1>6, <1>7, <1>8, <1>9, <1>10 DEF BillingAction

\* The elements of the sequences before and after each step, as sets and lengths.
LEMMA TypesOfSequences ==
    ASSUME TypeOK
    PROVE  /\ Len(queue) \in Nat /\ Len(accepted) \in Nat /\ Len(posted) \in Nat
           /\ DOMAIN queue = 1..Len(queue) /\ DOMAIN accepted = 1..Len(accepted)
           /\ DOMAIN posted = 1..Len(posted)
           /\ Range(accepted) \subseteq Event
  BY DEF TypeOK, Range

\* A Record that is accepted puts the event behind the others.
LEMMA RecordKeepsOrder ==
    ASSUME BillingInv, NEW e \in Event, Enqueue(e),
           UNCHANGED <<done, worker, closer, alive, posted, billed, closedAt>>
    PROVE  QueueIsNewest' /\ EventsConserved' /\ InOrderUntilClose' /\ CloseLeavesAtMostOne'
<1> USE DEF BillingInv
<1>1. /\ queue \in Seq(Event) /\ accepted \in Seq(Event)
      /\ Len(queue) \in Nat /\ Len(accepted) \in Nat /\ Len(posted) \in Nat
      /\ closedAt \in Nat /\ closedAt <= Len(accepted)
  BY TypesOfSequences DEF TypeOK, CloseIsMarked
<1>2. /\ Len(queue') = Len(queue) + 1 /\ Len(accepted') = Len(accepted) + 1
      /\ \A i \in 1..Len(queue') : queue'[i] = IF i <= Len(queue) THEN queue[i] ELSE e
      /\ \A i \in 1..Len(accepted') :
            accepted'[i] = IF i <= Len(accepted) THEN accepted[i] ELSE e
  BY <1>1 DEF Enqueue
<1>3. Range(queue') = Range(queue) \cup {e} /\ Range(accepted') = Range(accepted) \cup {e}
  BY <1>1, RangeOfAppend DEF Enqueue
<1>4. Taken' = Taken /\ Taken \in Nat
  BY <1>1, <1>2 DEF Taken, QueueIsNewest
<1>5. QueueIsNewest'
  <2>1. \A i \in 1..Len(queue') : queue'[i] = accepted'[Taken + i]
    <3> SUFFICES ASSUME NEW i \in 1..Len(queue') PROVE queue'[i] = accepted'[Taken + i]
      OBVIOUS
    <3>1. CASE i <= Len(queue)
      <4>1. i \in 1..Len(queue) /\ Taken + i \in 1..Len(accepted)
        BY <1>1, <1>2, <3>1, <1>4 DEF Taken
      <4> QED
        BY <1>1, <1>2, <1>4, <4>1 DEF QueueIsNewest
    <3>2. CASE i = Len(queue) + 1
      <4>1. Taken + i = Len(accepted) + 1
        BY <1>1, <3>2 DEF Taken
      <4> QED
        BY <1>1, <1>2, <3>2, <4>1
    <3> QED
      BY <1>1, <1>2, <3>1, <3>2
  <2> QED
    BY <1>1, <1>2, <1>4, <2>1 DEF QueueIsNewest
<1>6. EventsConserved'
  BY <1>1, <1>2, <1>3 DEF EventsConserved, InHand
<1>7. InOrderUntilClose'
  <2>1. Len(posted) <= Len(accepted)
    BY <1>1, <1>4 DEF EventsConserved, Taken
  <2>2. ~done /\ worker.hand # NoEvent => Taken \in 1..Len(accepted)
    BY <1>1, <1>4 DEF EventsConserved, Taken
  <2> QED
    BY <1>1, <1>2, <1>4, <2>1, <2>2 DEF InOrderUntilClose
<1>8. CloseLeavesAtMostOne'
  BY <1>1, <1>2 DEF CloseLeavesAtMostOne
<1> QED
  BY <1>5, <1>6, <1>7, <1>8

\* A receive from the queue leaves the rest of it the newest part of what was accepted,
\* and what it takes is the next one in order.
LEMMA ReceiveKeepsOrder ==
    ASSUME BillingInv, queue # <<>>, queue' = Tail(queue), UNCHANGED accepted
    PROVE  /\ QueueIsNewest'
           /\ Head(queue) \in Event
           /\ Head(queue) = accepted[Taken']
           /\ Len(queue') = Len(queue) - 1
           /\ Range(queue) = {Head(queue)} \cup Range(queue')
<1> USE DEF BillingInv
<1>1. /\ queue \in Seq(Event) /\ Len(queue) \in Nat \ {0} /\ Len(accepted) \in Nat
      /\ Head(queue) = queue[1]
  BY TypesOfSequences DEF TypeOK
<1>2. /\ Head(queue) \in Event /\ Len(queue') = Len(queue) - 1
      /\ \A i \in 1..Len(queue') : queue'[i] = queue[i + 1]
      /\ Range(queue) = {Head(queue)} \cup Range(queue')
  BY <1>1, RangeOfTail
<1>3. Taken' = Taken + 1 /\ Taken \in Nat
  BY <1>1, <1>2 DEF Taken, QueueIsNewest
<1>4. QueueIsNewest'
  <2>1. \A i \in 1..Len(queue') : queue'[i] = accepted'[Taken' + i]
    <3> SUFFICES ASSUME NEW i \in 1..Len(queue') PROVE queue'[i] = accepted[Taken' + i]
      OBVIOUS
    <3>1. i + 1 \in 1..Len(queue) /\ Taken + (i + 1) = Taken' + i
      BY <1>1, <1>2, <1>3
    <3> QED
      BY <1>2, <3>1 DEF QueueIsNewest
  <2> QED
    BY <1>1, <1>2, <2>1 DEF QueueIsNewest
<1>5. Head(queue) = accepted[Taken']
  BY <1>1, <1>3 DEF QueueIsNewest
<1> QED
  BY <1>2, <1>4, <1>5

LEMMA WorkerTakeKeeps ==
    ASSUME BillingInv, WorkerTake
    PROVE  QueueIsNewest' /\ EventsConserved' /\ InOrderUntilClose' /\ CloseLeavesAtMostOne'
<1> USE BillingAssumption DEF BillingInv, WorkerTake
<1>1. /\ QueueIsNewest' /\ Head(queue) \in Event /\ Head(queue) = accepted[Taken']
      /\ Len(queue') = Len(queue) - 1 /\ Range(queue) = {Head(queue)} \cup Range(queue')
  BY ReceiveKeepsOrder
<1>2. worker.hand = NoEvent /\ worker'.hand = Head(queue) /\ Head(queue) # NoEvent
  BY <1>1 DEF HandsAreFull
<1>3. Len(queue) \in Nat /\ Len(accepted) \in Nat /\ Len(posted) \in Nat
  BY TypesOfSequences
<1>4. EventsConserved'
  <2>1. Range(queue') \cup InHand' = Range(queue) \cup InHand
    BY <1>1, <1>2 DEF InHand
  <2>2. Range(accepted') = Range(queue') \cup InHand' \cup Range(posted')
    BY <2>1 DEF EventsConserved
  <2>3. Len(accepted') = Len(queue') + Len(posted')
                           + (IF worker'.hand = NoEvent THEN 0 ELSE 1)
                           + (IF closer'.hand = NoEvent THEN 0 ELSE 1)
    BY <1>1, <1>2, <1>3 DEF EventsConserved
  <2> QED
    BY <2>2, <2>3 DEF EventsConserved
<1>5. InOrderUntilClose'
  BY <1>1, <1>2 DEF InOrderUntilClose
<1>6. CloseLeavesAtMostOne'
  <2> SUFFICES ASSUME closer.at = "returned", NEW i \in 1..closedAt
               PROVE  accepted[i] \in Range(posted)
    BY DEF CloseLeavesAtMostOne
  <2>1. accepted[i] \in Range(posted) \cup {NoEvent}
    BY <1>2 DEF CloseLeavesAtMostOne
  <2>2. i \in 1..Len(accepted)
    BY <1>3 DEF CloseIsMarked, TypeOK
  <2>3. accepted[i] \in Event
    BY <2>2 DEF TypeOK
  <2> QED
    BY <2>1, <2>3
<1> QED
  BY <1>1, <1>4, <1>5, <1>6

LEMMA DrainTakeKeeps ==
    ASSUME BillingInv, DrainTake
    PROVE  QueueIsNewest' /\ EventsConserved' /\ InOrderUntilClose' /\ CloseLeavesAtMostOne'
<1> USE BillingAssumption DEF BillingInv, DrainTake
<1>1. /\ QueueIsNewest' /\ Head(queue) \in Event
      /\ Len(queue') = Len(queue) - 1 /\ Range(queue) = {Head(queue)} \cup Range(queue')
  BY ReceiveKeepsOrder
<1>2. closer.hand = NoEvent /\ closer'.hand = Head(queue) /\ Head(queue) # NoEvent
  BY <1>1 DEF HandsAreFull
<1>3. Len(queue) \in Nat /\ Len(accepted) \in Nat /\ Len(posted) \in Nat
  BY TypesOfSequences
<1>4. EventsConserved'
  <2>1. Range(queue') \cup InHand' = Range(queue) \cup InHand
    BY <1>1, <1>2 DEF InHand
  <2>2. Range(accepted') = Range(queue') \cup InHand' \cup Range(posted')
    BY <2>1 DEF EventsConserved
  <2>3. Len(accepted') = Len(queue') + Len(posted')
                           + (IF worker'.hand = NoEvent THEN 0 ELSE 1)
                           + (IF closer'.hand = NoEvent THEN 0 ELSE 1)
    BY <1>1, <1>2, <1>3 DEF EventsConserved
  <2> QED
    BY <2>2, <2>3 DEF EventsConserved
<1>5. done' /\ closer'.at # "returned"
  BY DEF CloseIsMarked
<1>6. InOrderUntilClose' /\ CloseLeavesAtMostOne'
  BY <1>5 DEF InOrderUntilClose, CloseLeavesAtMostOne
<1> QED
  BY <1>1, <1>4, <1>6

LEMMA WorkerPostKeeps ==
    ASSUME BillingInv, WorkerPost
    PROVE  QueueIsNewest' /\ EventsConserved' /\ InOrderUntilClose' /\ CloseLeavesAtMostOne'
<1> USE BillingAssumption DEF BillingInv, WorkerPost, Post
<1>1. worker.hand \in Event /\ worker.hand # NoEvent /\ worker'.hand = NoEvent
  BY DEF HandsAreFull, TypeOK
<1>2. /\ posted \in Seq(Event) /\ Len(posted') = Len(posted) + 1
      /\ \A i \in 1..Len(posted') :
            posted'[i] = IF i <= Len(posted) THEN posted[i] ELSE worker.hand
      /\ Range(posted') = Range(posted) \cup {worker.hand}
  BY <1>1, RangeOfAppend DEF TypeOK
<1>3. Len(queue) \in Nat /\ Len(accepted) \in Nat /\ Len(posted) \in Nat
  BY TypesOfSequences
<1>4. QueueIsNewest' /\ Taken' = Taken
  BY DEF QueueIsNewest, Taken
<1>5. EventsConserved'
  <2>1. InHand' \cup Range(posted') = InHand \cup Range(posted)
    BY <1>1, <1>2 DEF InHand
  <2>2. Range(accepted') = Range(queue') \cup InHand' \cup Range(posted')
    BY <2>1 DEF EventsConserved
  <2>3. Len(accepted') = Len(queue') + Len(posted')
                           + (IF worker'.hand = NoEvent THEN 0 ELSE 1)
                           + (IF closer'.hand = NoEvent THEN 0 ELSE 1)
    BY <1>1, <1>2, <1>3 DEF EventsConserved
  <2>4. billed' \subseteq Range(posted')
    BY <1>2 DEF EventsConserved
  <2> QED
    BY <2>2, <2>3, <2>4 DEF EventsConserved
<1>6. InOrderUntilClose'
  <2> SUFFICES ASSUME ~done, NEW i \in 1..Len(posted') PROVE posted'[i] = accepted[i]
    BY <1>1 DEF InOrderUntilClose
  <2>1. Len(posted) + 1 = Taken
    <3>1. closer.hand = NoEvent
      BY DEF CloseIsMarked, HandsAreFull
    <3> QED
      BY <1>1, <1>3, <3>1 DEF EventsConserved, Taken
  <2>2. worker.hand = accepted[Taken]
    BY <1>1 DEF InOrderUntilClose
  <2> QED
    BY <1>2, <1>3, <2>1, <2>2 DEF InOrderUntilClose
<1>7. CloseLeavesAtMostOne'
  BY <1>2 DEF CloseLeavesAtMostOne
<1> QED
  BY <1>4, <1>5, <1>6, <1>7

LEMMA DrainPostKeeps ==
    ASSUME BillingInv, DrainPost
    PROVE  QueueIsNewest' /\ EventsConserved' /\ InOrderUntilClose' /\ CloseLeavesAtMostOne'
<1> USE BillingAssumption DEF BillingInv, DrainPost, Post
<1>1. closer.hand \in Event /\ closer.hand # NoEvent /\ closer'.hand = NoEvent
  BY DEF HandsAreFull, TypeOK
<1>2. /\ Len(posted') = Len(posted) + 1
      /\ Range(posted') = Range(posted) \cup {closer.hand}
  BY <1>1, RangeOfAppend DEF TypeOK
<1>3. Len(queue) \in Nat /\ Len(accepted) \in Nat /\ Len(posted) \in Nat
  BY TypesOfSequences
<1>4. QueueIsNewest'
  BY DEF QueueIsNewest, Taken
<1>5. EventsConserved'
  <2>1. InHand' \cup Range(posted') = InHand \cup Range(posted)
    BY <1>1, <1>2 DEF InHand
  <2>2. Range(accepted') = Range(queue') \cup InHand' \cup Range(posted')
    BY <2>1 DEF EventsConserved
  <2>3. Len(accepted') = Len(queue') + Len(posted')
                           + (IF worker'.hand = NoEvent THEN 0 ELSE 1)
                           + (IF closer'.hand = NoEvent THEN 0 ELSE 1)
    BY <1>1, <1>2, <1>3 DEF EventsConserved
  <2>4. billed' \subseteq Range(posted')
    BY <1>2 DEF EventsConserved
  <2> QED
    BY <2>2, <2>3, <2>4 DEF EventsConserved
<1>6. done' /\ closer'.at # "returned"
  BY DEF CloseIsMarked
<1>7. InOrderUntilClose' /\ CloseLeavesAtMostOne'
  BY <1>6 DEF InOrderUntilClose, CloseLeavesAtMostOne
<1> QED
  BY <1>4, <1>5, <1>7

\* A goroutine that returns, Close when it begins, and the end of the process leave
\* the events where they are.  At the default branch of the drain the queue is empty,
\* so that all that is not posted is in the hand of the worker.
LEMMA DrainReturnKeeps ==
    ASSUME BillingInv, DrainReturn
    PROVE  CloseLeavesAtMostOne'
<1> USE BillingAssumption DEF BillingInv, DrainReturn
<1>1. closer.hand = NoEvent /\ Range(queue) = {}
  BY DEF HandsAreFull, Range
<1>2. Range(accepted) = (InHand \cup Range(posted)) /\ InHand \subseteq {worker.hand}
  BY <1>1 DEF EventsConserved, InHand
<1>3. \A i \in 1..closedAt : accepted[i] \in Range(accepted)
  <2>1. \A i \in 1..closedAt : i \in DOMAIN accepted
    BY TypesOfSequences DEF CloseIsMarked, TypeOK
  <2> QED
    BY <2>1 DEF Range
<1> QED
  BY <1>2, <1>3 DEF CloseLeavesAtMostOne

LEMMA BillingInvStep ==
    ASSUME BillingInv, [ServiceNext]_serviceVars
    PROVE  BillingInv'
<1>1. CASE UNCHANGED vars
  BY <1>1 DEF vars, BillingInv, TypeOK, HandsAreFull, CloseIsMarked, QueueIsNewest, Taken,
              EventsConserved, InHand, InOrderUntilClose, CloseLeavesAtMostOne
<1>2. CASE BillingAction
  <2>1. TypeOK' /\ HandsAreFull' /\ CloseIsMarked'
    BY <1>2, BillingTypeStep DEF BillingInv
  <2>2. QueueIsNewest' /\ EventsConserved' /\ InOrderUntilClose' /\ CloseLeavesAtMostOne'
    <3>1. ASSUME NEW e \in Event, Record(e)
          PROVE  /\ QueueIsNewest' /\ EventsConserved'
                 /\ InOrderUntilClose' /\ CloseLeavesAtMostOne'
      <4>1. CASE Enqueue(e)
        BY <3>1, <4>1, RecordKeepsOrder DEF Record
      <4>2. CASE DropEvent(e)
        BY <3>1, <4>2 DEF Record, DropEvent, BillingInv, QueueIsNewest, Taken, EventsConserved,
                          InHand, InOrderUntilClose, CloseLeavesAtMostOne
      <4> QED
        BY <3>1, <4>1, <4>2 DEF Record
    <3>2. CASE WorkerTake
      BY <3>2, WorkerTakeKeeps
    <3>3. CASE WorkerPost
      BY <3>3, WorkerPostKeeps
    <3>4. CASE WorkerReturn
      BY <3>4 DEF WorkerReturn, BillingInv, HandsAreFull, QueueIsNewest, Taken, EventsConserved,
                  InHand, InOrderUntilClose, CloseLeavesAtMostOne
    <3>5. CASE Close
      BY <3>5 DEF Close, BillingInv, HandsAreFull, QueueIsNewest, Taken, EventsConserved,
                  InHand, InOrderUntilClose, CloseLeavesAtMostOne
    <3>6. CASE DrainTake
      BY <3>6, DrainTakeKeeps
    <3>7. CASE DrainPost
      BY <3>7, DrainPostKeeps
    <3>8. CASE DrainReturn
      <4>1. CloseLeavesAtMostOne'
        BY <3>8, DrainReturnKeeps
      <4> QED
        BY <3>8, <4>1 DEF DrainReturn, BillingInv, HandsAreFull, QueueIsNewest, Taken,
                          EventsConserved, InHand, InOrderUntilClose
    <3>9. CASE ServeFails \/ ServiceExit
      BY <3>9 DEF ServeFails, ServiceExit, BillingInv, QueueIsNewest, Taken, EventsConserved, InHand,
                  InOrderUntilClose, CloseLeavesAtMostOne
    <3> QED
      BY <1>2, <3>1, <3>2, <3>3, <3>4, <3>5, <3>6, <3>7, <3>8, <3>9 DEF BillingAction
  <2> QED
    BY <2>1, <2>2 DEF BillingInv
<1> QED
  BY <1>1, <1>2, StepSplits

LEMMA BillingInvHolds == ServiceSpec => []BillingInv
<1>1. BillingInv /\ [ServiceNext]_serviceVars => BillingInv'
  BY BillingInvStep
<1> QED
  BY <1>1, BillingInvInit, PTL DEF ServiceSpec

\* Every variable of the service keeps its type; in particular the queue never holds
\* more than its capacity.
THEOREM ServiceTypeCorrect == ServiceSpec => []ServiceTypeOK
<1> DEFINE ServerOK == server \in {"serving", "cleanup", "shutdown", "returned"}
<1>1. ServiceInit => ServerOK
  BY DEF ServiceInit
<1>2. ServerOK /\ [ServiceNext]_serviceVars => ServerOK'
  <2> SUFFICES ASSUME ServerOK, [ServiceNext]_serviceVars
               PROVE  ServerOK'
    OBVIOUS
  <2>1. CASE UNCHANGED server
    BY <2>1
  <2>2. CASE Signal
    BY <2>2 DEF Signal
  <2>3. CASE BeginShutdown
    BY <2>3 DEF BeginShutdown
  <2>4. CASE ShutdownReturns
    BY <2>4 DEF ShutdownReturns
  <2>5. UNCHANGED server \/ Signal \/ BeginShutdown \/ ShutdownReturns
    BY DEF ServiceNext, serviceVars, Accept, HandlerRecords, Authenticate, BillingStep,
           ServeFails, ServiceExit
  <2> QED
    BY <2>1, <2>2, <2>3, <2>4, <2>5
<1>3. BillingInv /\ TokenTypeOK /\ ServerOK => ServiceTypeOK
  BY DEF BillingInv, ServiceTypeOK
<1> HIDE DEF ServerOK
<1> QED
  BY <1>1, <1>2, <1>3, BillingInvHolds, TokenTypeCorrect, PTL DEF ServiceSpec

\* No event that Record accepted is lost or posted twice between the worker and Close,
\* for any number of events and any capacity, whatever handlers record during and after
\* the shutdown of the service.
THEOREM EventsAreConserved == ServiceSpec => []EventsConserved
<1>1. BillingInv => EventsConserved
  BY DEF BillingInv
<1> QED
  BY <1>1, BillingInvHolds, PTL

\* Until Close is called usage is posted in the order in which it was recorded.
THEOREM PostsAreInOrder == ServiceSpec => []InOrderUntilClose
<1>1. BillingInv => InOrderUntilClose
  BY DEF BillingInv
<1> QED
  BY <1>1, BillingInvHolds, PTL

\* When Close has returned, all that was accepted before it is posted, but for the one
\* event that the worker may be posting.
THEOREM CloseLeavesOneBehind == ServiceSpec => []CloseLeavesAtMostOne
<1>1. BillingInv => CloseLeavesAtMostOne
  BY DEF BillingInv
<1> QED
  BY <1>1, BillingInvHolds, PTL

-----------------------------------------------------------------------------
\* The service implements the outbox.  What the refinement needs beyond BillingInv: an
\* event is in one place only, and the process ends after Close has returned.

PlacesAreDisjoint ==
    /\ \A i, j \in 1..Len(accepted) : accepted[i] = accepted[j] => i = j
    /\ Range(queue) \cap Range(posted) = {}
    /\ worker.hand \notin Range(queue) \cup Range(posted)
    /\ closer.hand \notin Range(queue) \cup Range(posted)
    /\ worker.hand # NoEvent => worker.hand # closer.hand
    /\ Range(accepted) \cap dropped = {}

CleanupComesFirst == server \in {"shutdown", "returned"} => closer.at = "returned"

OutboxInv == BillingInv /\ PlacesAreDisjoint /\ CleanupComesFirst

\* What is accepted is on the queue, in a hand or posted; nothing else is.
LEMMA PlacesOfEvents ==
    ASSUME BillingInv
    PROVE  /\ Range(queue) \subseteq Range(accepted)
           /\ Range(posted) \subseteq Range(accepted)
           /\ worker.hand \in Range(accepted) \cup {NoEvent}
           /\ closer.hand \in Range(accepted) \cup {NoEvent}
           /\ Range(accepted) \subseteq Event
           /\ NoEvent \notin Range(accepted)
  BY BillingAssumption, TypesOfSequences DEF BillingInv, EventsConserved, InHand

\* The front of the queue is not a second time on it.
LEMMA HeadIsUnique ==
    ASSUME BillingInv, PlacesAreDisjoint, queue # <<>>
    PROVE  /\ Head(queue) \notin Range(Tail(queue))
           /\ Head(queue) \in Event
           /\ Range(queue) = {Head(queue)} \cup Range(Tail(queue))
<1>1. /\ queue \in Seq(Event) /\ Len(queue) \in Nat \ {0} /\ Len(accepted) \in Nat
      /\ Head(queue) = queue[1] /\ Taken \in Nat
  BY TypesOfSequences DEF BillingInv, TypeOK, QueueIsNewest, Taken
<1>2. /\ Head(queue) \in Event /\ Len(Tail(queue)) = Len(queue) - 1
      /\ DOMAIN Tail(queue) = 1..Len(Tail(queue))
      /\ \A i \in 1..Len(Tail(queue)) : Tail(queue)[i] = queue[i + 1]
      /\ Range(queue) = {Head(queue)} \cup Range(Tail(queue))
  BY <1>1, RangeOfTail
<1>3. ASSUME NEW i \in 1..Len(Tail(queue)) PROVE Tail(queue)[i] # Head(queue)
  <2>1. i + 1 \in 1..Len(queue) /\ 1 \in 1..Len(queue)
    BY <1>1, <1>2
  <2>2. /\ queue[i + 1] = accepted[Taken + (i + 1)] /\ queue[1] = accepted[Taken + 1]
    BY <2>1 DEF BillingInv, QueueIsNewest
  <2>3. Taken + (i + 1) \in 1..Len(accepted) /\ Taken + 1 \in 1..Len(accepted)
    BY <1>1, <2>1 DEF Taken
  <2>4. Taken + (i + 1) # Taken + 1
    BY <1>1
  <2> QED
    BY <1>1, <1>2, <2>2, <2>3, <2>4 DEF PlacesAreDisjoint
<1> QED
  BY <1>2, <1>3 DEF Range

LEMMA PlacesStep ==
    ASSUME BillingInv, PlacesAreDisjoint, BillingAction
    PROVE  PlacesAreDisjoint'
<1> USE BillingAssumption
<1>0. /\ queue \in Seq(Event) /\ accepted \in Seq(Event) /\ posted \in Seq(Event)
      /\ worker.hand \in Event \cup {NoEvent} /\ closer.hand \in Event \cup {NoEvent}
  BY DEF BillingInv, TypeOK
<1>1. ASSUME NEW e \in Event, Record(e), Enqueue(e) PROVE PlacesAreDisjoint'
  <2>1. e \notin Range(accepted) /\ e \notin dropped
    BY <1>1 DEF Record
  <2>2. Range(queue') = Range(queue) \cup {e} /\ Range(accepted') = Range(accepted) \cup {e}
    BY <1>0, <1>1, RangeOfAppend DEF Enqueue
  <2>3. \A i, j \in 1..Len(accepted') : accepted'[i] = accepted'[j] => i = j
    <3>1. /\ Len(accepted) \in Nat /\ Len(accepted') = Len(accepted) + 1
          /\ \A i \in 1..Len(accepted') :
                accepted'[i] = IF i <= Len(accepted) THEN accepted[i] ELSE e
      BY <1>0, <1>1 DEF Enqueue
    <3>2. \A i \in 1..Len(accepted) : accepted[i] # e
      BY <1>0, <2>1 DEF Range
    <3> QED
      BY <3>1, <3>2 DEF PlacesAreDisjoint
  <2>4. UNCHANGED <<worker, closer, posted, dropped>>
    BY <1>1 DEF Record, Enqueue
  <2> QED
    BY <2>1, <2>2, <2>3, <2>4, PlacesOfEvents DEF PlacesAreDisjoint
<1>2. ASSUME NEW e \in Event, Record(e), DropEvent(e) PROVE PlacesAreDisjoint'
  BY <1>2 DEF Record, DropEvent, PlacesAreDisjoint
<1>3. CASE WorkerTake
  <2>1. worker'.hand = Head(queue) /\ Range(queue) = {Head(queue)} \cup Range(queue')
        /\ Head(queue) \notin Range(queue') /\ Head(queue) \in Event
    BY <1>3, HeadIsUnique DEF WorkerTake
  <2> QED
    BY <1>3, <2>1 DEF WorkerTake, PlacesAreDisjoint
<1>4. CASE DrainTake
  <2>1. closer'.hand = Head(queue) /\ Range(queue) = {Head(queue)} \cup Range(queue')
        /\ Head(queue) \notin Range(queue') /\ Head(queue) \in Event
    BY <1>4, HeadIsUnique DEF DrainTake
  <2> QED
    BY <1>4, <2>1 DEF DrainTake, PlacesAreDisjoint
<1>5. NoEvent \notin Range(queue) /\ NoEvent \notin Range(posted)
  BY PlacesOfEvents
<1>6. CASE WorkerPost
  <2>1. worker.hand # NoEvent /\ worker.hand \in Event /\ worker'.hand = NoEvent
    BY <1>0, <1>6 DEF BillingInv, HandsAreFull, WorkerPost
  <2>2. Range(posted') = Range(posted) \cup {worker.hand}
    BY <1>0, <1>6, <2>1, RangeOfAppend DEF WorkerPost, Post
  <2> QED
    BY <1>5, <1>6, <2>1, <2>2 DEF WorkerPost, PlacesAreDisjoint
<1>7. CASE DrainPost
  <2>1. closer.hand # NoEvent /\ closer.hand \in Event /\ closer'.hand = NoEvent
    BY <1>0, <1>7 DEF BillingInv, HandsAreFull, DrainPost
  <2>2. Range(posted') = Range(posted) \cup {closer.hand}
    BY <1>0, <1>7, <2>1, RangeOfAppend DEF DrainPost, Post
  <2> QED
    BY <1>5, <1>7, <2>1, <2>2 DEF DrainPost, PlacesAreDisjoint
<1>8. CASE WorkerReturn
  BY <1>5, <1>8 DEF WorkerReturn, PlacesAreDisjoint
<1>9. CASE Close
  BY <1>5, <1>9 DEF Close, PlacesAreDisjoint
<1>10. CASE DrainReturn
  BY <1>5, <1>10 DEF DrainReturn, PlacesAreDisjoint
<1>11. CASE ServeFails \/ ServiceExit
  BY <1>11 DEF ServeFails, ServiceExit, PlacesAreDisjoint
<1> QED
  BY <1>1, <1>2, <1>3, <1>4, <1>6, <1>7, <1>8, <1>9, <1>10, <1>11 DEF BillingAction, Record

\* Close returns once: no step takes it from there, and the shutdown begins after it.
LEMMA CleanupStep ==
    ASSUME CleanupComesFirst, [ServiceNext]_serviceVars
    PROVE  CleanupComesFirst'
<1>1. closer.at = "returned" => closer'.at = "returned"
  <2> SUFFICES ASSUME closer.at = "returned", BillingAction PROVE closer' = closer
    BY StepSplits DEF vars
  <2> QED
    BY DEF BillingAction, Record, WorkerTake, WorkerPost, WorkerReturn, Close, DrainTake,
           DrainPost, DrainReturn, ServeFails, ServiceExit
<1>2. CASE UNCHANGED server
  BY <1>1, <1>2 DEF CleanupComesFirst
<1>3. CASE Signal
  BY <1>3 DEF Signal, CleanupComesFirst
<1>4. CASE BeginShutdown
  BY <1>1, <1>4 DEF BeginShutdown, CleanupComesFirst
<1>5. CASE ShutdownReturns
  BY <1>1, <1>5 DEF ShutdownReturns, CleanupComesFirst
<1>6. UNCHANGED server \/ Signal \/ BeginShutdown \/ ShutdownReturns
  BY DEF ServiceNext, serviceVars, Accept, HandlerRecords, Authenticate, BillingStep,
         ServeFails, ServiceExit
<1> QED
  BY <1>2, <1>3, <1>4, <1>5, <1>6

LEMMA OutboxInvHolds == ServiceSpec => []OutboxInv
<1>1. ServiceInit => PlacesAreDisjoint /\ CleanupComesFirst
  <2> SUFFICES ASSUME ServiceInit PROVE PlacesAreDisjoint /\ CleanupComesFirst
    OBVIOUS
  <2>1. Range(<<>>) = {} /\ Len(<<>>) = 0
    BY DEF Range
  <2> QED
    BY <2>1 DEF ServiceInit, Init, PlacesAreDisjoint, CleanupComesFirst
<1>2. BillingInv /\ PlacesAreDisjoint /\ CleanupComesFirst /\ [ServiceNext]_serviceVars
        => PlacesAreDisjoint' /\ CleanupComesFirst'
  <2> SUFFICES ASSUME BillingInv, PlacesAreDisjoint, CleanupComesFirst,
                      [ServiceNext]_serviceVars
               PROVE  PlacesAreDisjoint' /\ CleanupComesFirst'
    OBVIOUS
  <2>1. CASE BillingAction
    BY <2>1, PlacesStep, CleanupStep
  <2>2. CASE UNCHANGED vars
    <3>1. PlacesAreDisjoint'
      BY <2>2 DEF vars, PlacesAreDisjoint
    <3> QED
      BY <3>1, CleanupStep
  <2> QED
    BY <2>1, <2>2, StepSplits
<1> QED
  BY <1>1, <1>2, BillingInvHolds, PTL DEF ServiceSpec, OutboxInv

\* The outbox's variables in terms of the client's, as the refinement mapping has them.
Waiting == Range(queue) \cup InHand

Late == {accepted[i] : i \in {j \in DOMAIN accepted : done /\ j > closedAt}}

Status ==
    IF ~alive THEN IF server = "returned" THEN "over" ELSE "aborted"
    ELSE IF done THEN "closing" ELSE "open"

OutboxVars == <<Waiting, Range(posted), dropped, Late, Status>>

LEMMA InitIsOutboxInit == ServiceInit => Outbox!Init
<1> SUFFICES ASSUME ServiceInit PROVE Outbox!Init
  OBVIOUS
<1>1. Range(<<>>) = {}
  BY DEF Range
<1> QED
  BY <1>1 DEF ServiceInit, Init, Outbox!Init, InHand

\* Record offers an event; it is late when Close has begun.
LEMMA RecordIsOffer ==
    ASSUME OutboxInv, NEW e \in Event, Record(e)
    PROVE  Outbox!Offer(e)
<1> USE DEF OutboxInv
<1>1. /\ accepted \in Seq(Event) /\ queue \in Seq(Event)
      /\ closedAt \in Nat /\ closedAt <= Len(accepted) /\ Len(accepted) \in Nat
      /\ DOMAIN accepted = 1..Len(accepted)
  BY TypesOfSequences DEF BillingInv, TypeOK, CloseIsMarked
<1>2. Status \in {"open", "closing"} /\ Status' = Status /\ (Status = "closing" <=> done)
  BY DEF Record, Status
<1>3. e \notin Waiting \cup Range(posted) \cup dropped
  BY DEF Record, BillingInv, EventsConserved, Waiting
<1>4. UNCHANGED Range(posted)
  BY DEF Record
<1>5. CASE Enqueue(e)
  <2>1. Waiting' = Waiting \cup {e}
    BY <1>1, <1>5, RangeOfAppend DEF Enqueue, Record, Waiting, InHand
  <2>2. /\ DOMAIN accepted' = 1..(Len(accepted) + 1)
        /\ \A i \in 1..Len(accepted) : accepted'[i] = accepted[i]
        /\ accepted'[Len(accepted) + 1] = e
    BY <1>1, <1>5 DEF Enqueue
  <2>3. done' = done /\ closedAt' = closedAt
    BY DEF Record
  <2>4. Late' = IF done THEN Late \cup {e} ELSE Late
    <3>1. CASE done
      <4>1. Late = {accepted[i] : i \in {j \in 1..Len(accepted) : j > closedAt}}
        BY <1>1, <3>1 DEF Late
      <4>2. Late' = {accepted'[i] : i \in {j \in 1..(Len(accepted) + 1) : j > closedAt}}
        BY <2>2, <2>3, <3>1 DEF Late
      <4>3. Len(accepted) + 1 > closedAt
        BY <1>1
      <4>4. {j \in 1..(Len(accepted) + 1) : j > closedAt}
              = {j \in 1..Len(accepted) : j > closedAt} \cup {Len(accepted) + 1}
        BY <1>1, <4>3
      <4>5. Late' = {accepted'[i] : i \in {j \in 1..Len(accepted) : j > closedAt}} \cup {e}
        BY <2>2, <4>2, <4>4
      <4> QED
        BY <2>2, <3>1, <4>1, <4>5
    <3>2. CASE ~done
      BY <2>3, <3>2 DEF Late
    <3> QED
      BY <3>1, <3>2
  <2>5. UNCHANGED dropped
    BY <1>5 DEF Enqueue
  <2> QED
    BY <1>2, <1>3, <1>4, <2>1, <2>4, <2>5 DEF Outbox!Offer, Outbox!Running, Waiting, Late, Status
<1>6. CASE DropEvent(e)
  <2>1. UNCHANGED <<Waiting, Late>> /\ dropped' = dropped \cup {e}
    BY <1>6 DEF DropEvent, Record, Waiting, InHand, Late
  <2> QED
    BY <1>2, <1>3, <1>4, <2>1 DEF Outbox!Offer, Outbox!Running, Waiting, Late, Status
<1> QED
  BY <1>5, <1>6 DEF Record

\* A receive only moves an event from the queue into a hand.
LEMMA TakeIsStutter ==
    ASSUME OutboxInv, WorkerTake \/ DrainTake
    PROVE  UNCHANGED OutboxVars
<1> USE BillingAssumption DEF OutboxInv
<1>1. queue # <<>> /\ queue' = Tail(queue)
  BY DEF WorkerTake, DrainTake
<1>2. Range(queue) = {Head(queue)} \cup Range(queue') /\ Head(queue) \in Event
  BY <1>1, HeadIsUnique
<1>3. UNCHANGED Waiting
  <2>1. CASE WorkerTake
    <3>1. worker.hand = NoEvent /\ worker'.hand = Head(queue) /\ UNCHANGED closer
      BY <2>1 DEF WorkerTake, BillingInv, HandsAreFull
    <3> QED
      BY <1>2, <3>1 DEF Waiting, InHand
  <2>2. CASE DrainTake
    <3>1. closer.hand = NoEvent /\ closer'.hand = Head(queue) /\ UNCHANGED worker
      BY <2>2 DEF DrainTake, BillingInv, HandsAreFull
    <3> QED
      BY <1>2, <3>1 DEF Waiting, InHand
  <2> QED
    BY <2>1, <2>2
<1>4. alive /\ UNCHANGED <<done, alive, accepted, dropped, posted, closedAt>>
  BY DEF WorkerTake, DrainTake
<1>5. UNCHANGED <<Late, Status>>
  BY <1>4 DEF Late, Status
<1> QED
  BY <1>3, <1>4, <1>5 DEF OutboxVars

\* A post takes the event out of the hand: it is nowhere else.
LEMMA PostIsPost ==
    ASSUME OutboxInv, WorkerPost \/ DrainPost
    PROVE  \E e \in Event : Outbox!Post(e)
<1> USE BillingAssumption DEF OutboxInv
<1>1. /\ UNCHANGED <<queue, done, alive, accepted, dropped, closedAt>> /\ alive
      /\ posted \in Seq(Event) /\ NoEvent \notin Range(queue)
  BY PlacesOfEvents DEF WorkerPost, DrainPost, BillingInv, TypeOK
<1>2. UNCHANGED <<Late, Status>> /\ Status \in {"open", "closing"}
  BY <1>1 DEF Late, Status
<1>3. CASE WorkerPost
  <2>1. /\ worker.hand \in Event /\ worker.hand # NoEvent /\ worker'.hand = NoEvent
        /\ UNCHANGED closer /\ posted' = Append(posted, worker.hand)
    BY <1>3 DEF WorkerPost, Post, BillingInv, HandsAreFull, TypeOK
  <2>2. Range(posted') = Range(posted) \cup {worker.hand}
    BY <1>1, <2>1, RangeOfAppend
  <2>3. worker.hand \in Waiting /\ Waiting' = Waiting \ {worker.hand}
    BY <1>1, <2>1 DEF Waiting, InHand, PlacesAreDisjoint
  <2> QED
    BY <1>1, <1>2, <2>1, <2>2, <2>3 DEF Outbox!Post, Outbox!Running, Waiting, Late, Status
<1>4. CASE DrainPost
  <2>1. /\ closer.hand \in Event /\ closer.hand # NoEvent /\ closer'.hand = NoEvent
        /\ UNCHANGED worker /\ posted' = Append(posted, closer.hand)
    BY <1>4 DEF DrainPost, Post, BillingInv, HandsAreFull, TypeOK
  <2>2. Range(posted') = Range(posted) \cup {closer.hand}
    BY <1>1, <2>1, RangeOfAppend
  <2>3. closer.hand \in Waiting /\ Waiting' = Waiting \ {closer.hand}
    BY <1>1, <2>1 DEF Waiting, InHand, PlacesAreDisjoint
  <2> QED
    BY <1>1, <1>2, <2>1, <2>2, <2>3 DEF Outbox!Post, Outbox!Running, Waiting, Late, Status
<1> QED
  BY <1>3, <1>4

LEMMA CloseIsBeginClose ==
    ASSUME OutboxInv, Close
    PROVE  Outbox!BeginClose
<1> USE DEF OutboxInv
<1>1. ~done /\ done' /\ alive /\ alive'
  BY DEF Close, BillingInv, CloseIsMarked
<1>2. Status = "open" /\ Status' = "closing"
  BY <1>1 DEF Status
<1>3. Late = {}
  BY <1>1 DEF Late
<1>4. Late' = {}
  <2>1. /\ DOMAIN accepted' = 1..Len(accepted) /\ Len(accepted) \in Nat
        /\ closedAt' = Len(accepted)
    BY TypesOfSequences DEF Close, BillingInv
  <2>2. {j \in DOMAIN accepted' : done' /\ j > closedAt'} = {}
    BY <2>1
  <2> QED
    BY <2>2 DEF Late
<1>5. UNCHANGED <<Waiting, Range(posted), dropped>>
  BY DEF Close, BillingInv, HandsAreFull, Waiting, InHand
<1> QED
  BY <1>2, <1>3, <1>4, <1>5 DEF Outbox!BeginClose, Waiting, Late, Status

\* The goroutines return with empty hands.
LEMMA ReturnIsStutter ==
    ASSUME OutboxInv, WorkerReturn \/ DrainReturn
    PROVE  UNCHANGED OutboxVars
<1>1. /\ worker'.hand = worker.hand /\ closer'.hand = closer.hand
      /\ alive /\ UNCHANGED <<queue, done, alive, accepted, dropped, posted, closedAt>>
  BY DEF WorkerReturn, DrainReturn, OutboxInv, BillingInv, HandsAreFull
<1> QED
  BY <1>1 DEF OutboxVars, Waiting, InHand, Late, Status

\* The process ends after Close has returned, when only the hand of the worker may still
\* hold an event accepted before it.
LEMMA ExitIsEnd ==
    ASSUME OutboxInv, ServiceExit
    PROVE  Outbox!End
<1> USE BillingAssumption DEF OutboxInv
<1>1. closer.at = "returned" /\ done /\ closer.hand = NoEvent /\ alive /\ ~alive'
  BY DEF ServiceExit, CleanupComesFirst, BillingInv, CloseIsMarked, HandsAreFull, TypeOK
<1>2. Status = "closing" /\ Status' = "over"
  BY <1>1 DEF Status, ServiceExit
<1>3. UNCHANGED <<Waiting, Range(posted), dropped, Late>>
  BY DEF ServiceExit, Waiting, InHand, Late
<1>4. Waiting \ Late \subseteq {worker.hand}
  <2> SUFFICES ASSUME NEW e \in Waiting, e \notin Late PROVE e = worker.hand
    OBVIOUS
  <2>1. e \in Range(accepted)
    BY DEF BillingInv, EventsConserved, Waiting
  <2>2. PICK i \in DOMAIN accepted : accepted[i] = e
    BY <2>1 DEF Range
  <2>3. ~(i > closedAt)
    BY <1>1, <2>2 DEF Late
  <2>4. i \in 1..closedAt
    BY <2>2, <2>3, TypesOfSequences DEF BillingInv, TypeOK
  <2>5. e \in Range(posted) \cup {worker.hand}
    BY <1>1, <2>2, <2>4 DEF BillingInv, CloseLeavesAtMostOne
  <2>6. e \notin Range(posted)
    BY <1>1 DEF Waiting, InHand, PlacesAreDisjoint
  <2> QED
    BY <2>5, <2>6
<1> QED
  BY <1>2, <1>3, <1>4 DEF Outbox!End, Waiting, Late, Status

\* Serve may fail at any moment before ListenAndWait returns, which aborts the outbox.
LEMMA ServeFailureIsAbort ==
    ASSUME ServeFails
    PROVE  Outbox!Abort
<1>1. Status \in {"open", "closing"} /\ Status' = "aborted"
  BY DEF ServeFails, Status
<1>2. UNCHANGED <<Waiting, Range(posted), dropped, Late>>
  BY DEF ServeFails, Waiting, InHand, Late
<1> QED
  BY <1>1, <1>2 DEF Outbox!Abort, Outbox!Running, Waiting, Late, Status

\* Where ListenAndWait is matters to the outbox only once the process has ended.
LEMMA ServerIsStutter ==
    ASSUME [ServiceNext]_serviceVars, UNCHANGED vars
    PROVE  UNCHANGED OutboxVars
<1>1. alive \/ UNCHANGED server
  BY DEF ServiceNext, serviceVars, Accept, HandlerRecords, Authenticate, BillingStep, Signal,
         BeginShutdown, ShutdownReturns, ServeFails, ServiceExit, Close
<1>2. UNCHANGED Status
  BY <1>1 DEF vars, Status
<1> QED
  BY <1>2 DEF vars, OutboxVars, Waiting, InHand, Late

\* Every step of the service is a step of the outbox or leaves it alone.
LEMMA StepIsOutboxStep ==
    ASSUME OutboxInv, [ServiceNext]_serviceVars
    PROVE  [Outbox!Next]_(Outbox!vars)
<1>1. CASE UNCHANGED vars
  BY <1>1, ServerIsStutter DEF OutboxVars, Outbox!vars, Waiting, Late, Status
<1>2. CASE BillingAction
  <2>1. ASSUME NEW e \in Event, Record(e) PROVE Outbox!Next
    BY <2>1, RecordIsOffer DEF Outbox!Next
  <2>2. CASE WorkerTake \/ DrainTake \/ WorkerReturn \/ DrainReturn
    <3>1. UNCHANGED OutboxVars
      BY <2>2, TakeIsStutter, ReturnIsStutter
    <3> QED
      BY <3>1 DEF OutboxVars, Outbox!vars, Waiting, Late, Status
  <2>3. CASE WorkerPost \/ DrainPost
    BY <2>3, PostIsPost DEF Outbox!Next
  <2>4. CASE Close
    BY <2>4, CloseIsBeginClose DEF Outbox!Next
  <2>5. CASE ServiceExit
    BY <2>5, ExitIsEnd DEF Outbox!Next
  <2>6. CASE ServeFails
    BY <2>6, ServeFailureIsAbort DEF Outbox!Next
  <2> QED
    BY <1>2, <2>1, <2>2, <2>3, <2>4, <2>5, <2>6 DEF BillingAction
<1> QED
  BY <1>1, <1>2, StepSplits

\* The service keeps the outbox's promise for any number of events and any capacity: an
\* accepted event waits until it is posted, once, and of those accepted before the
\* cleanup function began at most one is left when the process ends, unless Serve fails.
THEOREM ServiceImplementsOutbox == ServiceSpec => ImplementsOutbox
<1>1. OutboxInv /\ [ServiceNext]_serviceVars => [Outbox!Next]_(Outbox!vars)
  BY StepIsOutboxStep
<1> QED
  BY <1>1, InitIsOutboxInit, OutboxInvHolds, PTL DEF ServiceSpec, ImplementsOutbox, Outbox!Spec

=============================================================================
