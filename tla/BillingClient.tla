---------------------------- MODULE BillingClient ----------------------------
(***************************************************************************)
(* billing/client.go: usage events are queued on a bounded Go channel and  *)
(* posted to the tariff service by one background goroutine (the worker).  *)
(* Close drains the channel itself, concurrently with the worker, and does *)
(* not wait for it.  Every event is one call of Record.                    *)
(***************************************************************************)
EXTENDS Naturals, Sequences, Functions

CONSTANTS
    Event,     \* the usage events the service records, one per call of Record
    Capacity,  \* capacity of the queue channel (256 in the code)
    NoEvent    \* the hand of a goroutine that is not in the middle of a post

ASSUME BillingAssumption ==
    /\ Capacity \in Nat \ {0}
    /\ NoEvent \notin Event

VARIABLES
    queue,     \* the buffered channel c.queue
    done,      \* TRUE once the channel c.done is closed
    worker,    \* the goroutine worker(): where it is, the event it is posting
    closer,    \* the goroutine in Close(): where it is, the event it is posting
    alive,     \* the process exits some time after Close has returned
    accepted,  \* history: the events Record put on the queue, in order
    dropped,   \* history: the events Record dropped because the queue was full
    posted,    \* history: the events whose post() has returned, in order
    billed,    \* the events the tariff service has received
    closedAt   \* history: how many events had been accepted when Close began

vars == <<queue, done, worker, closer, alive, accepted, dropped, posted,
          billed, closedAt>>

TypeOK ==
    /\ queue \in Seq(Event)
    /\ Len(queue) <= Capacity
    /\ done \in BOOLEAN
    /\ worker \in [at : {"select", "post", "returned"}, hand : Event \cup {NoEvent}]
    /\ closer \in [at : {"idle", "drain", "post", "returned"}, hand : Event \cup {NoEvent}]
    /\ alive \in BOOLEAN
    /\ accepted \in Seq(Event)
    /\ dropped \subseteq Event
    /\ posted \in Seq(Event)
    /\ billed \subseteq Event
    /\ closedAt \in Nat

\* Connect: an empty queue, and the worker goroutine is started.
Init ==
    /\ queue = <<>>
    /\ done = FALSE
    /\ worker = [at |-> "select", hand |-> NoEvent]
    /\ closer = [at |-> "idle", hand |-> NoEvent]
    /\ alive = TRUE
    /\ accepted = <<>>
    /\ dropped = {}
    /\ posted = <<>>
    /\ billed = {}
    /\ closedAt = 0

\* Mutant of Enqueue: a queue without a limit.
EnqueueUnbounded(e) ==
    /\ queue' = Append(queue, e)
    /\ accepted' = Append(accepted, e)
    /\ UNCHANGED dropped

\* Record never blocks: the event is queued, or dropped when the queue is full.
\* Nothing stops a call after Close.
Enqueue(e) ==
    /\ Len(queue) < Capacity
    /\ queue' = Append(queue, e)
    /\ accepted' = Append(accepted, e)
    /\ UNCHANGED dropped

DropEvent(e) ==
    /\ Len(queue) >= Capacity
    /\ dropped' = dropped \cup {e}
    /\ UNCHANGED <<queue, accepted>>

Record(e) ==
    /\ alive
    /\ e \notin Range(accepted) \cup dropped
    /\ Enqueue(e) \/ DropEvent(e)
    /\ UNCHANGED <<done, worker, closer, alive, posted, billed, closedAt>>

\* post returns in every case (10 s timeout); the tariff service has received
\* the event or not, and the client treats both alike: it never retries.
Post(e) ==
    /\ posted' = Append(posted, e)
    /\ billed' \in {billed, billed \cup {e}}

\* The worker's select takes either branch when both are ready.
WorkerTake ==
    /\ alive
    /\ worker.at = "select"
    /\ queue # <<>>
    /\ worker' = [at |-> "post", hand |-> Head(queue)]
    /\ queue' = Tail(queue)
    /\ UNCHANGED <<done, closer, alive, accepted, dropped, posted, billed, closedAt>>

\* Mutant of WorkerPost: an event that may not have arrived goes back on the queue.
WorkerRequeues ==
    /\ alive
    /\ worker.at = "post"
    /\ \/ Post(worker.hand) /\ UNCHANGED queue
       \/ /\ Len(queue) < Capacity
          /\ queue' = Append(queue, worker.hand)
          /\ UNCHANGED <<posted, billed>>
    /\ worker' = [at |-> "select", hand |-> NoEvent]
    /\ UNCHANGED <<done, closer, alive, accepted, dropped, closedAt>>

\* Mutant of WorkerPost: the worker gives up when a post has failed.
WorkerGivesUp ==
    /\ alive
    /\ worker.at = "post"
    /\ Post(worker.hand)
    /\ worker' = [at |-> IF worker.hand \in billed' THEN "select" ELSE "returned",
                  hand |-> NoEvent]
    /\ UNCHANGED <<queue, done, closer, alive, accepted, dropped, closedAt>>

WorkerPost ==
    /\ alive
    /\ worker.at = "post"
    /\ Post(worker.hand)
    /\ worker' = [at |-> "select", hand |-> NoEvent]
    /\ UNCHANGED <<queue, done, closer, alive, accepted, dropped, closedAt>>

\* Mutant of WorkerReturn: it looks at c.done again before it posts.
WorkerReturnHolding ==
    /\ alive
    /\ worker.at \in {"select", "post"}
    /\ done
    /\ worker' = [at |-> "returned", hand |-> NoEvent]
    /\ UNCHANGED <<queue, done, closer, alive, accepted, dropped, posted, billed, closedAt>>

WorkerReturn ==
    /\ alive
    /\ worker.at = "select"
    /\ done
    /\ worker' = [at |-> "returned", hand |-> NoEvent]
    /\ UNCHANGED <<queue, done, closer, alive, accepted, dropped, posted, billed, closedAt>>

\* Close is called once (a second close(c.done) panics).
Close ==
    /\ alive
    /\ closer.at = "idle"
    /\ done' = TRUE
    /\ closer' = [at |-> "drain", hand |-> NoEvent]
    /\ closedAt' = Len(accepted)
    /\ UNCHANGED <<queue, worker, alive, accepted, dropped, posted, billed>>

DrainTake ==
    /\ alive
    /\ closer.at = "drain"
    /\ queue # <<>>
    /\ closer' = [at |-> "post", hand |-> Head(queue)]
    /\ queue' = Tail(queue)
    /\ UNCHANGED <<done, worker, alive, accepted, dropped, posted, billed, closedAt>>

DrainPost ==
    /\ alive
    /\ closer.at = "post"
    /\ Post(closer.hand)
    /\ closer' = [at |-> "drain", hand |-> NoEvent]
    /\ UNCHANGED <<queue, done, worker, alive, accepted, dropped, closedAt>>

\* Mutant of DrainReturn: one receive instead of a loop.
DrainReturnEarly ==
    /\ alive
    /\ closer.at = "drain"
    /\ closer' = [at |-> "returned", hand |-> NoEvent]
    /\ UNCHANGED <<queue, done, worker, alive, accepted, dropped, posted, billed, closedAt>>

\* The default branch of the drain loop: Close returns without waiting for the
\* worker.
DrainReturn ==
    /\ alive
    /\ closer.at = "drain"
    /\ queue = <<>>
    /\ closer' = [at |-> "returned", hand |-> NoEvent]
    /\ UNCHANGED <<queue, done, worker, alive, accepted, dropped, posted, billed, closedAt>>

\* The program that called Close ends: the worker goroutine ends with it.
Exit ==
    /\ alive
    /\ closer.at = "returned"
    /\ alive' = FALSE
    /\ UNCHANGED <<queue, done, worker, closer, accepted, dropped, posted, billed, closedAt>>

Next ==
    \/ \E e \in Event : Record(e)
    \/ WorkerTake
    \/ WorkerPost
    \/ WorkerReturn
    \/ Close
    \/ DrainTake
    \/ DrainPost
    \/ DrainReturn
    \/ Exit

\* The Go scheduler runs both goroutines; nobody has to call Record or Close,
\* or to exit.
Fairness ==
    /\ WF_vars(WorkerTake \/ WorkerPost \/ WorkerReturn)
    /\ WF_vars(DrainTake \/ DrainPost \/ DrainReturn)

Spec == Init /\ [][Next]_vars /\ Fairness

-----------------------------------------------------------------------------
\* The events that have left the queue but whose post has not returned.
InHand == ({worker.hand} \cup {closer.hand}) \ {NoEvent}

\* Accepted events are taken from the queue in order; Taken of them are gone.
Taken == Len(accepted) - Len(queue)

\* Every event Record accepted is at any time in exactly one place: on the
\* queue, in the hand of one of the two goroutines that compete for the queue,
\* or posted; so no event is posted twice or vanishes between worker and Close.
EventsConserved ==
    /\ Len(accepted) = Len(queue) + Len(posted)
                         + (IF worker.hand = NoEvent THEN 0 ELSE 1)
                         + (IF closer.hand = NoEvent THEN 0 ELSE 1)
    /\ Range(accepted) = Range(queue) \cup InHand \cup Range(posted)
    /\ billed \subseteq Range(posted)

\* Until Close starts to compete with the worker, usage reaches the tariff
\* service in the order in which it was recorded.
InOrderUntilClose ==
    ~done => /\ \A i \in 1..Len(posted) : posted[i] = accepted[i]
             /\ worker.hand # NoEvent => worker.hand = accepted[Taken]

\* "Close drains remaining events" (client.go:89), all but one: when it has returned,
\* every event accepted before the call has been posted, except for the one that the
\* worker may be posting, because Close does not wait for it.
CloseLeavesAtMostOne ==
    closer.at = "returned" =>
        \A i \in 1..closedAt : accepted[i] \in Range(posted) \cup {worker.hand}

\* An event accepted before Close is eventually posted, whether Close is called
\* or not, unless the process exits first.
AcceptedIsPosted ==
    \A e \in Event : (e \in Range(accepted) /\ ~done) ~> (e \in Range(posted) \/ ~alive)

=============================================================================
