---------------------------- MODULE UsageOutbox ----------------------------
(***************************************************************************)
(* What billing/client.go promises a service: a usage event is accepted or *)
(* dropped at once; an accepted event waits until it is posted, once.  The *)
(* process may end with events still waiting, but of those accepted before *)
(* it began to close at most one, unless it is aborted.                    *)
(***************************************************************************)
CONSTANT Event

VARIABLES
    waiting,  \* accepted, not yet posted
    gone,     \* posted
    refused,  \* dropped when they were offered
    late,     \* the waiting or posted events accepted after closing began
    status    \* "open", "closing", "over", "aborted"

vars == <<waiting, gone, refused, late, status>>

Init ==
    /\ waiting = {}
    /\ gone = {}
    /\ refused = {}
    /\ late = {}
    /\ status = "open"

Running == status \in {"open", "closing"}

Offer(e) ==
    /\ Running
    /\ e \notin waiting \cup gone \cup refused
    /\ \/ /\ waiting' = waiting \cup {e}
          /\ late' = IF status = "closing" THEN late \cup {e} ELSE late
          /\ UNCHANGED refused
       \/ /\ refused' = refused \cup {e}
          /\ UNCHANGED <<waiting, late>>
    /\ UNCHANGED <<gone, status>>

Post(e) ==
    /\ Running
    /\ e \in waiting
    /\ waiting' = waiting \ {e}
    /\ gone' = gone \cup {e}
    /\ UNCHANGED <<refused, late, status>>

BeginClose ==
    /\ status = "open"
    /\ status' = "closing"
    /\ UNCHANGED <<waiting, gone, refused, late>>

End ==
    /\ status = "closing"
    /\ \A e, f \in waiting \ late : e = f
    /\ status' = "over"
    /\ UNCHANGED <<waiting, gone, refused, late>>

\* The process is ended without its consent: whatever waits is lost.
Abort ==
    /\ Running
    /\ status' = "aborted"
    /\ UNCHANGED <<waiting, gone, refused, late>>

Next ==
    \/ \E e \in Event : Offer(e) \/ Post(e)
    \/ BeginClose
    \/ End
    \/ Abort

Spec == Init /\ [][Next]_vars

=============================================================================
