--------------------------- MODULE ShardDirectory ---------------------------
(***************************************************************************)
(* What cluster/partitioned.go promises the readers of the shard map: one  *)
(* history of assignments, decided one after the other and never taken     *)
(* back.  Every node holds one of them, or none yet; while it runs it only *)
(* moves forward, and a restart takes it back to where it knows none.      *)
(***************************************************************************)
EXTENDS Naturals

CONSTANTS
    Node,
    Fresh     \* what a node may hold before it knows an assignment

VARIABLES
    history,  \* the assignments, by numbers that grow with every decision
    seen,     \* the numbers of the decisions each node has followed
    held      \* the assignment each node answers from

vars == <<history, seen, held>>

Init ==
    /\ DOMAIN history = {}
    /\ seen = [n \in Node |-> {}]
    /\ held \in [Node -> Fresh]

Decide ==
    /\ \E i \in DOMAIN history' :
          /\ DOMAIN history' = DOMAIN history \cup {i}
          /\ \A j \in DOMAIN history : j < i
    /\ \A j \in DOMAIN history : history'[j] = history[j]
    /\ UNCHANGED <<seen, held>>

\* One assignment further, or several at once from a snapshot.
Follow(n) ==
    \E k \in DOMAIN history \ seen[n] :
        /\ seen' = [seen EXCEPT ![n] = {i \in DOMAIN history : i <= k}]
        /\ \A i \in seen[n] : i < k
        /\ held' = [held EXCEPT ![n] = history[k]]
        /\ UNCHANGED history

\* n knows no assignment (any more).
Restart(n) ==
    /\ seen' = [seen EXCEPT ![n] = {}]
    /\ \E f \in Fresh : held' = [held EXCEPT ![n] = f]
    /\ UNCHANGED history

Next ==
    \/ Decide
    \/ \E n \in Node : Follow(n) \/ Restart(n)

Spec == Init /\ [][Next]_vars

=============================================================================
