------------------------------ MODULE Service ------------------------------
(***************************************************************************)
(* A service built with the library: app.ListenAndWait of app/app.go, an   *)
(* HTTP server whose handlers sit behind the middleware of TokenCache and  *)
(* record their usage with the client of BillingClient, whose Close is     *)
(* the service's cleanup function.  A request records one event, named     *)
(* like the request.                                                       *)
(***************************************************************************)
EXTENDS BillingClient, TokenCache

ASSUME RequestAssumption == Request = Event

VARIABLE server  \* where ListenAndWait is

serviceVars == <<vars, tokenVars, server>>

ServiceTypeOK ==
    /\ TypeOK
    /\ TokenTypeOK
    /\ server \in {"serving", "cleanup", "shutdown", "returned"}

ServiceInit ==
    /\ Init
    /\ TokenInit
    /\ server = "serving"

\* The listener is open until srv.Shutdown closes it, during the cleanup too.
Accept(r) ==
    /\ alive
    /\ server \in {"serving", "cleanup"}
    /\ Lookup(r)
    /\ UNCHANGED <<vars, server>>

Authenticate ==
    /\ alive
    /\ TokenStep
    /\ UNCHANGED <<vars, server>>

\* A handler the middleware has let through records what it used.
HandlerRecords(r) ==
    /\ auth[r] = "granted"
    /\ Record(r)
    /\ UNCHANGED <<tokenVars, server>>

\* The worker and the goroutine in Close go on by themselves.
BillingStep ==
    /\ \/ WorkerTake \/ WorkerPost \/ WorkerReturn
       \/ DrainTake \/ DrainPost \/ DrainReturn
    /\ UNCHANGED <<tokenVars, server>>

\* SIGINT or SIGTERM: ListenAndWait calls the cleanup function.
Signal ==
    /\ server = "serving"
    /\ Close
    /\ server' = "cleanup"
    /\ UNCHANGED tokenVars

\* Mutant of BeginShutdown: it begins while the cleanup function still runs.
BeginShutdownAtOnce ==
    /\ alive
    /\ server = "cleanup"
    /\ server' = "shutdown"
    /\ UNCHANGED <<vars, tokenVars>>

\* The cleanup function has returned: srv.Shutdown closes the listener.
BeginShutdown ==
    /\ alive
    /\ server = "cleanup"
    /\ closer.at = "returned"
    /\ server' = "shutdown"
    /\ UNCHANGED <<vars, tokenVars>>

\* Shutdown waits for the running handlers, but for 5 s at most, and goes on with
\* some of them still running.
ShutdownReturns ==
    /\ alive
    /\ server = "shutdown"
    /\ server' = "returned"
    /\ UNCHANGED <<vars, tokenVars>>

\* Serve fails: its goroutine calls log.Fatalf, which ends the process where it
\* stands, without the cleanup function or in the middle of it.
ServeFails ==
    /\ alive
    /\ server # "returned"
    /\ alive' = FALSE
    /\ UNCHANGED <<queue, done, worker, closer, accepted, dropped, posted, billed, closedAt>>
    /\ UNCHANGED <<tokenVars, server>>

\* main returns after ListenAndWait, whatever Close is doing.
ServiceExit ==
    /\ server = "returned"
    /\ alive
    /\ alive' = FALSE
    /\ UNCHANGED <<queue, done, worker, closer, accepted, dropped, posted, billed, closedAt>>
    /\ UNCHANGED <<tokenVars, server>>

ServiceNext ==
    \/ \E r \in Request : Accept(r) \/ HandlerRecords(r)
    \/ Authenticate
    \/ BillingStep
    \/ Signal
    \/ BeginShutdown
    \/ ShutdownReturns
    \/ ServeFails
    \/ ServiceExit

ServiceSpec == ServiceInit /\ [][ServiceNext]_serviceVars /\ Fairness

-----------------------------------------------------------------------------
\* The service keeps the client's promise: what UsageOutbox says of accepted events
\* holds, whoever wins the race for the queue and whenever the process ends.  It is
\* over when ListenAndWait has returned, and aborted when Serve failed before.
Outbox == INSTANCE UsageOutbox WITH
    waiting <- Range(queue) \cup InHand,
    gone <- Range(posted),
    refused <- dropped,
    late <- {accepted[i] : i \in {j \in DOMAIN accepted : done /\ j > closedAt}},
    status <- IF ~alive THEN IF server = "returned" THEN "over" ELSE "aborted"
              ELSE IF done THEN "closing" ELSE "open"

ImplementsOutbox == Outbox!Spec

=============================================================================
