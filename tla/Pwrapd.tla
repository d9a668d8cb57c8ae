------------------------------- MODULE Pwrapd -------------------------------
(***************************************************************************)
(* The life of a pwrapd process: main's startup and its two ways out, the  *)
(* HTTP server, the realtime hub's LISTEN loop, the sweep ticker and the   *)
(* requests, all sharing one connection pool.                              *)
(*                                                                         *)
(* Realtime says what the hub does with its notifications and Tenancy what *)
(* sweeps and requests do with their statements; here they hold and        *)
(* release connections.                                                    *)
(***************************************************************************)
EXTENDS Naturals, FiniteSets

CONSTANTS Request,  \* requests in flight at once
          MaxConns  \* size of the pool

\* A hub that hydrates holds two connections.
ASSUME PoolAssumption == MaxConns \in Nat /\ MaxConns >= 2

VARIABLES main,        \* where main's run function is
          signalled,   \* SIGTERM or SIGINT has cancelled ctx
          errCh,       \* the server goroutine has sent its error
          hub,         \* the hub's goroutine
          hubCancel,   \* the hub's loop context is cancelled
          sweeper,     \* the sweep goroutine
          req,         \* request handlers
          poolClosed   \* pool.Close has begun

vars == <<main, signalled, errCh, hub, hubCancel, sweeper, req, poolClosed>>

TypeOK ==
    /\ main \in {"startup", "serving", "shutdown", "stopHub", "waitHub",
                 "deferred", "closing", "exited"}
    /\ signalled \in BOOLEAN
    /\ errCh \in BOOLEAN
    /\ hub \in {"off", "acquire", "waiting", "lookup", "hydrating", "backoff",
               "done", "gaveUp"}
    /\ hubCancel \in BOOLEAN
    /\ sweeper \in {"off", "acquire", "holding", "sleeping", "done"}
    /\ req \in [Request -> {"idle", "acquire", "holding"}]
    /\ poolClosed \in BOOLEAN

Init == /\ main = "startup"
        /\ signalled = FALSE
        /\ errCh = FALSE
        /\ hub = "off"
        /\ hubCancel = FALSE
        /\ sweeper = "off"
        /\ req = [r \in Request |-> "idle"]
        /\ poolClosed = FALSE

HubHolds == CASE hub = "hydrating" -> 2
              [] hub \in {"waiting", "lookup"} -> 1
              [] OTHER -> 0
Held == HubHolds + (IF sweeper = "holding" THEN 1 ELSE 0)
                 + Cardinality({r \in Request : req[r] = "holding"})
CanAcquire == ~poolClosed /\ Held < MaxConns
SweepCancelled == signalled \/ main \in {"closing", "exited"}

(***************************************************************************)
(* main.run                                                                *)
(***************************************************************************)

\* NewServer starts the hub; then the sweeper and the HTTP server start.
Startup == /\ main = "startup"
           /\ main' = "serving"
           /\ hub' = "acquire"
           /\ sweeper' = "acquire"
           /\ UNCHANGED <<signalled, errCh, hubCancel, req, poolClosed>>

\* Bootstrapping the schema or EnsureRoles fails: return, with only the pool up.
StartupFails == /\ main = "startup"
                /\ main' = "deferred"
                /\ UNCHANGED <<signalled, errCh, hub, hubCancel, sweeper, req, poolClosed>>

Signal == /\ ~signalled
          /\ signalled' = TRUE
          /\ UNCHANGED <<main, errCh, hub, hubCancel, sweeper, req, poolClosed>>

\* ListenAndServe returns: the address is in use, or accepting fails.
ListenFails == /\ main = "serving"
               /\ ~errCh
               /\ errCh' = TRUE
               /\ UNCHANGED <<main, signalled, hub, hubCancel, sweeper, req, poolClosed>>

TakeSignal == /\ main = "serving"
              /\ signalled
              /\ main' = "shutdown"
              /\ UNCHANGED <<signalled, errCh, hub, hubCancel, sweeper, req, poolClosed>>

\* "return err": nothing between here and the deferred calls.
TakeError == /\ main = "serving"
             /\ errCh
             /\ main' = "deferred"
             /\ UNCHANGED <<signalled, errCh, hub, hubCancel, sweeper, req, poolClosed>>

\* Shutdown returns when no request is in flight or after 10 s.
ShutdownReturns ==
    /\ main = "shutdown"
    /\ main' = "stopHub"
    /\ UNCHANGED <<signalled, errCh, hub, hubCancel, sweeper, req, poolClosed>>

StopHub_Skipped ==
    /\ main = "stopHub"
    /\ main' = "deferred"
    /\ UNCHANGED <<signalled, errCh, hub, hubCancel, sweeper, req, poolClosed>>
StopHub_NoWait ==
    /\ main = "stopHub"
    /\ main' = "deferred"
    /\ hubCancel' = TRUE
    /\ UNCHANGED <<signalled, errCh, hub, sweeper, req, poolClosed>>
\* Stop cancels the loop's context and then waits for the goroutine.
StopHub == /\ main = "stopHub"
           /\ main' = "waitHub"
           /\ hubCancel' = TRUE
           /\ UNCHANGED <<signalled, errCh, hub, sweeper, req, poolClosed>>
\* The goroutine closes done whichever way it has ended.
HubStopped == /\ main = "waitHub"
              /\ hub \in {"done", "gaveUp"}
              /\ main' = "deferred"
              /\ UNCHANGED <<signalled, errCh, hub, hubCancel, sweeper, req, poolClosed>>

\* The deferred stopSweep, then pool.Close, which hands out nothing any more and
\* waits for every connection.
ClosePool == /\ main = "deferred"
             /\ main' = "closing"
             /\ poolClosed' = TRUE
             /\ UNCHANGED <<signalled, errCh, hub, hubCancel, sweeper, req>>
Exit == /\ main = "closing"
        /\ Held = 0
        /\ main' = "exited"
        /\ UNCHANGED <<signalled, errCh, hub, hubCancel, sweeper, req, poolClosed>>

(***************************************************************************)
(* The hub's goroutine.                                                    *)
(***************************************************************************)

Hub(from, to) == /\ hub = from
                 /\ hub' = to
                 /\ UNCHANGED <<main, signalled, errCh, hubCancel, sweeper, req, poolClosed>>

HubAcquire == ~hubCancel /\ CanAcquire /\ Hub("acquire", "waiting")
HubNotified == ~hubCancel /\ Hub("waiting", "lookup")
\* hydrate queries through the pool, next to the LISTEN connection.
HubLookup == ~hubCancel /\ CanAcquire /\ Hub("lookup", "hydrating")
HubFanout == Hub("hydrating", "waiting")
\* Cancelled or closed, Acquire and the lookup fail; a failed lookup is skipped.
HubAcquireFails == ~hubCancel /\ poolClosed /\ Hub("acquire", "backoff")
HubLookupFails == (hubCancel \/ poolClosed) /\ Hub("lookup", "waiting")
HubBackoff_Returns == ~hubCancel /\ Hub("backoff", "done")
HubBackoff == ~hubCancel /\ Hub("backoff", "acquire")
\* The server closes the LISTEN connection.
HubLosesConn == Hub("waiting", "backoff")
\* Connecting or LISTEN fails, the database being away.
HubUnreachable == ~hubCancel /\ CanAcquire /\ Hub("acquire", "backoff")
\* A connection attempt meets a deadline of its own: the loop takes that for the
\* end of its context and returns for good.
HubTimesOut == ~hubCancel /\ CanAcquire /\ Hub("acquire", "gaveUp")
HubFault == HubLosesConn \/ HubUnreachable \/ HubTimesOut
HubCancelled == hubCancel /\ (Hub("acquire", "done") \/ Hub("waiting", "done")
                                                     \/ Hub("backoff", "done"))
HubStep == \/ HubAcquire \/ HubLookup \/ HubFanout \/ HubAcquireFails
           \/ HubLookupFails \/ HubBackoff \/ HubCancelled

(***************************************************************************)
(* The sweeper and the requests.                                           *)
(***************************************************************************)

Sweeper(from, to) == /\ sweeper = from
                     /\ sweeper' = to
                     /\ UNCHANGED <<main, signalled, errCh, hub, hubCancel, req, poolClosed>>

SweepAcquire == ~SweepCancelled /\ CanAcquire /\ Sweeper("acquire", "holding")
SweepRelease == Sweeper("holding", "acquire") \/ Sweeper("holding", "sleeping")
SweepTick == ~SweepCancelled /\ Sweeper("sleeping", "acquire")
SweepStops == SweepCancelled /\ (Sweeper("acquire", "done") \/ Sweeper("sleeping", "done"))
SweepStep == SweepAcquire \/ SweepRelease \/ SweepTick \/ SweepStops

Req(r, from, to) == /\ req[r] = from
                    /\ req' = [req EXCEPT ![r] = to]
                    /\ UNCHANGED <<main, signalled, errCh, hub, hubCancel, sweeper, poolClosed>>

Arrive(r) == main = "serving" /\ ~errCh /\ Req(r, "idle", "acquire")
ReqAcquire(r) == CanAcquire /\ Req(r, "acquire", "holding")
\* The statement or transaction ends, or the 30 s of the request are up.
ReqRelease(r) == Req(r, "holding", "acquire") \/ Req(r, "holding", "idle")
ReqGivesUp(r) == Req(r, "acquire", "idle")
ReqStep(r) == ReqAcquire(r) \/ ReqRelease(r) \/ ReqGivesUp(r)

MainStep == \/ Startup \/ TakeSignal \/ TakeError \/ ShutdownReturns
            \/ StopHub \/ HubStopped \/ ClosePool \/ Exit

Done == main = "exited" /\ UNCHANGED vars

Next == \/ MainStep
        \/ StartupFails
        \/ Signal
        \/ ListenFails
        \/ HubStep
        \/ HubNotified
        \/ HubFault
        \/ SweepStep
        \/ \E r \in Request : Arrive(r) \/ ReqStep(r)
        \/ Done

Spec == Init /\ [][Next]_vars

\* Goroutines run; a request ends within its 30 s; waiters on the pool are served
\* first come, first served; a hub that keeps trying finds the database there at
\* some attempt, unless one times out.
Fairness(requests) ==
    /\ WF_vars(MainStep)
    /\ WF_vars(HubStep)
    /\ SF_vars(HubAcquire)
    /\ SF_vars(HubLookup)
    /\ WF_vars(SweepStep)
    /\ SF_vars(Sweeper("holding", "sleeping"))
    /\ \A r \in requests : /\ WF_vars(ReqRelease(r))
                           /\ SF_vars(ReqGivesUp(r) \/ Req(r, "holding", "idle"))

FairSpec == Spec /\ Fairness(Request)

-----------------------------------------------------------------------------
\* "Stop the realtime hub before the deferred pool.Close() runs": unless the HTTP
\* server failed, the pool never waits for a connection the hub means to keep.
HubReleasedFirst == poolClosed /\ ~errCh => hub \in {"off", "done", "gaveUp"}

\* A signal ends the process, whatever the hub, the sweeper and the requests were
\* doing with the pool, unless the HTTP server fails meanwhile.
SignalExits == signalled ~> (main = "exited" \/ errCh)

\* The failure of the HTTP server ends the process.
ErrorExits == errCh ~> main = "exited"

\* "Errors during LISTEN trigger a brief backoff + reconnect", but for a deadline:
\* while pwrapd serves, a hub that has not given up comes back to waiting for
\* notifications, though attempts fail and requests and sweeps compete for the pool.
HubComesBack == main = "serving" ~> (hub \in {"waiting", "gaveUp"} \/ main # "serving")
=============================================================================
