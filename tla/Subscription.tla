---------------------------- MODULE Subscription ----------------------------
(***************************************************************************)
(* The life of an SDK subscription against the pwrapd of Pwrapd: the call  *)
(* of Subscribe, the goroutine that dials, reads and dials again, the      *)
(* server's handler, whose queries compete for the pool with the hub, the  *)
(* sweeper and other requests, and the application that reads Changes or   *)
(* stops reading it.                                                       *)
(*                                                                         *)
(* Which events arrive is Realtime's matter; here an event is what keeps   *)
(* the goroutine busy.  The requests of Pwrapd are the upgrades of         *)
(* subscriptions, one each.  The key travels in the URL, so no rate limit  *)
(* by bearer applies.                                                      *)
(***************************************************************************)
EXTENDS Pwrapd

CONSTANT MaxFaults  \* bound: timeouts, connections that fail, a revocation

ASSUME SubscriptionAssumption == MaxFaults \in Nat

VARIABLES caller,     \* the application's call of Subscribe, and its Close
          loop,       \* runLoop's goroutine
          ws,         \* the server's side of the connection
          keyLive,    \* the API key is not revoked
          faults

clientVars == <<caller, loop>>
subVars == <<clientVars, ws, keyLive, faults>>

SubscriptionTypeOK ==
    /\ TypeOK
    /\ caller \in [Request -> {"before", "waiting", "returned", "gaveUp", "closed"}]
    /\ loop \in [Request -> {"off", "dial", "upgrade", "read", "send", "backoff", "stopped", "failed"}]
    /\ ws \in [Request -> {"none", "verifying", "touching", "verified", "refused", "registered", "open", "ended"}]
    /\ keyLive \in BOOLEAN
    /\ faults \in 0..MaxFaults

SubscriptionInit ==
    /\ Init
    /\ caller = [s \in Request |-> "before"]
    /\ loop = [s \in Request |-> "off"]
    /\ ws = [s \in Request |-> "none"]
    /\ keyLive = TRUE
    /\ faults = 0

Fault == faults < MaxFaults /\ faults' = faults + 1
Reachable == main = "serving" /\ ~errCh

(***************************************************************************)
(* The application.                                                        *)
(***************************************************************************)

Subscribe(s) ==
    /\ caller[s] = "before"
    /\ caller' = [caller EXCEPT ![s] = "waiting"]
    /\ loop' = [loop EXCEPT ![s] = "dial"]
    /\ UNCHANGED <<vars, ws, keyLive, faults>>

\* The caller's context is done first; Subscribe closes what it opened.
SubscribeGivesUp(s) ==
    /\ caller[s] = "waiting"
    /\ caller' = [caller EXCEPT ![s] = "gaveUp"]
    /\ UNCHANGED <<vars, loop, ws, keyLive, faults>>

\* A second Close does nothing.
Close(s) ==
    /\ caller[s] = "returned"
    /\ caller' = [caller EXCEPT ![s] = "closed"]
    /\ UNCHANGED <<vars, loop, ws, keyLive, faults>>

\* The context of the subscription is done.  A bug: giving up closes nothing.
Cancelled_ByClose(s) == caller[s] = "closed"
Cancelled(s) == caller[s] \in {"gaveUp", "closed"}

(***************************************************************************)
(* The subscription's goroutine.                                           *)
(***************************************************************************)

Moves(s, pc) == loop' = [loop EXCEPT ![s] = pc] /\ UNCHANGED keyLive
Goto(s, pc) == Moves(s, pc) /\ UNCHANGED caller
Hangup(s) == ws' = [ws EXCEPT ![s] = "none"]

\* The top of the loop, when the context is cancelled.
Stop(s) ==
    /\ loop[s] = "dial"
    /\ Cancelled(s)
    /\ Goto(s, "stopped")
    /\ UNCHANGED <<vars, ws, faults>>

\* The upgrade request arrives.
Dial(s) ==
    /\ loop[s] = "dial"
    /\ ~Cancelled(s)
    /\ Arrive(s)
    /\ Goto(s, "upgrade")
    /\ ws' = [ws EXCEPT ![s] = "verifying"]
    /\ UNCHANGED <<faults>>

\* Nobody answers.  Every error of Dial is tried again.
DialFails(s) ==
    /\ loop[s] = "dial"
    /\ ~Cancelled(s)
    /\ ~Reachable
    /\ Goto(s, "backoff")
    /\ UNCHANGED <<vars, ws, faults>>

\* The server's first frame closes helloCh and Subscribe returns.
ReadHello(s) ==
    /\ loop[s] = "upgrade"
    /\ ws[s] \in {"open", "ended"}
    /\ Moves(s, "read")
    /\ caller' = [caller EXCEPT ![s] = IF @ = "waiting" THEN "returned" ELSE @]
    /\ UNCHANGED <<vars, ws, faults>>

\* Any other status, a 401 included, a closed connection and a cancelled context
\* are errors to try again after.
Broken(s) == \/ ws[s] = "refused"
             \/ loop[s] = "read" /\ (ws[s] = "ended" \/ Cancelled(s))
Fails_Graceful(s) ==
    /\ loop[s] \in {"upgrade", "read"}
    /\ Broken(s)
    /\ Goto(s, IF loop[s] = "read" THEN "stopped" ELSE "backoff")
    /\ Hangup(s)
    /\ UNCHANGED <<vars, faults>>
Fails(s) ==
    /\ loop[s] \in {"upgrade", "read"}
    /\ Broken(s)
    /\ Goto(s, "backoff")
    /\ Hangup(s)
    /\ UNCHANGED <<vars, faults>>

\* Cancelled while it dials.  The server finds out by itself.
DialCancelled(s) ==
    /\ loop[s] = "upgrade"
    /\ Cancelled(s)
    /\ Goto(s, "backoff")
    /\ UNCHANGED <<vars, ws, faults>>

\* The network fails while dialling or reading, or 5 s pass without a hello.
NetworkFails(s) ==
    /\ loop[s] \in {"dial", "upgrade", "read"}
    /\ Fault
    /\ Goto(s, "backoff")
    /\ IF loop[s] = "read" THEN Hangup(s) ELSE UNCHANGED ws
    /\ UNCHANGED vars

\* The handler writes an event from its channel and the goroutine reads it; a
\* cancelled context closes the connection.
Event(s) ==
    /\ loop[s] = "read"
    /\ ws[s] = "open"
    /\ ~Cancelled(s)
    /\ Goto(s, "send")
    /\ UNCHANGED <<vars, ws, faults>>

\* select: the event goes to Changes, if the application goes on receiving or
\* there is room, or the context ends the wait, and with it the loop.
Send(s) ==
    /\ loop[s] = "send"
    /\ Goto(s, "read")
    /\ UNCHANGED <<vars, ws, faults>>
SendStops(s) ==
    /\ loop[s] = "send"
    /\ Cancelled(s)
    /\ Goto(s, "stopped")
    /\ Hangup(s)
    /\ UNCHANGED <<vars, faults>>

\* Somebody between the two closes with status 1008; pwrapd never does.
PolicyViolation(s) ==
    /\ loop[s] = "read"
    /\ ws[s] = "open"
    /\ Fault
    /\ Goto(s, "failed")
    /\ Hangup(s)
    /\ UNCHANGED vars

Backoff(s) ==
    /\ loop[s] = "backoff"
    /\ \/ Goto(s, "dial")
       \/ Cancelled(s) /\ Goto(s, "stopped")
    /\ UNCHANGED <<vars, ws, faults>>

(***************************************************************************)
(* The server's handler.                                                   *)
(***************************************************************************)

Handler(s, pc, next) == /\ ws[s] = pc
                        /\ ws' = [ws EXCEPT ![s] = next]
                        /\ UNCHANGED <<clientVars, keyLive>>
\* The end of the connection, which the client sees if it is still there.
Refused(s) == IF loop[s] = "upgrade" THEN "refused" ELSE "none"

Acquires(s) == ReqAcquire(s) /\ UNCHANGED subVars

\* keys.Verify's lookup and its UPDATE of last_used_at, then projects.Get, each
\* with a connection of its own.
Verify(s) ==
    /\ \/ keyLive /\ Handler(s, "verifying", "touching")
       \/ Handler(s, "touching", "verified")
    /\ Req(s, "holding", "acquire")
    /\ UNCHANGED faults
Unauthorized(s) ==
    /\ ~keyLive
    /\ Handler(s, "verifying", Refused(s))
    /\ Req(s, "holding", "idle")
    /\ UNCHANGED faults
NotFound(s) ==
    /\ Handler(s, "verified", Refused(s))
    /\ Req(s, "holding", "idle")
    /\ Fault
\* Accept, and the registration with the hub.
Accept(s) ==
    /\ Handler(s, "verified", "registered")
    /\ Req(s, "holding", "idle")
    /\ UNCHANGED faults

\* The pool is closed, or the request's 30 s pass in its queue.  The error of the
\* UPDATE is ignored, but projects.Get then fails for the same reason.
Unserved(s) ==
    /\ \E pc \in {"verifying", "touching", "verified"} : Handler(s, pc, Refused(s))
    /\ ReqGivesUp(s)
    /\ \/ poolClosed /\ UNCHANGED faults
       \/ Fault

Hello(s) ==
    /\ main # "exited"
    /\ Handler(s, "registered", "open")
    /\ UNCHANGED <<vars, faults>>
HelloFails(s) ==
    /\ Handler(s, "registered", Refused(s))
    /\ Fault
    /\ UNCHANGED vars

\* The 30 s of the request, which the connection's whole life counts against, a
\* write or a ping that takes 5 s.
HandlerEnds(s) ==
    /\ Handler(s, "open", "ended")
    /\ UNCHANGED <<vars, faults>>

\* The reader notices that the client has gone.
ClientGone(s) ==
    /\ loop[s] \in {"backoff", "stopped", "failed"}
    /\ Handler(s, "registered", "none") \/ Handler(s, "open", "none")
    /\ UNCHANGED <<vars, faults>>

RevokeKey ==
    /\ keyLive
    /\ Fault
    /\ keyLive' = FALSE
    /\ UNCHANGED <<vars, clientVars, ws>>

(***************************************************************************)
(* The rest of pwrapd.  Connections end with the process: Shutdown does    *)
(* not wait for those that were taken over from the HTTP server.           *)
(***************************************************************************)

ProcessEnds ==
    /\ Exit
    /\ ws' = [s \in Request |-> IF loop[s] \in {"upgrade", "read", "send"} THEN "refused" ELSE "none"]
    /\ UNCHANGED <<clientVars, keyLive, faults>>

PwrapdStep ==
    /\ \/ MainStep /\ main' # "exited"
       \/ StartupFails \/ Signal \/ ListenFails
       \/ HubStep \/ HubNotified \/ HubFault
       \/ SweepStep
       \/ Done
    /\ UNCHANGED subVars

LoopStep(s) == \/ Stop(s) \/ Dial(s) \/ DialFails(s) \/ ReadHello(s)
               \/ Fails(s) \/ DialCancelled(s) \/ SendStops(s) \/ Backoff(s)
HandlerStep(s) == Verify(s) \/ Unauthorized(s) \/ Accept(s) \/ Hello(s) \/ ClientGone(s)

SubscriptionNext ==
    \/ PwrapdStep
    \/ ProcessEnds
    \/ RevokeKey
    \/ \E s \in Request :
         \/ Subscribe(s) \/ SubscribeGivesUp(s) \/ Close(s)
         \/ LoopStep(s) \/ NetworkFails(s) \/ PolicyViolation(s) \/ Event(s) \/ Send(s)
         \/ HandlerStep(s) \/ Acquires(s) \/ NotFound(s) \/ Unserved(s)
         \/ HelloFails(s) \/ HandlerEnds(s)

SubscriptionSpec == SubscriptionInit /\ [][SubscriptionNext]_<<vars, subVars>>

\* The goroutine and the handler run too; a waiter on the pool is served in turn.
FairSubscriptionSpec ==
    /\ SubscriptionSpec
    /\ Fairness(Request)
    /\ \A s \in Request : /\ WF_subVars(LoopStep(s))
                          /\ WF_subVars(HandlerStep(s))
                          /\ SF_vars(Acquires(s))

-----------------------------------------------------------------------------
\* A subscription that is closed, or whose Subscribe was given up, ends: Changes
\* is closed and the hub forgets it, though the application may have left an
\* event in the goroutine's hands, the dial may be waiting for the pool and
\* pwrapd may be going down.
ClosedEnds ==
    \A s \in Request : caller[s] \in {"gaveUp", "closed"} ~>
        /\ loop[s] \in {"stopped", "failed"}
        /\ ws[s] \notin {"registered", "open"}

\* "Auto-reconnects on transient WebSocket failures": a subscription that nobody
\* closed comes back to reading, after the 30 s that each connection lasts and
\* after failures, while pwrapd serves and the key is good.
ComesBack ==
    \A s \in Request : caller[s] = "returned" ~> \/ loop[s] \in {"read", "send"}
                                             \/ Cancelled(s) \/ loop[s] = "failed"
                                             \/ ~keyLive \/ ~Reachable
=============================================================================
