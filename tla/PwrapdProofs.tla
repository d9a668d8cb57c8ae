---------------------------- MODULE PwrapdProofs ----------------------------
(***************************************************************************)
(* What is proved about Pwrapd for any pool and any number of requests: on *)
(* a signal, the hub has let go of its connection before the pool closes;  *)
(* the pool is never overdrawn, the hub never waits for itself to release  *)
(* a connection, and the process exits with all of them back.              *)
(* Of Subscription, whose upgrades are the requests: it is an instance,    *)
(* its handlers keep no connection once the upgrade is answered, the SDK's *)
(* goroutine stops for its application only, and neither end waits for one *)
(* that has forgotten it.                                                  *)
(***************************************************************************)
EXTENDS Subscription, FiniteSetTheorems, TLAPS

\* Where run is tells what has become of the hub: nothing started it before
\* startup is over, and only Stop's wait or a failed server leads on.
Before == {"startup"}
Closing == {"deferred", "closing", "exited"}
HubFollowsMain ==
    /\ main \in Before => hub = "off"
    /\ main \in Closing /\ ~errCh => hub \in {"off", "done", "gaveUp"}
    /\ poolClosed <=> main \in {"closing", "exited"}

IInv == TypeOK /\ HubFollowsMain

LEMMA TypeInit == Init => TypeOK
BY DEF Init, TypeOK

LEMMA TypeStep == TypeOK /\ [Next]_vars => TypeOK'
<1> SUFFICES ASSUME TypeOK, [Next]_vars PROVE TypeOK'
  OBVIOUS
<1> USE DEF TypeOK
<1>1. CASE MainStep
  BY <1>1 DEF MainStep, Startup, TakeSignal, TakeError, ShutdownReturns, StopHub,
              HubStopped, ClosePool, Exit
<1>2. CASE StartupFails \/ Signal \/ ListenFails
  BY <1>2 DEF StartupFails, Signal, ListenFails
<1>3. CASE HubStep \/ HubNotified \/ HubFault
  BY <1>3 DEF HubStep, HubNotified, HubFault, HubLosesConn, HubUnreachable, HubTimesOut,
              HubAcquire, HubLookup, HubFanout,
              HubAcquireFails, HubLookupFails, HubBackoff, HubCancelled, Hub
<1>4. CASE SweepStep
  BY <1>4 DEF SweepStep, SweepAcquire, SweepRelease, SweepTick, SweepStops, Sweeper
<1>5. ASSUME NEW r \in Request, Arrive(r) \/ ReqStep(r) PROVE TypeOK'
  BY <1>5 DEF Arrive, ReqStep, ReqAcquire, ReqRelease, ReqGivesUp, Req
<1>6. CASE UNCHANGED vars
  BY <1>6 DEF vars
<1> QED
  BY <1>1, <1>2, <1>3, <1>4, <1>5, <1>6 DEF Next, Done

\* Pwrapd's variables have their types.
THEOREM TypeCorrect == Spec => []TypeOK
BY TypeInit, TypeStep, PTL DEF Spec

\* The hub's goroutine neither starts by itself nor comes back from the dead.
LEMMA HubMoves ==
    ASSUME HubStep \/ HubNotified \/ HubFault
    PROVE  /\ hub \notin {"off", "done", "gaveUp"}
           /\ UNCHANGED <<main, errCh, poolClosed>>
BY DEF HubStep, HubNotified, HubFault, HubLosesConn, HubUnreachable, HubTimesOut,
       HubAcquire, HubLookup, HubFanout,
       HubAcquireFails, HubLookupFails, HubBackoff, HubCancelled, Hub

LEMMA HubFollowsStep == IInv /\ [Next]_vars => HubFollowsMain'
<1> SUFFICES ASSUME IInv, [Next]_vars PROVE HubFollowsMain'
  OBVIOUS
<1> USE DEF IInv, TypeOK, HubFollowsMain, Before, Closing
<1>1. CASE MainStep
  BY <1>1 DEF MainStep, Startup, TakeSignal, TakeError, ShutdownReturns, StopHub,
              HubStopped, ClosePool, Exit
<1>2. CASE StartupFails \/ Signal \/ ListenFails
  BY <1>2 DEF StartupFails, Signal, ListenFails
<1>3. CASE HubStep \/ HubNotified \/ HubFault
  BY <1>3, HubMoves
<1>4. CASE SweepStep
  BY <1>4 DEF SweepStep, SweepAcquire, SweepRelease, SweepTick, SweepStops, Sweeper
<1>5. ASSUME NEW r \in Request, Arrive(r) \/ ReqStep(r) PROVE HubFollowsMain'
  BY <1>5 DEF Arrive, ReqStep, ReqAcquire, ReqRelease, ReqGivesUp, Req
<1>6. CASE UNCHANGED vars
  BY <1>6 DEF vars
<1> QED
  BY <1>1, <1>2, <1>3, <1>4, <1>5, <1>6 DEF Next, Done

\* Where the hub is follows from where run is, in every state.
THEOREM HubInductive == Spec => []IInv
<1>1. Init => IInv
  BY TypeInit DEF Init, IInv, HubFollowsMain, Before, Closing
<1>2. IInv /\ [Next]_vars => IInv'
  BY TypeStep, HubFollowsStep DEF IInv
<1> QED
  BY <1>1, <1>2, PTL DEF Spec

\* "Stop the realtime hub before the deferred pool.Close() runs": on the way out
\* that a signal opens, StopHub's wait comes before pool.Close.
THEOREM HubStopsFirst == Spec => []HubReleasedFirst
<1>1. IInv => HubReleasedFirst
  BY DEF IInv, HubFollowsMain, Closing, HubReleasedFirst
<1> QED
  BY <1>1, HubInductive, PTL

(***************************************************************************)
(* The pool.                                                               *)
(***************************************************************************)

Using == {r \in Request : req[r] = "holding"}
SweeperHolds == IF sweeper = "holding" THEN 1 ELSE 0

\* The pool gives out no more connections than it has, and a process that has
\* exited has waited for all of them.
PoolAccount == /\ Held <= MaxConns
               /\ main = "exited" => Held = 0

PoolInv == /\ IsFiniteSet(Using)
           /\ main = "exited" => poolClosed
           /\ PoolAccount

LEMMA HeldIs ==
    ASSUME IsFiniteSet(Using)
    PROVE  /\ HubHolds \in 0..2 /\ SweeperHolds \in 0..1 /\ Cardinality(Using) \in Nat
           /\ Held = HubHolds + SweeperHolds + Cardinality(Using)
BY FS_CardinalityType DEF HubHolds, SweeperHolds, Held, Using

\* A request's step takes a connection if there is one, or gives one back.
LEMMA RequestHolds ==
    ASSUME TypeOK, IsFiniteSet(Using), NEW r \in Request, Arrive(r) \/ ReqStep(r)
    PROVE  /\ IsFiniteSet(Using)'
           /\ \/ Held' <= Held
              \/ CanAcquire /\ Held' = Held + 1
<1>1. UNCHANGED <<hub, sweeper>> /\ req \in [Request -> {"idle", "acquire", "holding"}]
  BY DEF Arrive, ReqStep, ReqAcquire, ReqRelease, ReqGivesUp, Req, TypeOK
<1>2. HubHolds' = HubHolds /\ SweeperHolds' = SweeperHolds
  BY <1>1 DEF HubHolds, SweeperHolds
<1>3. ASSUME IsFiniteSet(Using'), Cardinality(Using') <= Cardinality(Using)
      PROVE  IsFiniteSet(Using)' /\ Held' <= Held
  BY <1>2, <1>3, HeldIs, FS_CardinalityType DEF Held, Using, HubHolds, SweeperHolds
<1>4. CASE ReqAcquire(r)
  <2>1. CanAcquire /\ Using' = Using \cup {r} /\ r \notin Using
    BY <1>1, <1>4 DEF ReqAcquire, Req, Using
  <2>2. IsFiniteSet(Using') /\ Cardinality(Using') = Cardinality(Using) + 1
    BY <2>1, FS_AddElement
  <2>3. Held' = HubHolds' + SweeperHolds' + Cardinality(Using')
    BY DEF Held, Using, SweeperHolds
  <2> QED
    BY <1>2, <2>1, <2>2, <2>3, HeldIs
<1>5. CASE ReqRelease(r)
  <2>1. Using' = Using \ {r}
    BY <1>1, <1>5 DEF ReqRelease, Req, Using
  <2>2. /\ IsFiniteSet(Using \ {r})
        /\ Cardinality(Using \ {r}) = IF r \in Using THEN Cardinality(Using) - 1
                                                      ELSE Cardinality(Using)
    BY FS_RemoveElement
  <2>3. Cardinality(Using) \in Nat
    BY FS_CardinalityType
  <2>4. IsFiniteSet(Using') /\ Cardinality(Using') <= Cardinality(Using)
    BY <2>1, <2>2, <2>3
  <2> QED
    BY <1>3, <2>4
<1>6. CASE Arrive(r) \/ ReqGivesUp(r)
  <2>1. Using' = Using
    BY <1>1, <1>6 DEF Arrive, ReqGivesUp, Req, Using
  <2>2. IsFiniteSet(Using') /\ Cardinality(Using') <= Cardinality(Using)
    BY <2>1, FS_CardinalityType
  <2> QED
    BY <1>3, <2>2
<1> QED
  BY <1>4, <1>5, <1>6 DEF ReqStep

\* So does any other step.
LEMMA HoldsStep ==
    ASSUME IInv, IsFiniteSet(Using), [Next]_vars
    PROVE  /\ IsFiniteSet(Using)'
           /\ \/ Held' <= Held
              \/ CanAcquire /\ Held' = Held + 1
<1>0. Held' = HubHolds' + SweeperHolds' + Cardinality(Using')
  BY DEF Held, Using, SweeperHolds
<1>1. ASSUME UNCHANGED req,
             \/ HubHolds' + SweeperHolds' <= HubHolds + SweeperHolds
             \/ CanAcquire /\ HubHolds' + SweeperHolds' = HubHolds + SweeperHolds + 1,
             HubHolds' \in 0..2, SweeperHolds' \in 0..1
      PROVE  /\ IsFiniteSet(Using)'
             /\ \/ Held' <= Held
                \/ CanAcquire /\ Held' = Held + 1
  <2>1. Using' = Using
    BY <1>1 DEF Using
  <2> QED
    BY <1>0, <1>1, <2>1, HeldIs
<1>2. HubHolds' \in 0..2 /\ SweeperHolds' \in 0..1
  BY DEF HubHolds, SweeperHolds
<1>3. CASE MainStep \/ StartupFails \/ Signal \/ ListenFails
  <2>1. UNCHANGED req /\ (UNCHANGED hub \/ hub' = "acquire")
        /\ (UNCHANGED sweeper \/ sweeper' = "acquire")
    BY <1>3 DEF MainStep, Startup, TakeSignal, TakeError, ShutdownReturns, StopHub,
                HubStopped, ClosePool, Exit, StartupFails, Signal, ListenFails
  <2>2. HubHolds' <= HubHolds /\ SweeperHolds' <= SweeperHolds
    BY <2>1 DEF HubHolds, SweeperHolds
  <2> QED
    BY <1>1, <1>2, <2>1, <2>2, HeldIs
<1>4. CASE HubStep \/ HubNotified \/ HubFault
  <2>1. UNCHANGED <<req, sweeper>>
    BY <1>4 DEF HubStep, HubNotified, HubFault, HubLosesConn, HubUnreachable, HubTimesOut,
                HubAcquire, HubLookup, HubFanout,
                HubAcquireFails, HubLookupFails, HubBackoff, HubCancelled, Hub
  <2>2. HubHolds' <= HubHolds \/ (CanAcquire /\ HubHolds' = HubHolds + 1)
    BY <1>4 DEF HubStep, HubNotified, HubFault, HubLosesConn, HubUnreachable, HubTimesOut,
                HubAcquire, HubLookup, HubFanout,
                HubAcquireFails, HubLookupFails, HubBackoff, HubCancelled, Hub, HubHolds
  <2>3. SweeperHolds' = SweeperHolds
    BY <2>1 DEF SweeperHolds
  <2> QED
    BY <1>1, <1>2, <2>1, <2>2, <2>3, HeldIs
<1>5. CASE SweepStep
  <2>1. UNCHANGED <<req, hub>>
    BY <1>5 DEF SweepStep, SweepAcquire, SweepRelease, SweepTick, SweepStops, Sweeper
  <2>2. SweeperHolds' <= SweeperHolds \/ (CanAcquire /\ SweeperHolds' = SweeperHolds + 1)
    BY <1>5 DEF SweepStep, SweepAcquire, SweepRelease, SweepTick, SweepStops, Sweeper, SweeperHolds
  <2>3. HubHolds' = HubHolds
    BY <2>1 DEF HubHolds
  <2> QED
    BY <1>1, <1>2, <2>1, <2>2, <2>3, HeldIs
<1>6. ASSUME NEW r \in Request, Arrive(r) \/ ReqStep(r)
      PROVE  /\ IsFiniteSet(Using)'
             /\ \/ Held' <= Held
                \/ CanAcquire /\ Held' = Held + 1
  BY <1>6, RequestHolds DEF IInv
<1>7. CASE UNCHANGED vars
  BY <1>1, <1>7, HeldIs DEF vars, HubHolds, SweeperHolds
<1> QED
  BY <1>3, <1>4, <1>5, <1>6, <1>7 DEF Next, Done

LEMMA PoolStep == IInv /\ PoolInv /\ [Next]_vars => PoolInv'
<1> SUFFICES ASSUME IInv, PoolInv, [Next]_vars PROVE PoolInv'
  OBVIOUS
<1>1. /\ IsFiniteSet(Using)'
      /\ \/ Held' <= Held
         \/ CanAcquire /\ Held' = Held + 1
  BY HoldsStep DEF PoolInv
<1>2. Held \in Nat /\ Held' \in Nat
  <2>1. HubHolds' \in 0..2 /\ SweeperHolds' \in 0..1
    BY DEF HubHolds, SweeperHolds
  <2>2. Held' = HubHolds' + SweeperHolds' + Cardinality(Using')
    BY DEF Held, Using, SweeperHolds
  <2>3. Cardinality(Using') \in Nat
    BY <1>1, FS_CardinalityType
  <2> QED
    BY <2>1, <2>2, <2>3, HeldIs DEF PoolInv
<1>3. Held' <= MaxConns
  BY <1>1, <1>2, PoolAssumption DEF CanAcquire, PoolInv, PoolAccount
<1>4. /\ poolClosed => poolClosed'
      /\ main' = "exited" => main = "exited" \/ (main = "closing" /\ Held' = 0)
  <2>1. CASE Exit
    BY <2>1 DEF Exit, Held, HubHolds
  <2>2. CASE MainStep /\ ~Exit
    BY <2>2 DEF MainStep, Startup, TakeSignal, TakeError, ShutdownReturns, StopHub,
                HubStopped, ClosePool
  <2>3. CASE UNCHANGED <<main, poolClosed>>
    BY <2>3
  <2>4. CASE HubStep \/ HubNotified \/ HubFault
    BY <2>3, <2>4, HubMoves
  <2>5. CASE SweepStep
    BY <2>3, <2>5 DEF SweepStep, SweepAcquire, SweepRelease, SweepTick, SweepStops, Sweeper
  <2>6. ASSUME NEW r \in Request, Arrive(r) \/ ReqStep(r) PROVE UNCHANGED <<main, poolClosed>>
    BY <2>6 DEF Arrive, ReqStep, ReqAcquire, ReqRelease, ReqGivesUp, Req
  <2>7. CASE StartupFails \/ Signal \/ ListenFails
    BY <2>7 DEF StartupFails, Signal, ListenFails
  <2> QED
    BY <2>1, <2>2, <2>3, <2>4, <2>5, <2>6, <2>7 DEF Next, Done, vars
<1>5. main = "closing" => poolClosed
  BY DEF IInv, HubFollowsMain
<1>6. main = "exited" => Held' = 0
  BY <1>1, <1>2 DEF PoolInv, PoolAccount, CanAcquire
<1> QED
  BY <1>1, <1>3, <1>4, <1>5, <1>6 DEF PoolInv, PoolAccount

LEMMA PoolInitially == Init => PoolInv
<1> SUFFICES ASSUME Init PROVE PoolInv
  OBVIOUS
<1>1. Using = {} /\ HubHolds = 0 /\ SweeperHolds = 0
  BY DEF Init, Using, HubHolds, SweeperHolds
<1>2. IsFiniteSet(Using) /\ Held = 0
  BY <1>1, FS_EmptySet DEF Held, Using, SweeperHolds
<1> QED
  BY <1>2, PoolAssumption DEF Init, PoolInv, PoolAccount

\* However many requests compete with the hub and the sweeper for it, the pool is
\* never overdrawn, and pwrapd exits with all of it back.
THEOREM PoolIsAccountedFor == Spec => []PoolAccount
<1>1. PoolInv => PoolAccount
  BY DEF PoolInv
<1> QED
  BY <1>1, PoolInitially, PoolStep, HubInductive, PTL DEF Spec

\* hydrate asks the pool for a second connection while the hub keeps its first: if
\* there is none to be had, somebody who does not wait for another has it.
NoWaitForItself ==
    hub = "lookup" /\ ~CanAcquire => poolClosed \/ sweeper = "holding" \/ Using # {}

\* The hub cannot lock itself out of the pool, which a pool of one would let it.
THEOREM HubNeverWaitsForItself == Spec => []NoWaitForItself
<1>1. PoolInv => NoWaitForItself
  <2> SUFFICES ASSUME PoolInv, hub = "lookup", sweeper # "holding", Using = {}
               PROVE  Held < MaxConns
    BY DEF NoWaitForItself, CanAcquire
  <2>1. HubHolds = 1 /\ SweeperHolds = 0 /\ Cardinality(Using) = 0
    BY FS_EmptySet DEF HubHolds, SweeperHolds
  <2>2. Held = HubHolds + SweeperHolds + Cardinality(Using)
    BY HeldIs DEF PoolInv
  <2> QED
    BY <2>1, <2>2, PoolAssumption
<1> QED
  BY <1>1, PoolInitially, PoolStep, HubInductive, PTL DEF Spec

(***************************************************************************)
(* Subscriptions.                                                          *)
(***************************************************************************)

\* A handler's use of the pool is a request's.
LEMMA UpgradeIsARequest ==
    ASSUME NEW s \in Request,
           Dial(s) \/ Verify(s) \/ Unauthorized(s) \/ NotFound(s) \/ Accept(s)
                   \/ Unserved(s) \/ Acquires(s)
    PROVE  Arrive(s) \/ ReqStep(s)
BY DEF Dial, Verify, Unauthorized, NotFound, Accept, Unserved, Acquires,
       ReqStep, ReqRelease

\* What the application, the goroutine and the connection do besides leaves
\* pwrapd's variables alone.
LEMMA ClientKeepsPwrapd ==
    ASSUME NEW s \in Request,
           \/ Subscribe(s) \/ SubscribeGivesUp(s) \/ Close(s) \/ Stop(s) \/ DialFails(s)
           \/ ReadHello(s) \/ Fails(s) \/ DialCancelled(s) \/ SendStops(s) \/ Backoff(s)
           \/ NetworkFails(s) \/ PolicyViolation(s) \/ Event(s) \/ Send(s)
           \/ Hello(s) \/ HelloFails(s) \/ HandlerEnds(s) \/ ClientGone(s)
    PROVE  UNCHANGED vars
BY DEF Subscribe, SubscribeGivesUp, Close, Stop, DialFails, ReadHello, Fails, DialCancelled,
       SendStops, Backoff, NetworkFails, PolicyViolation, Event, Send, Hello, HelloFails,
       HandlerEnds, ClientGone

LEMMA SubscriptionStep == [SubscriptionNext]_<<vars, subVars>> => [Next]_vars
<1> SUFFICES ASSUME [SubscriptionNext]_<<vars, subVars>> PROVE [Next]_vars
  OBVIOUS
<1>1. CASE PwrapdStep
  BY <1>1 DEF PwrapdStep, Next
<1>2. CASE ProcessEnds
  BY <1>2 DEF ProcessEnds, MainStep, Next
<1>3. CASE RevokeKey
  BY <1>3 DEF RevokeKey
<1>4. ASSUME NEW s \in Request, Arrive(s) \/ ReqStep(s) PROVE Next
  BY <1>4 DEF Next
<1>5. CASE UNCHANGED <<vars, subVars>>
  BY <1>5
<1> QED
  BY <1>1, <1>2, <1>3, <1>4, <1>5, UpgradeIsARequest, ClientKeepsPwrapd
     DEF SubscriptionNext, LoopStep, HandlerStep

\* Subscriptions compose with pwrapd without disturbing it: whatever is proved of
\* Pwrapd holds of the composition, the order of its shutdown in particular.
THEOREM SubscriptionsKeepPwrapd == SubscriptionSpec => Spec /\ []HubReleasedFirst
<1>1. SubscriptionInit => Init
  BY DEF SubscriptionInit
<1> QED
  BY <1>1, SubscriptionStep, HubStopsFirst, PTL DEF SubscriptionSpec, Spec

\* The variables of subscriptions have their types.
THEOREM SubscriptionTyped == SubscriptionSpec => []SubscriptionTypeOK
<1> USE SubscriptionAssumption DEF SubscriptionTypeOK
<1>1. SubscriptionInit => SubscriptionTypeOK
  BY TypeInit DEF SubscriptionInit
<1>2. ASSUME SubscriptionTypeOK, [SubscriptionNext]_<<vars, subVars>>
      PROVE  SubscriptionTypeOK'
  <2>0. TypeOK'
    BY <1>2, SubscriptionStep, TypeStep
  <2> USE <1>2, <2>0
  <2>1. CASE PwrapdStep \/ UNCHANGED <<vars, subVars>>
    BY <2>1 DEF PwrapdStep, subVars, clientVars
  <2>7. CASE ProcessEnds
    BY <2>7 DEF ProcessEnds, clientVars
  <2>8. CASE RevokeKey
    <3>1. faults' \in 0..MaxFaults
      BY <2>8 DEF RevokeKey, Fault
    <3>2. UNCHANGED <<caller, loop, ws>> /\ keyLive' = FALSE
      BY <2>8 DEF RevokeKey, clientVars
    <3>3. keyLive' \in BOOLEAN
      BY <3>2
    <3> QED
      BY <3>1, <3>2, <3>3
  <2> SUFFICES ASSUME NEW s \in Request,
                      \/ Subscribe(s) \/ SubscribeGivesUp(s) \/ Close(s)
                      \/ LoopStep(s) \/ NetworkFails(s) \/ PolicyViolation(s) \/ Event(s) \/ Send(s)
                      \/ HandlerStep(s) \/ Acquires(s) \/ NotFound(s) \/ Unserved(s)
                      \/ HelloFails(s) \/ HandlerEnds(s)
               PROVE  SubscriptionTypeOK'
    BY <2>1, <2>7, <2>8 DEF SubscriptionNext
  <2>2. CASE Subscribe(s) \/ SubscribeGivesUp(s) \/ Close(s)
    BY <2>2 DEF Subscribe, SubscribeGivesUp, Close
  <2>3. CASE LoopStep(s)
    BY <2>3 DEF LoopStep, Stop, Dial, DialFails, ReadHello, Fails, DialCancelled, SendStops,
                Backoff, Goto, Moves, Hangup
  <2>4. CASE NetworkFails(s) \/ PolicyViolation(s) \/ Event(s) \/ Send(s)
    BY <2>4 DEF NetworkFails, PolicyViolation, Event, Send, Goto, Moves, Hangup, Fault
  <2>5. CASE HandlerStep(s) \/ Acquires(s)
    BY <2>5 DEF HandlerStep, Acquires, Verify, Unauthorized, Accept, Hello, ClientGone,
                Handler, Refused, subVars, clientVars
  <2>6. CASE NotFound(s) \/ Unserved(s) \/ HelloFails(s) \/ HandlerEnds(s)
    BY <2>6 DEF NotFound, Unserved, HelloFails, HandlerEnds, Handler, Refused, Fault, clientVars
  <2> QED
    BY <2>2, <2>3, <2>4, <2>5, <2>6
<1> QED
  BY <1>1, <1>2, PTL DEF SubscriptionSpec

\* The handler of an upgrade queries the database in these states only.
Querying == {"verifying", "touching", "verified"}

\* A handler is in the pool's queue, or has a connection, exactly while it
\* queries: once the subscription is open, refused or over it has given back
\* what it took.  (What still queues when the process ends goes with it.)
ReleasesThePool(s) == /\ main # "exited" => (ws[s] \in Querying <=> req[s] # "idle")
                      /\ req[s] = "holding" => ws[s] \in Querying

\* "Auto-reconnects": the goroutine stops for its application and for nothing
\* else, and once connected it has let Subscribe return.
StopsWhenTold(s) == /\ loop[s] = "stopped" => Cancelled(s)
                    /\ loop[s] \in {"read", "send"} => caller[s] \notin {"before", "waiting"}
                    /\ loop[s] = "off" <=> caller[s] = "before"

\* A goroutine that waits for the server has a handler to hear from, or the end
\* of the connection: the server never forgets a client that is still there.
NeverLeftHanging(s) == /\ loop[s] = "upgrade" => ws[s] # "none"
                       /\ loop[s] \in {"read", "send"} => ws[s] \in {"open", "ended", "refused"}

SubInv == \A s \in Request : ReleasesThePool(s) /\ StopsWhenTold(s) /\ NeverLeftHanging(s)
AllInv == SubscriptionTypeOK /\ IInv /\ PoolInv

\* What pwrapd does by itself leaves the requests alone; it never comes back from
\* its exit, which finds no request with a connection.
LEMMA PwrapdKeepsRequests ==
    ASSUME AllInv, PwrapdStep \/ ProcessEnds
    PROVE  /\ req' = req
           /\ main = "exited" => main' = "exited"
           /\ PwrapdStep /\ main' = "exited" => main = "exited"
<1>1. CASE MainStep /\ main' # "exited"
  BY <1>1 DEF MainStep, Startup, TakeSignal, TakeError, ShutdownReturns, StopHub,
              HubStopped, ClosePool, Exit
<1>2. CASE StartupFails \/ Signal \/ ListenFails \/ Done
  BY <1>2 DEF StartupFails, Signal, ListenFails, Done, vars
<1>3. CASE HubStep \/ HubNotified \/ HubFault
  BY <1>3 DEF HubStep, HubNotified, HubFault, HubLosesConn, HubUnreachable, HubTimesOut,
              HubAcquire, HubLookup, HubFanout,
              HubAcquireFails, HubLookupFails, HubBackoff, HubCancelled, Hub
<1>4. CASE SweepStep
  BY <1>4 DEF SweepStep, SweepAcquire, SweepRelease, SweepTick, SweepStops, Sweeper
<1>5. CASE ProcessEnds /\ ~PwrapdStep
  BY <1>5 DEF ProcessEnds, Exit
<1> QED
  BY <1>1, <1>2, <1>3, <1>4, <1>5 DEF PwrapdStep

LEMMA ExitFindsNone ==
    ASSUME AllInv, Exit
    PROVE  \A s \in Request : req[s] # "holding"
<1>1. IsFiniteSet(Using) /\ Held = 0
  BY DEF AllInv, PoolInv, Exit
<1>2. Cardinality(Using) = 0
  BY <1>1, HeldIs
<1>3. Using = {}
  BY <1>1, <1>2, FS_EmptySet
<1> QED
  BY <1>3 DEF Using

\* A step of one subscription's goroutine, application or handler.
StepOf(s) == \/ Subscribe(s) \/ SubscribeGivesUp(s) \/ Close(s)
             \/ LoopStep(s) \/ NetworkFails(s) \/ PolicyViolation(s) \/ Event(s) \/ Send(s)
             \/ HandlerStep(s) \/ Acquires(s) \/ NotFound(s) \/ Unserved(s)
             \/ HelloFails(s) \/ HandlerEnds(s)

\* Subscriptions do not touch each other, nor where run is.
LEMMA StepsAreApart ==
    ASSUME SubscriptionTypeOK, NEW s \in Request, StepOf(s), NEW t \in Request, t # s
    PROVE  /\ main' = main
           /\ req'[t] = req[t] /\ loop'[t] = loop[t] /\ caller'[t] = caller[t] /\ ws'[t] = ws[t]
<1> USE DEF SubscriptionTypeOK, TypeOK
<1>1. CASE Subscribe(s) \/ SubscribeGivesUp(s) \/ Close(s)
  BY <1>1 DEF Subscribe, SubscribeGivesUp, Close, vars
<1>2. CASE LoopStep(s)
  BY <1>2 DEF LoopStep, Stop, Dial, DialFails, ReadHello, Fails, DialCancelled, SendStops,
              Backoff, Goto, Moves, Hangup, vars, Arrive, Req
<1>3. CASE NetworkFails(s) \/ PolicyViolation(s) \/ Event(s) \/ Send(s)
  BY <1>3 DEF NetworkFails, PolicyViolation, Event, Send, Goto, Moves, Hangup, vars
<1>4. CASE HandlerStep(s) \/ Acquires(s)
  BY <1>4 DEF HandlerStep, Acquires, Verify, Unauthorized, Accept, Hello, ClientGone, ReqAcquire,
              Req, Handler, subVars, clientVars, vars
<1>5. CASE NotFound(s) \/ Unserved(s) \/ HelloFails(s) \/ HandlerEnds(s)
  BY <1>5 DEF NotFound, Unserved, HelloFails, HandlerEnds, Handler, ReqGivesUp, Req, clientVars, vars
<1> QED
  BY <1>1, <1>2, <1>3, <1>4, <1>5 DEF StepOf

LEMMA StepKeepsOwn ==
    ASSUME AllInv, NEW s \in Request, StepOf(s),
           ReleasesThePool(s), StopsWhenTold(s), NeverLeftHanging(s)
    PROVE  ReleasesThePool(s)' /\ StopsWhenTold(s)' /\ NeverLeftHanging(s)'
<1>0. poolClosed <=> main \in {"closing", "exited"}
  BY DEF AllInv, IInv, HubFollowsMain
<1> USE DEF AllInv, SubscriptionTypeOK, TypeOK, ReleasesThePool, StopsWhenTold, NeverLeftHanging,
            Querying, Cancelled
<1>1. CASE Subscribe(s) \/ SubscribeGivesUp(s) \/ Close(s)
  BY <1>1 DEF Subscribe, SubscribeGivesUp, Close, vars
<1>2. CASE Dial(s)
  BY <1>2 DEF Dial, Goto, Moves, Arrive, Req
<1>3. CASE Stop(s) \/ DialFails(s) \/ DialCancelled(s) \/ Backoff(s)
  BY <1>3 DEF Stop, DialFails, DialCancelled, Backoff, Goto, Moves, vars
<1>4. CASE ReadHello(s)
  BY <1>4 DEF ReadHello, Moves, vars
<1>5. CASE Fails(s)
  BY <1>5 DEF Fails, Broken, Hangup, Goto, Moves, vars
<1>6. CASE SendStops(s) \/ Event(s) \/ Send(s) \/ PolicyViolation(s)
  BY <1>6 DEF SendStops, Event, Send, PolicyViolation, Hangup, Goto, Moves, vars
<1>7. CASE NetworkFails(s)
  BY <1>7 DEF NetworkFails, Hangup, Goto, Moves, vars
<1>8. CASE Acquires(s)
  BY <1>0, <1>8 DEF Acquires, ReqAcquire, CanAcquire, Req, subVars, clientVars
<1>9. CASE Verify(s) \/ Unauthorized(s) \/ Accept(s) \/ NotFound(s)
  BY <1>9 DEF Verify, Unauthorized, Accept, NotFound, Handler, Refused, Req, clientVars
<1>10. CASE Unserved(s)
  BY <1>10 DEF Unserved, Handler, Refused, ReqGivesUp, Req, clientVars
<1>11. CASE Hello(s) \/ ClientGone(s) \/ HelloFails(s) \/ HandlerEnds(s)
  BY <1>11 DEF Hello, ClientGone, HelloFails, HandlerEnds, Handler, Refused, clientVars, vars
<1> QED
  BY <1>1, <1>2, <1>3, <1>4, <1>5, <1>6, <1>7, <1>8, <1>9, <1>10, <1>11
     DEF StepOf, LoopStep, HandlerStep

LEMMA SubInvStep == AllInv /\ SubInv /\ [SubscriptionNext]_<<vars, subVars>> => SubInv'
<1> SUFFICES ASSUME AllInv, SubInv, [SubscriptionNext]_<<vars, subVars>>, NEW t \in Request
             PROVE  ReleasesThePool(t)' /\ StopsWhenTold(t)' /\ NeverLeftHanging(t)'
  BY DEF SubInv
<1>0. ReleasesThePool(t) /\ StopsWhenTold(t) /\ NeverLeftHanging(t)
  BY DEF SubInv
<1>1. CASE PwrapdStep
  BY <1>0, <1>1, PwrapdKeepsRequests
     DEF PwrapdStep, subVars, clientVars, ReleasesThePool, StopsWhenTold, NeverLeftHanging, Cancelled
<1>2. CASE ProcessEnds
  <2>1. req'[t] # "holding" /\ main' = "exited"
    BY <1>2, PwrapdKeepsRequests, ExitFindsNone DEF ProcessEnds, Exit
  <2>2. /\ UNCHANGED <<loop, caller>>
        /\ ws'[t] = IF loop[t] \in {"upgrade", "read", "send"} THEN "refused" ELSE "none"
    BY <1>2 DEF ProcessEnds, clientVars
  <2> QED
    BY <1>0, <2>1, <2>2 DEF ReleasesThePool, StopsWhenTold, NeverLeftHanging, Cancelled
<1>3. CASE RevokeKey \/ UNCHANGED <<vars, subVars>>
  BY <1>0, <1>3 DEF RevokeKey, vars, subVars, clientVars, ReleasesThePool, StopsWhenTold,
                    NeverLeftHanging, Cancelled
<1>4. CASE StepOf(t)
  BY <1>0, <1>4, StepKeepsOwn
<1>5. ASSUME NEW s \in Request, StepOf(s), s # t
      PROVE  ReleasesThePool(t)' /\ StopsWhenTold(t)' /\ NeverLeftHanging(t)'
  BY <1>0, <1>5, StepsAreApart
     DEF AllInv, ReleasesThePool, StopsWhenTold, NeverLeftHanging, Cancelled
<1> QED
  BY <1>1, <1>2, <1>3, <1>4, <1>5 DEF SubscriptionNext, StepOf

\* The invariant of subscriptions, however many there are and whatever fails.
THEOREM SubscriptionInvariant == SubscriptionSpec => []SubInv
<1>1. SubscriptionInit => SubInv
  <2> SUFFICES ASSUME SubscriptionInit, NEW s \in Request
               PROVE  ReleasesThePool(s) /\ StopsWhenTold(s) /\ NeverLeftHanging(s)
    BY DEF SubInv
  <2> QED
    BY DEF SubscriptionInit, Init, ReleasesThePool, Querying, StopsWhenTold, NeverLeftHanging, Cancelled
<1>2. SubscriptionSpec => []AllInv
  <2>1. Spec => []PoolInv
    BY PoolInitially, PoolStep, HubInductive, PTL DEF Spec
  <2>2. SubscriptionTypeOK /\ IInv /\ PoolInv => AllInv
    BY DEF AllInv
  <2> QED
    BY <2>1, <2>2, SubscriptionTyped, SubscriptionsKeepPwrapd, HubInductive, PTL
<1> QED
  BY <1>1, <1>2, SubInvStep, PTL DEF SubscriptionSpec

\* Subscriptions do not starve the pool: whatever their number, none has or queues
\* for a connection but while its upgrade is answered.
THEOREM SubscriptionsReleaseThePool ==
    SubscriptionSpec => [](\A s \in Request : ReleasesThePool(s))
<1>1. SubInv => \A s \in Request : ReleasesThePool(s)
  BY DEF SubInv
<1> QED
  BY <1>1, SubscriptionInvariant, PTL

\* runLoop ends for the application only, and neither side of a connection waits
\* for one that has forgotten it.
THEOREM SubscriptionsEndWhenTold ==
    SubscriptionSpec => [](\A s \in Request : StopsWhenTold(s) /\ NeverLeftHanging(s))
<1>1. SubInv => \A s \in Request : StopsWhenTold(s) /\ NeverLeftHanging(s)
  BY DEF SubInv
<1> QED
  BY <1>1, SubscriptionInvariant, PTL
=============================================================================
