------------------------------ MODULE Realtime ------------------------------
(***************************************************************************)
(* Change events on their way from a tenant's transaction to a subscriber: *)
(* the capture trigger's log row and NOTIFY, the hub's LISTEN loop and     *)
(* fan-out, the subscription handler and the SDK's Subscription.           *)
(*                                                                         *)
(* A change is an element of Event.  rank, since, missed and dropped are   *)
(* history: they say what the code owes a subscriber and which losses it   *)
(* accounts for (a log line, the hub's drop counter).                      *)
(***************************************************************************)
EXTENDS Naturals, Sequences, FiniteSets

CONSTANTS Event,     \* changes: records with fields schema, table and user
          Sub,       \* SDK subscriptions
          Filter,    \* Sub -> [schema, table, user], with All for an empty field
          All,
          BufCap,    \* capacity of a subscriber's channel (64 in the code)
          NoEvent,
          MaxFaults  \* bound: lost hub connections, failed lookups, crashes

ASSUME CapAssumption == BufCap \in Nat \ {0} /\ MaxFaults \in Nat
ASSUME EventAssumption == NoEvent \notin Event

VARIABLES rank,     \* position in commit order, 0 while not committed
          wire,     \* notifications on the hub's LISTEN connection
          hub,      \* the hub's loop
          conn,     \* the connection a subscription has to the server
          buf,      \* the channel of that connection's Subscriber
          got,      \* what the application was handed, in order
          since,    \* commits that preceded the hello of the connection
          missed,   \* changes no subscriber will be sent
          dropped,  \* changes the fan-out dropped for a full channel
          faults

vars == <<rank, wire, hub, conn, buf, got, since, missed, dropped, faults>>

Hub == [pc : {"down", "waiting", "hydrating"}, ev : Event \cup {NoEvent}]

TypeOK == /\ rank \in [Event -> Nat]
          /\ wire \in Seq(Event)
          /\ hub \in Hub
          /\ conn \in [Sub -> {"none", "registered", "open", "closed"}]
          /\ buf \in [Sub -> Seq(Event)]
          /\ got \in [Sub -> Seq(Event)]
          /\ since \in [Sub -> Nat]
          /\ missed \in SUBSET Event
          /\ dropped \in [Sub -> SUBSET Event]
          /\ faults \in 0..MaxFaults

HubDown == [pc |-> "down", ev |-> NoEvent]
Waiting == [pc |-> "waiting", ev |-> NoEvent]
Init == /\ rank = [e \in Event |-> 0]
        /\ wire = <<>>
        /\ hub = HubDown
        /\ conn = [s \in Sub |-> "none"]
        /\ buf = [s \in Sub |-> <<>>]
        /\ got = [s \in Sub |-> <<>>]
        /\ since = [s \in Sub |-> 0]
        /\ missed = {}
        /\ dropped = [s \in Sub |-> {}]
        /\ faults = 0

Elems(q) == {q[i] : i \in DOMAIN q}
Committed == {e \in Event : rank[e] > 0}
Fits(want, has) == want = All \/ want = has

matches_AnySchema(s, e) == /\ Fits(Filter[s].table, e.table)
                           /\ Fits(Filter[s].user, e.user)
matches(s, e) == /\ Filter[s].schema = e.schema
                 /\ Fits(Filter[s].table, e.table)
                 /\ Fits(Filter[s].user, e.user)

(***************************************************************************)
(* The database.                                                           *)
(***************************************************************************)

\* A commit makes the log row visible and queues the trigger's notification for
\* the sessions that LISTEN; without one it is gone.
Commit(e) ==
    /\ rank[e] = 0
    /\ rank' = [rank EXCEPT ![e] = Cardinality(Committed) + 1]
    /\ IF hub.pc = "down"
       THEN missed' = missed \cup {e} /\ UNCHANGED wire
       ELSE wire' = Append(wire, e) /\ UNCHANGED missed
    /\ UNCHANGED <<hub, conn, buf, got, since, dropped, faults>>

(***************************************************************************)
(* The hub.                                                                *)
(***************************************************************************)

\* Acquire and LISTEN, at start and a second after losing the connection.
Listen ==
    /\ hub.pc = "down"
    /\ hub' = Waiting
    /\ UNCHANGED <<rank, wire, conn, buf, got, since, missed, dropped, faults>>

WaitForNotification_Peeks ==
    /\ hub.pc = "waiting"
    /\ wire # <<>>
    /\ hub' = [pc |-> "hydrating", ev |-> Head(wire)]
    /\ UNCHANGED <<rank, wire, conn, buf, got, since, missed, dropped, faults>>
WaitForNotification_Lags ==
    /\ hub.pc = "waiting"
    /\ Len(wire) > 1
    /\ hub' = [pc |-> "hydrating", ev |-> Head(wire)]
    /\ wire' = Tail(wire)
    /\ UNCHANGED <<rank, conn, buf, got, since, missed, dropped, faults>>
WaitForNotification ==
    /\ hub.pc = "waiting"
    /\ wire # <<>>
    /\ hub' = [pc |-> "hydrating", ev |-> Head(wire)]
    /\ wire' = Tail(wire)
    /\ UNCHANGED <<rank, conn, buf, got, since, missed, dropped, faults>>

\* The lookup of the log row failed; the loop goes on with the next one.
HydrateFails ==
    /\ hub.pc = "hydrating"
    /\ faults < MaxFaults
    /\ faults' = faults + 1
    /\ missed' = missed \cup {hub.ev}
    /\ hub' = Waiting
    /\ UNCHANGED <<rank, wire, conn, buf, got, since, dropped>>

Registered == {s \in Sub : conn[s] \in {"registered", "open"}}
\* A bug: the loop over the subscribers forgets the filter.
Receivers_Unfiltered == Registered
Receivers == {s \in Registered : matches(s, hub.ev)}
Full(s) == Len(buf[s]) >= BufCap

\* Under the read lock: a non-blocking send to every matching subscriber.
fanout_Returns ==
    /\ hub.pc = "hydrating"
    /\ buf' = [s \in Sub |-> IF s \in Receivers /\ ~Full(s) /\ Receivers = Registered
                             THEN Append(buf[s], hub.ev) ELSE buf[s]]
    /\ dropped' = [s \in Sub |-> IF s \in Receivers /\ Full(s)
                                 THEN dropped[s] \cup {hub.ev} ELSE dropped[s]]
    /\ hub' = Waiting
    /\ UNCHANGED <<rank, wire, conn, got, since, missed, faults>>
fanout ==
    /\ hub.pc = "hydrating"
    /\ buf' = [s \in Sub |-> IF s \in Receivers /\ ~Full(s)
                             THEN Append(buf[s], hub.ev) ELSE buf[s]]
    /\ dropped' = [s \in Sub |-> IF s \in Receivers /\ Full(s)
                                 THEN dropped[s] \cup {hub.ev} ELSE dropped[s]]
    /\ hub' = Waiting
    /\ UNCHANGED <<rank, wire, conn, got, since, missed, faults>>

\* The LISTEN connection breaks; what was queued for it is lost, and nobody
\* tells the subscribers.
HubLosesConn ==
    /\ hub.pc = "waiting"
    /\ faults < MaxFaults
    /\ faults' = faults + 1
    /\ missed' = missed \cup Elems(wire)
    /\ wire' = <<>>
    /\ hub' = HubDown
    /\ UNCHANGED <<rank, conn, buf, got, since, dropped>>

(***************************************************************************)
(* The subscription handler and the SDK's connection loop.                 *)
(***************************************************************************)

\* Dial, Verify, Get and Accept succeeded: a fresh channel, registered with the hub.
Register(s) ==
    /\ conn[s] = "none"
    /\ conn' = [conn EXCEPT ![s] = "registered"]
    /\ UNCHANGED <<rank, wire, hub, buf, got, since, missed, dropped, faults>>

\* The hello frame: Subscribe returns, and what commits from now on is expected.
Hello(s) ==
    /\ conn[s] = "registered"
    /\ conn' = [conn EXCEPT ![s] = "open"]
    /\ since' = [since EXCEPT ![s] = Cardinality(Committed)]
    /\ UNCHANGED <<rank, wire, hub, buf, got, missed, dropped, faults>>

\* The handler's write and the SDK's read of one event.
Deliver(s) ==
    /\ conn[s] = "open"
    /\ buf[s] # <<>>
    /\ got' = [got EXCEPT ![s] = Append(@, Head(buf[s]))]
    /\ buf' = [buf EXCEPT ![s] = Tail(@)]
    /\ UNCHANGED <<rank, wire, hub, conn, since, missed, dropped, faults>>

\* A write or ping times out, the request's 30 s are up, or the network fails:
\* the channel is dropped, and after its backoff the SDK dials again.
Hangup(s, pc) ==
    /\ conn' = [conn EXCEPT ![s] = pc]
    /\ buf' = [buf EXCEPT ![s] = <<>>]
    /\ since' = [since EXCEPT ![s] = 0]
    /\ dropped' = [dropped EXCEPT ![s] = {}]
    /\ UNCHANGED <<rank, wire, hub, got, missed, faults>>
Break(s) == conn[s] \in {"registered", "open"} /\ Hangup(s, "none")

\* The application's Close ends the connection loop.
Close(s) == conn[s] # "closed" /\ Hangup(s, "closed")

\* pwrapd dies with its hub, its channels and its connections, and starts again.
Restart ==
    /\ faults < MaxFaults
    /\ faults' = faults + 1
    /\ missed' = missed \cup Elems(wire) \cup ({hub.ev} \ {NoEvent})
    /\ wire' = <<>>
    /\ hub' = HubDown
    /\ conn' = [s \in Sub |-> IF conn[s] = "closed" THEN "closed" ELSE "none"]
    /\ buf' = [s \in Sub |-> <<>>]
    /\ since' = [s \in Sub |-> 0]
    /\ dropped' = [s \in Sub |-> {}]
    /\ UNCHANGED <<rank, got>>

HubStep == WaitForNotification \/ fanout
SubStep(s) == Register(s) \/ Hello(s) \/ Deliver(s)

Next == \/ \E e \in Event : Commit(e)
        \/ Listen
        \/ HubStep
        \/ HydrateFails
        \/ HubLosesConn
        \/ Restart
        \/ \E s \in Sub : SubStep(s) \/ Break(s) \/ Close(s)

Spec == Init /\ [][Next]_vars

\* A hub that listens and each handler keep running.  Nothing makes a hub that
\* lost its connection listen again: it gives up if an attempt times out.
FairSpec == /\ Spec
            /\ WF_vars(HubStep)
            /\ \A s \in Sub : WF_vars(SubStep(s))

-----------------------------------------------------------------------------
Pipeline == Elems(wire) \cup ({hub.ev} \ {NoEvent})

\* What an application sees, over any number of reconnects: only committed
\* changes its filter asks for, each at most once, in commit order.
InOrderAtMostOnce ==
    \A s \in Sub : \A i, j \in DOMAIN got[s] :
        /\ got[s][i] \in Committed
        /\ i < j => rank[got[s][i]] < rank[got[s][j]]

\* "Schema is required": a subscriber never sees another tenant's change, nor
\* one its table and user filters exclude, however connections are reused.
OnlyMatching ==
    \A s \in Sub : \A e \in Elems(got[s] \o buf[s]) :
        /\ e.schema = Filter[s].schema
        /\ Filter[s].table \in {All, e.table}
        /\ Filter[s].user \in {All, e.user}

\* The feed of an application is the abstract one of its filter: no step of the
\* hub, of a connection or of a restart reaches what was handed over.
Promised == INSTANCE Feed WITH Wanted <- [s \in Sub |-> {e \in Event : matches(s, e)}]
ImplementsFeed == Promised!Spec

\* What committed after the hello of a connection that is still up.
Owed(s) == {e \in Event : conn[s] = "open" /\ rank[e] > since[s] /\ matches(s, e)}

\* Nothing vanishes unaccounted: a change owed to a subscriber is on its way,
\* was handed over, was missed by the hub or dropped and counted.
NoUnaccountedLoss ==
    \A s \in Sub : Owed(s) \subseteq
        Pipeline \cup Elems(buf[s]) \cup Elems(got[s]) \cup missed \cup dropped[s]

\* What a subscriber is owed arrives, while its connection lasts, however slow
\* the other subscribers are.
EventuallyHandedOver ==
    \A s \in Sub, e \in Event :
        (e \in Owed(s)) ~> \/ e \in Elems(got[s]) \cup missed \cup dropped[s]
                           \/ e \notin Owed(s)
=============================================================================
