------------------------------ MODULE SdkClient ------------------------------
(***************************************************************************)
(* The Go SDK's client: the loop that exchanges the API key for a fresh    *)
(* credential before the current one expires and swaps the pool, the       *)
(* goroutines that close swapped pools, Close, and the calls that run      *)
(* meanwhile, with or without the claims of a user.                        *)
(*                                                                         *)
(* A pool is modelled with one connection, the worst case for the reuse of *)
(* connections.  Opening and pinging a new pool takes no time of its own.  *)
(***************************************************************************)
EXTENDS Collections, Integers, Sequences

CONSTANTS Before,      \* rows stored before the client starts
          TTL,         \* life of a credential
          Lead,        \* refreshLead
          Floor,       \* the least time the loop sleeps
          RetryAfter,  \* the pause after a failed refresh
          HttpTimeout, \* of the HTTP client New makes
          MaxTime,     \* bound: the clock stops here
          MaxPools,    \* bound: pools opened
          MaxFailures, \* bound: consecutive failed refreshes
          MaxCalls     \* bound: calls of the application, one after or next to another

ASSUME BeforeAssumption == Before \subseteq Row
ASSUME DelaysAssumption ==
    /\ {TTL, Lead, Floor, RetryAfter, HttpTimeout} \subseteq Nat
    /\ Lead + Floor + HttpTimeout <= TTL
    /\ HttpTimeout + RetryAfter + Floor + HttpTimeout <= Lead
ASSUME BoundsAssumption == {MaxTime, MaxPools, MaxFailures, MaxCalls} \subseteq Nat

Caller == 1..MaxCalls
None == 0

VARIABLES now,
          client,    \* the root Client's life
          pools,     \* every pool ever opened
          current,   \* conn.pool
          expires,   \* conn.expires
          loop,      \* refreshLoop: where it is and when its timer, or timeout, goes off
          failures,  \* refreshes that failed since the last one that did not
          closers,   \* pools whose closer goroutine still sleeps
          call,      \* the application's calls, in order of their start
          rows,      \* the tenant's tables
          saw        \* whose rows the last step returned or counted

sharedVars == <<client, pools, current, expires, loop, failures, closers>>
sdkVars == <<now, sharedVars, call, rows, saw>>

Pool == [status : {"open", "closing", "closed"}, expires : Nat, up : BOOLEAN,
         holder : Caller \cup {None}, session : User \cup {NoUser}, local : User \cup {NoUser}]
Loop == [pc : {"sleep", "exchange", "backoff", "stopped"}, until : Nat]
Call == [pc : {"idle", "loaded", "begun", "body", "ended"}, pool : Nat,
         user : User \cup {NoUser}, direct : BOOLEAN]
Call0(pc) == [pc |-> pc, pool |-> 0, user |-> NoUser, direct |-> FALSE]

Stopped == [pc |-> "stopped", until |-> 0]

TypeOK == /\ now \in Nat
          /\ client \in {"none", "open", "closing", "closed"}
          /\ pools \in Seq(Pool)
          /\ current \in 0..Len(pools)
          /\ expires \in Nat
          /\ loop \in Loop
          /\ failures \in Nat
          /\ closers \subseteq DOMAIN pools
          /\ call \in [Caller -> Call]
          /\ rows \in [Row -> Contents]
          /\ saw \subseteq User

Init == /\ now = 0
        /\ client = "none"
        /\ pools = <<>>
        /\ current = 0
        /\ expires = 0
        /\ loop = Stopped
        /\ failures = 0
        /\ closers = {}
        /\ call = [g \in Caller |-> Call0("idle")]
        /\ rows = [i \in Row |-> IF i \in Before THEN 1 ELSE 0]
        /\ saw = {}

(***************************************************************************)
(* The exchange and the loop.                                              *)
(***************************************************************************)

NothingSeen == saw' = {}

Fresh(expiry) == [status |-> "open", expires |-> expiry, up |-> TRUE, holder |-> None,
                  session |-> NoUser, local |-> NoUser]

\* A bug: off by one at the floor.
Wake_Late(expiry) == IF expiry - Lead < now + Floor THEN now + Floor + 1 ELSE expiry - Lead
Wake(expiry) == IF expiry - Lead < now + Floor THEN now + Floor ELSE expiry - Lead
Asleep(expiry) == [pc |-> "sleep", until |-> Wake(expiry)]

SchemaVersion == 1
checkSchemaVersion(version) == version >= SchemaVersion

New(version) ==
    /\ client = "none"
    /\ checkSchemaVersion(version)
    /\ client' = "open"
    /\ pools' = <<Fresh(now + TTL)>>
    /\ current' = 1
    /\ expires' = now + TTL
    /\ loop' = Asleep(now + TTL)
    /\ UNCHANGED <<now, failures, closers, call, rows>> /\ NothingSeen

Awake ==
    /\ loop.pc = "sleep"
    /\ loop.until <= now
    /\ loop' = [pc |-> "exchange", until |-> now + HttpTimeout]
    /\ UNCHANGED <<now, client, pools, current, expires, failures, closers, call, rows>> /\ NothingSeen

\* Bugs: off by one; the old pool is never closed.
Retire_Previous(p) == closers \cup {p - 1}
Retire_Never(p) == closers
Retire(p) == closers \cup {p}

\* The credential was minted at some time since the request was sent.
refresh ==
    /\ loop.pc = "exchange"
    /\ Len(pools) < MaxPools
    /\ \E minted \in (loop.until - HttpTimeout)..now :
         /\ pools' = Append(pools, Fresh(minted + TTL))
         /\ current' = Len(pools) + 1
         /\ closers' = Retire(current)
         /\ expires' = minted + TTL
         /\ loop' = Asleep(minted + TTL)
    /\ failures' = 0
    /\ UNCHANGED <<now, client, call, rows>> /\ NothingSeen

RefreshFails ==
    /\ loop.pc = "exchange"
    /\ failures < MaxFailures
    /\ failures' = failures + 1
    /\ loop' = [pc |-> "backoff", until |-> now + RetryAfter]
    /\ UNCHANGED <<now, client, pools, current, expires, closers, call, rows>> /\ NothingSeen

Retry ==
    /\ loop.pc = "backoff"
    /\ loop.until <= now
    /\ loop' = Asleep(expires)
    /\ UNCHANGED <<now, client, pools, current, expires, failures, closers, call, rows>> /\ NothingSeen

\* Timers go off in time, an exchange ends within its timeout.  Bounds: the clock
\* is of no interest before New and after Close, and a call that has got its
\* connection is done within the unit (refresh and the closers need no tick).
Tick ==
    /\ now < MaxTime
    /\ client = "open"
    /\ \A g \in Caller : call[g].pc \notin {"begun", "body"}
    /\ loop.pc # "stopped" => now < loop.until
    /\ now' = now + 1
    /\ UNCHANGED <<sharedVars, call, rows>> /\ NothingSeen

(***************************************************************************)
(* Closing.                                                                *)
(***************************************************************************)

\* No new acquisition; the last connection to come back ends it.
PoolClose(p) == pools' = [pools EXCEPT ![p].status = IF @ = "open" THEN "closing" ELSE @]

\* A bug: the goroutine closes the pool it finds when it wakes up.
Captured_Current(p) == current
Captured(p) == p

closer(p) ==
    /\ p \in closers
    /\ PoolClose(Captured(p))
    /\ closers' = closers \ {p}
    /\ UNCHANGED <<now, client, current, expires, loop, failures, call, rows>> /\ NothingSeen

Drained(p) ==
    /\ pools[p].status = "closing"
    /\ pools[p].holder = None
    /\ pools' = [pools EXCEPT ![p] = [@ EXCEPT !.status = "closed", !.up = FALSE]]
    /\ UNCHANGED <<now, client, current, expires, loop, failures, closers, call, rows>> /\ NothingSeen

\* Close of the root Client: on a clone with a user it does nothing.
Close ==
    /\ client = "open"
    /\ client' = "closing"
    /\ UNCHANGED <<now, pools, current, expires, loop, failures, closers, call, rows>> /\ NothingSeen

LoopStops ==
    /\ client = "closing"
    /\ loop.pc # "stopped"
    /\ loop' = Stopped
    /\ UNCHANGED <<now, client, pools, current, expires, failures, closers, call, rows>> /\ NothingSeen

\* <-refreshDone
LoopDone == loop.pc = "stopped"

CloseEnds ==
    /\ client = "closing"
    /\ LoopDone
    /\ client' = "closed"
    /\ PoolClose(current)
    /\ UNCHANGED <<now, current, expires, loop, failures, closers, call, rows>> /\ NothingSeen

(***************************************************************************)
(* Calls.  run's begin a transaction and set the claims when the client is *)
(* bound to a user (WithUser); direct ones take the pool as it is.         *)
(***************************************************************************)

Load(g, user, direct) ==
    /\ client # "none"
    /\ direct => user # NoUser
    /\ call[g].pc = "idle"
    /\ \A h \in 1..(g - 1) : call[h].pc # "idle"
    /\ call' = [call EXCEPT ![g] = [pc |-> "loaded", pool |-> current, user |-> user,
                                    direct |-> direct]]
    /\ NothingSeen
    /\ UNCHANGED <<now, sharedVars, rows>>

Ended(g) == call' = [call EXCEPT ![g] = Call0("ended")]

\* A connection that is up stays, a new one needs a credential to log in with.
CanLogIn(p) == pools[p].up \/ now <= pools[p].expires

Acquire(g) ==
    LET p == call[g].pool
    IN /\ call[g].pc = "loaded"
       /\ pools[p].status = "open"
       /\ pools[p].holder = None
       /\ CanLogIn(p)
       /\ pools' = [pools EXCEPT ![p] = [@ EXCEPT !.holder = g, !.up = TRUE]]
       /\ call' = [call EXCEPT ![g].pc = IF call[g].direct \/ call[g].user = NoUser
                                         THEN "body" ELSE "begun"]
       /\ UNCHANGED <<now, client, current, expires, loop, failures, closers, rows>> /\ NothingSeen

\* Without a credential to log in with, unless an idle connection is left.
AcquireFails(g) ==
    /\ call[g].pc = "loaded"
    /\ LET p == pools[call[g].pool] IN p.status # "open" \/ now > p.expires
    /\ Ended(g)
    /\ UNCHANGED <<now, sharedVars, rows>> /\ NothingSeen

\* A bug: set_config(..., false), for the session.
WithClaims_Session(conn, user) == [conn EXCEPT !.session = user]
WithClaims(conn, user) == [conn EXCEPT !.local = user]

SetConfig(g) ==
    LET p == call[g].pool
    IN /\ call[g].pc = "begun"
       /\ pools' = [pools EXCEPT ![p] = WithClaims(@, call[g].user)]
       /\ call' = [call EXCEPT ![g].pc = "body"]
       /\ UNCHANGED <<now, client, current, expires, loop, failures, closers, rows>> /\ NothingSeen

Claims(conn) == IF conn.local # NoUser THEN conn.local ELSE conn.session
\* What is local to the transaction ends with it.
Released(p) == [pools EXCEPT ![p] = [@ EXCEPT !.holder = None, !.local = NoUser]]

\* effects: what the statement may do, as pairs of the rows after it and the
\* rows it returns.
Statement(g, effects) ==
    /\ \E effect \in effects : /\ rows' = effect[1]
                               /\ saw' = {OwnerOf[i] : i \in effect[2]}
    /\ Ended(g)
    /\ pools' = Released(call[g].pool)
    /\ UNCHANGED <<now, client, current, expires, loop, failures, closers>>

\* Vector's calls but UpsertMany are direct, the other collections' never are;
\* without a user run takes the pool as it is, too.
Body(g) ==
  LET c == Claims(pools[call[g].pool])
  IN
  /\ call[g].pc = "body"
  /\
    \/ /\ ~call[g].direct
       /\ \/ Statement(g, TableInsertMany(c, rows)) \/ Statement(g, TableInsert(c, rows))
          \/ Statement(g, TableGet(c, rows)) \/ Statement(g, TableFind(c, rows))
          \/ Statement(g, TableUpdate(c, rows)) \/ Statement(g, TableDelete(c, rows))
          \/ Statement(g, TableCount(c, rows)) \/ Statement(g, VectorUpsertMany(c, rows))
          \/ Statement(g, GeoInsertPointMany(c, rows)) \/ Statement(g, GeoInsertPoint(c, rows))
          \/ Statement(g, GeoInsert(c, rows)) \/ Statement(g, GeoGet(c, rows))
          \/ Statement(g, GeoDelete(c, rows)) \/ Statement(g, WithinRadius(c, rows))
          \/ Statement(g, WithinBBox(c, rows)) \/ Statement(g, Nearest(c, rows))
          \/ Statement(g, GeoCount(c, rows))
    \/ /\ call[g].direct \/ call[g].user = NoUser
       /\ \/ Statement(g, VectorUpsert(c, rows)) \/ Statement(g, VectorDelete(c, rows))
          \/ Statement(g, VectorSearch(c, rows))

\* The statement, fn or the commit fails: the transaction is rolled back.
Rollback(g) ==
    /\ call[g].pc \in {"begun", "body"}
    /\ pools' = Released(call[g].pool)
    /\ Ended(g)
    /\ UNCHANGED <<now, client, current, expires, loop, failures, closers, rows>>
    /\ NothingSeen

\* A connection breaks; its session's state goes with it.  (One that breaks idle
\* is replaced at the next Acquire, or else is why it fails.)
ConnectionLost(g) ==
    /\ call[g].pc \in {"begun", "body"}
    /\ pools' = [pools EXCEPT ![call[g].pool] = [@ EXCEPT !.up = FALSE, !.holder = None,
                                                        !.session = NoUser, !.local = NoUser]]
    /\ Ended(g)
    /\ UNCHANGED <<now, client, current, expires, loop, failures, closers, rows>>
    /\ NothingSeen

CallStep(g) == Acquire(g) \/ AcquireFails(g) \/ SetConfig(g) \/ Rollback(g) \/ Body(g)
LoopStep == Awake \/ refresh \/ RefreshFails \/ Retry \/ LoopStops

Next == \/ \E version \in 0..1 : New(version)
        \/ LoopStep
        \/ Tick
        \/ Close \/ CloseEnds
        \/ \E p \in DOMAIN pools : closer(p) \/ Drained(p)
        \/ \E g \in Caller : \/ CallStep(g)
                             \/ ConnectionLost(g)
                             \/ \E u \in User \cup {NoUser}, d \in BOOLEAN : Load(g, u, d)

\* Goroutines run, statements end; nothing forces the application to call or to
\* close, nor time to pass.  (A call that stays in its body for ever would have
\* Rollback enabled for ever: Body need not be mentioned.)
Fairness == /\ WF_sdkVars(LoopStops) /\ WF_sdkVars(CloseEnds)
            /\ \A p \in 1..MaxPools :
                 WF_sdkVars(p \in DOMAIN pools /\ (closer(p) \/ Drained(p)))
            /\ \A g \in Caller : WF_sdkVars(Acquire(g) \/ AcquireFails(g) \/ SetConfig(g) \/ Rollback(g))

Spec == Init /\ [][Next]_sdkVars /\ Fairness

-----------------------------------------------------------------------------
(***************************************************************************)
(* Properties.                                                             *)
(***************************************************************************)

\* One refresh that fails, however late, never costs the client a credential it
\* can open connections with: the margins of Lead, Floor, RetryAfter and the
\* HTTP timeout add up with nothing to spare.
OneFailureIsTolerated ==
    client = "open" /\ failures <= 1 => now <= expires /\ pools[current].expires = expires

\* The pool that calls are given is open for as long as nobody closes the Client.
CurrentPoolIsOpen == client = "open" => pools[current].status = "open"

\* Every pool a refresh replaced, and after Close the last one, gets closed with
\* its connections, and Close returns.
PoolsAreClosed ==
    \A p \in 1..MaxPools :
        (p \in DOMAIN pools /\ (p # current \/ client \in {"closing", "closed"}))
            ~> (client \in {"open", "closed"} /\ p \in DOMAIN pools /\ pools[p].status = "closed")

\* A call made for a user reads and writes that user's rows only, one made for
\* nobody none, whoever used the connection before.
UsersAreIsolated ==
    [][\A g \in Caller : call[g].pc = "body" /\ call'[g].pc = "ended" =>
          {OwnerOf[i] : i \in {j \in Row : rows'[j] # rows[j]}} \cup saw'
              \subseteq {call[g].user}]_sdkVars
=============================================================================
