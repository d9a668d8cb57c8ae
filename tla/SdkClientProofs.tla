--------------------------- MODULE SdkClientProofs ---------------------------
(***************************************************************************)
(* What is proved about SdkClient for any rows, users, calls, pools and    *)
(* delays that satisfy the assumptions: the margins of the refresh loop    *)
(* suffice for one failure, the pool calls are given is open, a user's     *)
(* calls touch that user's rows only, and no pool is left open that nobody *)
(* is to close.                                                            *)
(***************************************************************************)
EXTENDS SdkClient, TLAPS

Using == {"loaded", "begun", "body"}
Holding == {"begun", "body"}

\* A call uses a pool that has been opened, holds a connection of its own from
\* the first statement on, and runs its body with the claims of its user.
CallInv(g) ==
    /\ call[g].pc \in Using => call[g].pool \in DOMAIN pools
    /\ call[g].pc \in Holding => pools[call[g].pool].holder = g
    /\ call[g].pc = "begun" => ~call[g].direct
    /\ call[g].pc = "body" =>
         pools[call[g].pool].local = IF call[g].direct THEN NoUser ELSE call[g].user

\* No claims outlive a transaction: an idle connection has none.
PoolInv(p) == /\ pools[p].session = NoUser
              /\ pools[p].holder = None => pools[p].local = NoUser

PoolsInv == /\ current = Len(pools)
            /\ current \notin closers
            /\ client = "none" => current = 0 /\ \A g \in Caller : call[g].pc = "idle"
            /\ client # "none" => current >= 1
            /\ client = "open" => pools[current].status = "open" /\ pools[current].expires = expires

\* How late the loop may be, by the number of its failures.
Latest == IF failures = 0
          THEN CASE loop.pc = "sleep"    -> expires - Lead
                 [] loop.pc = "exchange" -> expires - Lead + HttpTimeout
                 [] OTHER                -> 0
          ELSE CASE loop.pc = "backoff"  -> expires - Lead + HttpTimeout + RetryAfter
                 [] loop.pc = "sleep"    -> expires - Lead + HttpTimeout + RetryAfter + Floor
                 [] OTHER -> expires - Lead + HttpTimeout + RetryAfter + Floor + HttpTimeout

LoopInv == /\ client = "none" => loop.pc = "stopped"
           /\ loop.pc = "exchange" => HttpTimeout <= loop.until
           /\ client = "open" => /\ loop.pc # "stopped"
                                 /\ now <= loop.until
                                 /\ failures = 0 => loop.pc # "backoff"
                                 /\ failures <= 1 => loop.until <= Latest

IInv == /\ TypeOK
        /\ \A g \in Caller : CallInv(g)
        /\ \A p \in DOMAIN pools : PoolInv(p)
        /\ PoolsInv
        /\ LoopInv

-----------------------------------------------------------------------------
(***************************************************************************)
(* The collections: types, and who may see and write what.                 *)
(***************************************************************************)

\* A statement's effect is typed, and all it changes and returns is the rows of
\* the claims' user; without claims, nothing.
Isolated(c, before, effect) ==
    /\ effect[1] \in [Row -> Contents]
    /\ effect[2] \subseteq Row
    /\ \A i \in Row : i \in effect[2] \/ effect[1][i] # before[i] => c # NoUser /\ OwnerOf[i] = c

LEMMA WriteIsolated ==
    ASSUME NEW c, NEW before \in [Row -> Contents], NEW S \in SUBSET Row, NEW x \in {1, 2},
           NEW e \in Write(c, before, S, x)
    PROVE  Isolated(c, before, e)
<1>1. /\ \A i \in S : Permits(c, i)
      /\ e = <<[i \in Row |-> IF i \in S THEN x ELSE before[i]], {}>>
  BY DEF Write
<1> DEFINE after == [i \in Row |-> IF i \in S THEN x ELSE before[i]]
<1>2. /\ after \in [Row -> Contents]
      /\ \A i \in Row : after[i] # before[i] => Permits(c, i)
  BY <1>1 DEF Contents
<1> HIDE DEF after
<1>3. e[1] = after /\ e[2] = {}
  BY <1>1 DEF after
<1> QED BY <1>2, <1>3 DEF Isolated, Permits

LEMMA ChangeIsolated ==
    ASSUME NEW c, NEW before \in [Row -> Contents], NEW t, NEW i \in Row, NEW x \in Contents,
           NEW e \in Change(c, before, t, i, x)
    PROVE  Isolated(c, before, e)
<1> DEFINE after == [before EXCEPT ![i] = IF i \in Visible(c, before, t) THEN x ELSE @]
<1>1. e = <<after, {}>>
  BY DEF Change
<1>2. /\ after \in [Row -> Contents]
      /\ \A j \in Row : after[j] # before[j] => j \in Visible(c, before, t)
  OBVIOUS
<1> HIDE DEF after
<1>3. e[1] = after /\ e[2] = {}
  BY <1>1
<1> QED BY <1>2, <1>3 DEF Isolated, Visible, Permits

LEMMA ReadIsolated ==
    ASSUME NEW c, NEW before \in [Row -> Contents], NEW t, NEW S \in SUBSET Visible(c, before, t),
           NEW e \in Read(before, S)
    PROVE  Isolated(c, before, e)
<1>1. e[1] = before /\ e[2] = S
  BY DEF Read
<1>2. \A i \in S : i \in Row /\ Permits(c, i)
  BY DEF Visible, In
<1> QED BY <1>1, <1>2 DEF Isolated, Permits

\* So for every call of every collection.
LEMMA CollectionsIsolate ==
    ASSUME NEW c, NEW before \in [Row -> Contents], NEW e,
           \/ e \in TableInsertMany(c, before) \/ e \in TableInsert(c, before)
           \/ e \in TableGet(c, before) \/ e \in TableFind(c, before)
           \/ e \in TableUpdate(c, before) \/ e \in TableDelete(c, before)
           \/ e \in TableCount(c, before) \/ e \in VectorUpsertMany(c, before)
           \/ e \in GeoInsertPointMany(c, before) \/ e \in GeoInsertPoint(c, before)
           \/ e \in GeoInsert(c, before) \/ e \in GeoGet(c, before)
           \/ e \in GeoDelete(c, before) \/ e \in WithinRadius(c, before)
           \/ e \in WithinBBox(c, before) \/ e \in Nearest(c, before)
           \/ e \in GeoCount(c, before)
           \/ e \in VectorUpsert(c, before) \/ e \in VectorDelete(c, before)
           \/ e \in VectorSearch(c, before)
    PROVE  Isolated(c, before, e)
<1>1. ASSUME NEW t, e \in UNION {Write(c, before, S, 1) : S \in Absent(before, t) \ {{}}}
      PROVE  Isolated(c, before, e)
  <2>1. PICK S \in SUBSET Row : e \in Write(c, before, S, 1)
    BY <1>1 DEF Absent, In
  <2> QED BY <2>1, WriteIsolated
<1>2. ASSUME NEW t, e \in UNION {Write(c, before, {i}, 1) : i \in In(t) \ Stored(before)}
      PROVE  Isolated(c, before, e)
  <2>1. PICK i \in Row : e \in Write(c, before, {i}, 1)
    BY <1>2 DEF In
  <2> QED BY <2>1, WriteIsolated
<1>3. ASSUME NEW t, e \in UNION {Read(before, {i} \cap Visible(c, before, t)) : i \in In(t)}
      PROVE  Isolated(c, before, e)
  <2>1. PICK i \in Row : e \in Read(before, {i} \cap Visible(c, before, t))
    BY <1>3 DEF In
  <2> QED BY <2>1, ReadIsolated
<1>4. ASSUME NEW t, e \in UNION {Read(before, S) : S \in SUBSET Visible(c, before, t)}
      PROVE  Isolated(c, before, e)
  <2>1. PICK S \in SUBSET Visible(c, before, t) : e \in Read(before, S)
    BY <1>4
  <2> QED BY <2>1, ReadIsolated
<1>5. ASSUME NEW t, e \in UNION {Change(c, before, t, i, 0) : i \in In(t)}
      PROVE  Isolated(c, before, e)
  <2>1. PICK i \in Row : e \in Change(c, before, t, i, 0)
    BY <1>5 DEF In
  <2> QED BY <2>1, ChangeIsolated DEF Contents
<1>6. ASSUME e \in TableUpdate(c, before) PROVE Isolated(c, before, e)
  <2>1. PICK i \in In("documents") \cap Stored(before) :
               e \in Change(c, before, "documents", i, 3 - before[i])
    BY <1>6 DEF TableUpdate
  <2>2. i \in Row /\ 3 - before[i] \in Contents
    BY <2>1 DEF Stored, Contents
  <2> QED BY <2>1, <2>2, ChangeIsolated
<1>7. ASSUME e \in VectorUpsertMany(c, before) PROVE Isolated(c, before, e)
  <2>1. PICK S \in SUBSET Row : e \in Write(c, before, S, 2)
    BY <1>7 DEF VectorUpsertMany, In
  <2> QED BY <2>1, WriteIsolated
<1>8. ASSUME e \in VectorUpsert(c, before) PROVE Isolated(c, before, e)
  <2>1. PICK i \in Row : e \in Write(c, before, {i}, 2)
    BY <1>8 DEF VectorUpsert, In
  <2> QED BY <2>1, WriteIsolated
<1>9. ASSUME e \in UNION {scanFeatures(c, before, S) : S \in SUBSET In("geo")}
      PROVE  Isolated(c, before, e)
  <2>1. PICK S \in SUBSET Visible(c, before, "geo") : e \in Read(before, S)
    BY <1>9 DEF scanFeatures
  <2> QED BY <2>1, ReadIsolated
<1>10. e \in Nearest(c, before) => e \in UNION {scanFeatures(c, before, S) : S \in SUBSET In("geo")}
  BY DEF Nearest
<1>11. CASE e \in TableInsertMany(c, before) \/ e \in GeoInsertPointMany(c, before)
  BY <1>1, <1>11 DEF TableInsertMany, GeoInsertPointMany
<1>12. CASE e \in TableInsert(c, before) \/ e \in GeoInsertPoint(c, before) \/ e \in GeoInsert(c, before)
  BY <1>2, <1>12 DEF TableInsert, GeoInsertPoint, GeoInsert
<1>13. CASE e \in TableGet(c, before) \/ e \in GeoGet(c, before)
  BY <1>3, <1>13 DEF TableGet, GeoGet
<1>14. CASE \/ e \in TableFind(c, before) \/ e \in TableCount(c, before) \/ e \in GeoCount(c, before)
            \/ e \in VectorSearch(c, before)
  BY <1>4, <1>14 DEF TableFind, TableCount, GeoCount, VectorSearch
<1>15. CASE e \in TableDelete(c, before) \/ e \in GeoDelete(c, before) \/ e \in VectorDelete(c, before)
  BY <1>5, <1>15 DEF TableDelete, GeoDelete, VectorDelete
<1>16. CASE e \in WithinRadius(c, before) \/ e \in WithinBBox(c, before) \/ e \in Nearest(c, before)
  BY <1>9, <1>10, <1>16 DEF WithinRadius, WithinBBox
<1> QED BY <1>6, <1>7, <1>8, <1>11, <1>12, <1>13, <1>14, <1>15, <1>16

-----------------------------------------------------------------------------
(***************************************************************************)
(* Types and frames.                                                       *)
(***************************************************************************)

LEMMA Delays ==
    /\ TTL \in Nat /\ Lead \in Nat /\ Floor \in Nat /\ RetryAfter \in Nat /\ HttpTimeout \in Nat
    /\ Lead + Floor + HttpTimeout <= TTL
    /\ HttpTimeout + RetryAfter + Floor + HttpTimeout <= Lead
BY DelaysAssumption

LEMMA Callers == \A g \in Caller : g \in Nat /\ g # None
BY BoundsAssumption DEF Caller, None

LEMMA PoolTypes ==
    ASSUME TypeOK
    PROVE  /\ pools \in Seq(Pool)
           /\ Len(pools) \in Nat /\ DOMAIN pools = 1..Len(pools)
           /\ \A p \in DOMAIN pools : pools[p] \in Pool
BY DEF TypeOK

LEMMA FreshType == ASSUME NEW t \in Nat PROVE Fresh(t) \in Pool
BY DEF Fresh, Pool

\* One pool is changed.
LEMMA PoolChanged ==
    ASSUME TypeOK, NEW p \in DOMAIN pools, NEW c \in Pool, pools' = [pools EXCEPT ![p] = c]
    PROVE  /\ pools' \in Seq(Pool) /\ DOMAIN pools' = DOMAIN pools /\ Len(pools') = Len(pools)
           /\ pools'[p] = c
           /\ \A q \in DOMAIN pools : q # p => pools'[q] = pools[q]
BY PoolTypes

\* One is opened.
LEMMA PoolOpened ==
    ASSUME TypeOK, NEW c \in Pool, pools' = Append(pools, c)
    PROVE  /\ pools' \in Seq(Pool) /\ DOMAIN pools' = DOMAIN pools \cup {Len(pools) + 1}
           /\ Len(pools') = Len(pools) + 1 /\ Len(pools) + 1 \notin DOMAIN pools
           /\ pools'[Len(pools) + 1] = c
           /\ \A q \in DOMAIN pools : pools'[q] = pools[q]
BY PoolTypes

LEMMA NothingSeenType == ASSUME NothingSeen PROVE saw' \subseteq User
BY DEF NothingSeen

\* What calls know does not depend on what else happens to a pool.
SameConnections == \A p \in DOMAIN pools : /\ p \in DOMAIN pools'
                                           /\ pools'[p].holder = pools[p].holder
                                           /\ pools'[p].local = pools[p].local
                                           /\ pools'[p].session = pools[p].session

LEMMA CallsStand ==
    ASSUME IInv, SameConnections, call' = call
    PROVE  \A g \in Caller : CallInv(g)'
BY DEF IInv, CallInv, SameConnections, Using, Holding

\* The loop's times when nothing of the loop changes.
LEMMA LoopStands ==
    ASSUME IInv, UNCHANGED <<now, expires, loop, failures>>, client' = "open" => client = "open",
           client' = "none" => client = "none"
    PROVE  LoopInv'
BY DEF IInv, LoopInv, Latest

-----------------------------------------------------------------------------
(***************************************************************************)
(* Steps of the loop and of time.                                          *)
(***************************************************************************)

LEMMA NewKeeps ==
    ASSUME IInv, NEW version \in 0..1, New(version)
    PROVE  IInv'
<1>1. /\ client = "none" /\ client' = "open" /\ pools' = <<Fresh(now + TTL)>> /\ current' = 1
      /\ expires' = now + TTL /\ loop' = Asleep(now + TTL)
      /\ UNCHANGED <<now, failures, closers, call, rows>> /\ saw' = {}
  BY DEF New, NothingSeen
<1>2. /\ now \in Nat /\ failures \in Nat /\ now + TTL \in Nat /\ now + TTL - Lead \in Nat
      /\ ~(now + TTL - Lead < now + Floor) /\ now <= now + TTL - Lead
  BY Delays DEF IInv, TypeOK
<1>3. loop' = [pc |-> "sleep", until |-> now + TTL - Lead]
  <2>1. Wake(now + TTL) = now + TTL - Lead
    BY <1>2, Delays DEF Wake
  <2> QED BY <1>1, <2>1 DEF Asleep
<1>4. /\ pools' \in Seq(Pool) /\ DOMAIN pools' = {1} /\ Len(pools') = 1
      /\ pools'[1] = Fresh(now + TTL)
  BY <1>1, <1>2, FreshType
<1>5. closers = {}
  BY <1>1, PoolTypes DEF IInv, PoolsInv, TypeOK
<1>6. TypeOK'
  BY <1>1, <1>2, <1>3, <1>4, <1>5 DEF IInv, TypeOK, Loop
<1>7. \A g \in Caller : CallInv(g)'
  BY <1>1 DEF IInv, PoolsInv, CallInv, Using, Holding
<1>8. \A p \in DOMAIN pools' : PoolInv(p)'
  BY <1>4 DEF PoolInv, Fresh
<1>9. PoolsInv'
  BY <1>1, <1>4, <1>5 DEF PoolsInv, Fresh
<1>10. LoopInv'
  BY <1>1, <1>2, <1>3, Delays DEF LoopInv, Latest
<1> QED BY <1>6, <1>7, <1>8, <1>9, <1>10 DEF IInv

\* The loop's own steps that open no pool.
LEMMA LoopOnly ==
    ASSUME IInv, UNCHANGED <<pools, current, expires, closers, call, rows>>, NothingSeen,
           client' = client \/ (client' = "closing" /\ client = "open"),
           now' \in Nat, failures' \in Nat, loop' \in Loop, LoopInv'
    PROVE  IInv'
<1>1. TypeOK'
  BY NothingSeenType DEF IInv, TypeOK
<1>2. \A g \in Caller : CallInv(g)'
  BY DEF IInv, CallInv
<1>3. \A p \in DOMAIN pools' : PoolInv(p)'
  BY DEF IInv, PoolInv
<1>4. PoolsInv'
  BY DEF IInv, PoolsInv
<1> QED BY <1>1, <1>2, <1>3, <1>4 DEF IInv

LEMMA LoopTypes ==
    ASSUME TypeOK
    PROVE  /\ loop \in Loop /\ loop.until \in Nat /\ now \in Nat /\ expires \in Nat
           /\ failures \in Nat
           /\ loop.pc \in {"sleep", "exchange", "backoff", "stopped"}
BY DEF TypeOK, Loop

LEMMA AwakeKeeps ==
    ASSUME IInv, Awake
    PROVE  IInv'
<1>1. /\ loop.pc = "sleep" /\ loop.until <= now
      /\ loop' = [pc |-> "exchange", until |-> now + HttpTimeout]
      /\ UNCHANGED <<now, client, pools, current, expires, failures, closers, call, rows>>
      /\ NothingSeen
  BY DEF Awake
<1>2. now + HttpTimeout \in Nat /\ HttpTimeout <= now + HttpTimeout /\ now <= now + HttpTimeout
  BY LoopTypes, Delays DEF IInv
<1>3. loop' \in Loop /\ loop'.pc = "exchange" /\ loop'.until = now + HttpTimeout
  BY <1>1, <1>2 DEF Loop
<1>4. ASSUME client = "open", failures <= 1 PROVE loop'.until <= Latest'
  <2>1. now = loop.until /\ loop.until <= Latest
    BY <1>1, <1>4, LoopTypes DEF IInv, LoopInv
  <2> QED BY <1>1, <1>3, <2>1, LoopTypes, Delays DEF IInv, Latest
<1>5. LoopInv'
  BY <1>1, <1>2, <1>3, <1>4 DEF IInv, LoopInv
<1> QED BY <1>1, <1>3, <1>5, LoopTypes, LoopOnly DEF IInv

LEMMA RefreshFailsKeeps ==
    ASSUME IInv, RefreshFails
    PROVE  IInv'
<1>1. /\ loop.pc = "exchange" /\ failures' = failures + 1
      /\ loop' = [pc |-> "backoff", until |-> now + RetryAfter]
      /\ UNCHANGED <<now, client, pools, current, expires, closers, call, rows>>
      /\ NothingSeen
  BY DEF RefreshFails
<1>2. now + RetryAfter \in Nat /\ now <= now + RetryAfter /\ failures' \in Nat /\ failures' # 0
  BY <1>1, LoopTypes, Delays DEF IInv
<1>3. loop' \in Loop /\ loop'.pc = "backoff" /\ loop'.until = now + RetryAfter
  BY <1>1, <1>2 DEF Loop
<1>4. ASSUME client = "open", failures' <= 1 PROVE loop'.until <= Latest'
  <2>1. failures = 0
    BY <1>1, <1>4, LoopTypes DEF IInv
  <2>2. now <= loop.until /\ loop.until <= Latest
    BY <1>4, <2>1 DEF IInv, LoopInv
  <2>3. Latest = expires - Lead + HttpTimeout
    BY <1>1, <2>1 DEF Latest
  <2>4. Latest' = expires - Lead + HttpTimeout + RetryAfter
    BY <1>1, <1>2, <1>3 DEF Latest
  <2> QED BY <1>3, <2>2, <2>3, <2>4, LoopTypes, Delays DEF IInv
<1>5. LoopInv'
  BY <1>1, <1>2, <1>3, <1>4 DEF IInv, LoopInv
<1> QED BY <1>1, <1>2, <1>3, <1>5, LoopTypes, LoopOnly DEF IInv

LEMMA RetryKeeps ==
    ASSUME IInv, Retry
    PROVE  IInv'
<1>1. /\ loop.pc = "backoff" /\ loop' = [pc |-> "sleep", until |-> Wake(expires)]
      /\ UNCHANGED <<now, client, pools, current, expires, failures, closers, call, rows>>
      /\ NothingSeen
  BY DEF Retry, Asleep
<1>2. now \in Nat /\ expires \in Nat
  BY LoopTypes DEF IInv
<1>3. /\ Wake(expires) \in Nat /\ now <= Wake(expires)
      /\ Wake(expires) = now + Floor \/ Wake(expires) = expires - Lead
  BY <1>2, Delays DEF Wake
<1>4. loop' \in Loop /\ loop'.pc = "sleep" /\ loop'.until = Wake(expires)
  BY <1>1, <1>3 DEF Loop
<1>5. ASSUME client = "open", failures <= 1 PROVE loop'.until <= Latest'
  <2>1. failures # 0 /\ now <= loop.until /\ loop.until <= Latest
    BY <1>1, <1>5 DEF IInv, LoopInv
  <2>2. Latest = expires - Lead + HttpTimeout + RetryAfter
    BY <1>1, <2>1 DEF Latest
  <2>3. Latest' = expires - Lead + HttpTimeout + RetryAfter + Floor
    BY <1>1, <1>4, <2>1 DEF Latest
  <2> QED BY <1>3, <1>4, <2>1, <2>2, <2>3, LoopTypes, Delays DEF IInv
<1>6. LoopInv'
  BY <1>1, <1>3, <1>4, <1>5 DEF IInv, LoopInv
<1> QED BY <1>1, <1>4, <1>6, LoopTypes, LoopOnly DEF IInv

LEMMA SdkTickKeeps ==
    ASSUME IInv, Tick
    PROVE  IInv'
<1>1. /\ client = "open" /\ (loop.pc # "stopped" => now < loop.until) /\ now' = now + 1
      /\ UNCHANGED <<client, pools, current, expires, loop, failures, closers, call, rows>>
      /\ NothingSeen
  BY DEF Tick, sharedVars
<1>2. LoopInv'
  BY <1>1, LoopTypes DEF IInv, LoopInv, Latest
<1>3. now' \in Nat
  BY <1>1, LoopTypes DEF IInv
<1> QED BY <1>1, <1>2, <1>3, LoopTypes, LoopOnly DEF IInv

LEMMA ClosingKeeps ==
    ASSUME IInv, Close \/ LoopStops
    PROVE  IInv'
<1>1. /\ UNCHANGED <<now, pools, current, expires, failures, closers, call, rows>> /\ NothingSeen
      /\ client' = "closing" /\ client \in {"open", "closing"}
      /\ loop' = loop \/ loop' = Stopped
  BY DEF Close, LoopStops
<1>2. Stopped \in Loop /\ Stopped.pc = "stopped"
  BY DEF Stopped, Loop
<1>3. LoopInv'
  BY <1>1, <1>2 DEF IInv, LoopInv
<1> QED BY <1>1, <1>2, <1>3, LoopTypes, LoopOnly DEF IInv

\* A refresh in time: the credential is at most HttpTimeout old, and the loop
\* sleeps until Lead before it ends, never less than Floor.
LEMMA refreshKeeps ==
    ASSUME IInv, refresh
    PROVE  IInv'
<1>1. PICK minted \in (loop.until - HttpTimeout)..now :
        /\ pools' = Append(pools, Fresh(minted + TTL))
        /\ current' = Len(pools) + 1
        /\ closers' = closers \cup {current}
        /\ expires' = minted + TTL
        /\ loop' = [pc |-> "sleep", until |-> Wake(minted + TTL)]
  BY DEF refresh, Retire, Asleep
<1>2. /\ loop.pc = "exchange" /\ failures' = 0
      /\ UNCHANGED <<now, client, call, rows>> /\ NothingSeen
  BY DEF refresh
<1>3. /\ HttpTimeout <= loop.until
      /\ client = "open" => now <= loop.until
      /\ now \in Nat /\ loop.until \in Nat
  BY <1>2, LoopTypes DEF IInv, LoopInv
<1>4. minted \in Nat /\ minted + TTL \in Nat /\ minted <= now /\ loop.until - HttpTimeout <= minted
  BY <1>1, <1>3, Delays
<1>5. Wake(minted + TTL) \in Nat /\ now <= Wake(minted + TTL)
  BY <1>3, <1>4, Delays DEF Wake
<1>6. client = "open" => Wake(minted + TTL) = minted + TTL - Lead
  BY <1>3, <1>4, Delays DEF Wake
<1>7. /\ pools' \in Seq(Pool) /\ DOMAIN pools' = DOMAIN pools \cup {Len(pools) + 1}
      /\ Len(pools') = Len(pools) + 1 /\ Len(pools) + 1 \notin DOMAIN pools
      /\ pools'[Len(pools) + 1] = Fresh(minted + TTL)
      /\ \A q \in DOMAIN pools : pools'[q] = pools[q]
  BY <1>1, <1>4, FreshType, PoolOpened DEF IInv
<1>8. client # "none" /\ current = Len(pools) /\ current \in DOMAIN pools
  <2>1. client # "none"
    BY <1>2 DEF IInv, PoolsInv, LoopInv
  <2> QED BY <2>1, PoolTypes DEF IInv, PoolsInv
<1>9. TypeOK'
  <2>1. loop' \in Loop
    BY <1>1, <1>5 DEF Loop
  <2>2. current' \in 0..Len(pools') /\ closers' \subseteq DOMAIN pools' /\ expires' \in Nat
    BY <1>1, <1>4, <1>7, <1>8, PoolTypes DEF IInv, TypeOK
  <2> QED BY <1>2, <1>7, <2>1, <2>2, NothingSeenType DEF IInv, TypeOK
<1>10. \A g \in Caller : CallInv(g)'
  BY <1>2, <1>7, CallsStand DEF SameConnections
<1>11. \A p \in DOMAIN pools' : PoolInv(p)'
  BY <1>7 DEF IInv, PoolInv, Fresh
<1>12. PoolsInv'
  <2>1. current' = Len(pools') /\ current' >= 1
    BY <1>1, <1>7, PoolTypes DEF IInv
  <2>2. current' \notin closers'
    BY <1>1, <1>7, <1>8 DEF IInv, TypeOK
  <2>3. pools'[current'].status = "open" /\ pools'[current'].expires = expires'
    BY <1>1, <1>7 DEF Fresh
  <2> QED BY <1>2, <1>8, <2>1, <2>2, <2>3 DEF PoolsInv
<1>13. LoopInv'
  <2>1. loop'.pc = "sleep" /\ loop'.until = Wake(minted + TTL)
    BY <1>1
  <2>2. Latest' = minted + TTL - Lead
    BY <1>1, <1>2, <1>4, <2>1, Delays DEF Latest
  <2>3. client' # "none"
    BY <1>2, <1>8
  <2>4. Wake(minted + TTL) = minted + TTL - Lead =>
          Wake(minted + TTL) <= minted + TTL - Lead
    BY <1>4, Delays
  <2> QED BY <1>2, <1>5, <1>6, <2>1, <2>2, <2>3, <2>4 DEF LoopInv
<1> QED BY <1>9, <1>10, <1>11, <1>12, <1>13 DEF IInv

-----------------------------------------------------------------------------
(***************************************************************************)
(* Steps of the closers and of calls.                                      *)
(***************************************************************************)

\* A pool that is not the one in use of an open client goes towards its end.
LEMMA StatusChanged ==
    ASSUME IInv, NEW p \in DOMAIN pools, NEW c \in Pool, pools' = [pools EXCEPT ![p] = c],
           c.holder = pools[p].holder, c.local = pools[p].local, c.session = pools[p].session,
           c.expires = pools[p].expires,
           p = current => c.status = pools[p].status \/ client' # "open",
           UNCHANGED <<now, current, expires, loop, failures, call, rows>>, NothingSeen,
           closers' \subseteq closers,
           client' \in {client, "closed"}, client' = "closed" => client # "none"
    PROVE  IInv'
<1>1. /\ pools' \in Seq(Pool) /\ DOMAIN pools' = DOMAIN pools /\ Len(pools') = Len(pools)
      /\ pools'[p] = c
      /\ \A q \in DOMAIN pools : q # p => pools'[q] = pools[q]
  BY PoolChanged DEF IInv
<1>2. TypeOK'
  BY <1>1, NothingSeenType DEF IInv, TypeOK
<1>3. SameConnections
  BY <1>1 DEF SameConnections
<1>4. \A g \in Caller : CallInv(g)'
  BY <1>3, CallsStand
<1>5. \A q \in DOMAIN pools' : PoolInv(q)'
  BY <1>1, <1>3 DEF IInv, PoolInv, SameConnections
<1>6. client # "none" => current \in DOMAIN pools
  BY PoolTypes DEF IInv, PoolsInv
<1>7. PoolsInv'
  BY <1>1, <1>6 DEF IInv, PoolsInv
<1>8. LoopInv'
  BY LoopStands
<1> QED BY <1>2, <1>4, <1>5, <1>7, <1>8 DEF IInv

LEMMA PoolClosed ==
    ASSUME IInv, NEW p \in DOMAIN pools, PoolClose(p)
    PROVE  \E c \in Pool : /\ pools' = [pools EXCEPT ![p] = c]
                           /\ c.holder = pools[p].holder /\ c.local = pools[p].local
                           /\ c.session = pools[p].session /\ c.expires = pools[p].expires
<1> DEFINE c == [pools[p] EXCEPT !.status = IF @ = "open" THEN "closing" ELSE @]
<1>1. pools[p] \in Pool
  BY PoolTypes DEF IInv
<1>2. /\ c \in Pool /\ c.holder = pools[p].holder /\ c.local = pools[p].local
      /\ c.session = pools[p].session /\ c.expires = pools[p].expires
  BY <1>1 DEF Pool
<1>3. pools' = [pools EXCEPT ![p] = c]
  BY DEF PoolClose
<1> QED BY <1>2, <1>3

LEMMA closerKeeps ==
    ASSUME IInv, NEW p \in DOMAIN pools, closer(p)
    PROVE  IInv'
<1>1. /\ p \in closers /\ PoolClose(p) /\ closers' = closers \ {p}
      /\ UNCHANGED <<now, client, current, expires, loop, failures, call, rows>> /\ NothingSeen
  BY DEF closer, Captured
<1>2. p # current
  BY <1>1 DEF IInv, PoolsInv
<1> QED BY <1>1, <1>2, PoolClosed, StatusChanged

LEMMA DrainedKeeps ==
    ASSUME IInv, NEW p \in DOMAIN pools, Drained(p)
    PROVE  IInv'
<1> DEFINE c == [pools[p] EXCEPT !.status = "closed", !.up = FALSE]
<1>1. /\ pools[p].status = "closing" /\ pools' = [pools EXCEPT ![p] = c]
      /\ UNCHANGED <<now, client, current, expires, loop, failures, closers, call, rows>>
      /\ NothingSeen
  BY DEF Drained
<1>2. pools[p] \in Pool
  BY PoolTypes DEF IInv
<1>3. /\ c \in Pool /\ c.holder = pools[p].holder /\ c.local = pools[p].local
      /\ c.session = pools[p].session /\ c.expires = pools[p].expires
  BY <1>2 DEF Pool
<1> HIDE DEF c
<1>4. p = current => client' # "open"
  BY <1>1 DEF IInv, PoolsInv
<1>5. client' \in {client, "closed"} /\ (client' = "closed" => client # "none")
  BY <1>1
<1> QED BY <1>1, <1>3, <1>4, <1>5, StatusChanged

LEMMA CloseEndsKeeps ==
    ASSUME IInv, CloseEnds
    PROVE  IInv'
<1>1. /\ client = "closing" /\ client' = "closed" /\ PoolClose(current)
      /\ UNCHANGED <<now, current, expires, loop, failures, closers, call, rows>> /\ NothingSeen
  BY DEF CloseEnds
<1>2. current \in DOMAIN pools
  BY <1>1, PoolTypes DEF IInv, PoolsInv
<1> QED BY <1>1, <1>2, PoolClosed, StatusChanged

LEMMA CallTypes ==
    ASSUME IInv, NEW g \in Caller
    PROVE  /\ call[g] \in Call /\ call[g].user \in User \cup {NoUser} /\ call[g].direct \in BOOLEAN
           /\ call[g].pc # "idle" => client # "none"
           /\ call[g].pc \in Using =>
                /\ call[g].pool \in DOMAIN pools
                /\ pools[call[g].pool] \in Pool
                /\ PoolInv(call[g].pool)
BY PoolTypes DEF IInv, TypeOK, Call, PoolsInv, CallInv

LEMMA Call0Type == ASSUME NEW pc \in {"idle", "ended"} PROVE Call0(pc) \in Call /\ Call0(pc).pc = pc
BY DEF Call0, Call

\* One call does something of its own.
LEMMA CallStepsAlone ==
    ASSUME IInv, NEW g \in Caller, NEW k \in Call, call' = [call EXCEPT ![g] = k],
           UNCHANGED <<now, sharedVars, rows>>, NothingSeen, CallInv(g)', client # "none"
    PROVE  IInv'
<1>1. UNCHANGED <<now, client, pools, current, expires, loop, failures, closers, rows>>
  BY DEF sharedVars
<1>2. call' \in [Caller -> Call] /\ \A h \in Caller : h # g => call'[h] = call[h]
  BY DEF IInv, TypeOK
<1>3. TypeOK'
  BY <1>1, <1>2, NothingSeenType DEF IInv, TypeOK
<1>4. \A h \in Caller : CallInv(h)'
  BY <1>1, <1>2 DEF IInv, CallInv
<1>5. PoolsInv' /\ \A p \in DOMAIN pools' : PoolInv(p)'
  BY <1>1 DEF IInv, PoolsInv, PoolInv
<1>6. LoopInv'
  BY <1>1, LoopStands
<1> QED BY <1>3, <1>4, <1>5, <1>6 DEF IInv

\* One call takes, uses or gives back the connection of its pool.
LEMMA CallUsesPool ==
    ASSUME IInv, NEW g \in Caller, NEW p \in DOMAIN pools, NEW c \in Pool, NEW k \in Call,
           pools' = [pools EXCEPT ![p] = c], call' = [call EXCEPT ![g] = k],
           c.status = pools[p].status, c.expires = pools[p].expires,
           pools[p].holder \in {None, g},
           c.session = NoUser, c.holder = None => c.local = NoUser,
           UNCHANGED <<now, client, current, expires, loop, failures, closers>>,
           rows' \in [Row -> Contents], saw' \subseteq User,
           CallInv(g)', client # "none"
    PROVE  IInv'
<1>1. /\ pools' \in Seq(Pool) /\ DOMAIN pools' = DOMAIN pools /\ Len(pools') = Len(pools)
      /\ pools'[p] = c
      /\ \A q \in DOMAIN pools : q # p => pools'[q] = pools[q]
  BY PoolChanged DEF IInv
<1>2. call' \in [Caller -> Call] /\ \A h \in Caller : h # g => call'[h] = call[h]
  BY DEF IInv, TypeOK
<1>3. TypeOK'
  BY <1>1, <1>2 DEF IInv, TypeOK
<1>4. ASSUME NEW h \in Caller, h # g PROVE CallInv(h)'
  <2>1. CallInv(h) /\ call'[h] = call[h]
    BY <1>2, <1>4 DEF IInv
  <2>2. call[h].pc \in Holding => call[h].pool # p
    BY <1>4, <2>1, Callers DEF CallInv
  <2>3. call[h].pc \in Holding => call[h].pool \in DOMAIN pools
    BY <2>1 DEF CallInv, Holding, Using
  <2> QED BY <1>1, <2>1, <2>2, <2>3 DEF CallInv, Holding
<1>5. \A q \in DOMAIN pools' : PoolInv(q)'
  BY <1>1 DEF IInv, PoolInv
<1>6. PoolsInv'
  <2>1. current \in DOMAIN pools
    BY PoolTypes DEF IInv, PoolsInv
  <2> QED BY <1>1, <2>1 DEF IInv, PoolsInv
<1>7. LoopInv'
  BY LoopStands
<1> QED BY <1>3, <1>4, <1>5, <1>6, <1>7 DEF IInv

LEMMA LoadKeeps ==
    ASSUME IInv, NEW g \in Caller, NEW u \in User \cup {NoUser}, NEW d \in BOOLEAN, Load(g, u, d)
    PROVE  IInv'
<1> DEFINE k == [pc |-> "loaded", pool |-> current, user |-> u, direct |-> d]
<1>1. /\ client # "none" /\ call' = [call EXCEPT ![g] = k] /\ NothingSeen
      /\ UNCHANGED <<now, sharedVars, rows>>
  BY DEF Load
<1>2. current \in DOMAIN pools /\ current \in Nat
  BY <1>1, PoolTypes DEF IInv, PoolsInv
<1>3. k \in Call
  BY <1>2 DEF Call
<1>4. call'[g] = k /\ pools' = pools
  BY <1>1 DEF IInv, TypeOK, sharedVars
<1>5. CallInv(g)'
  BY <1>2, <1>4 DEF CallInv, Using, Holding
<1> QED BY <1>1, <1>3, <1>5, CallStepsAlone

LEMMA AcquireFailsKeeps ==
    ASSUME IInv, NEW g \in Caller, AcquireFails(g)
    PROVE  IInv'
<1>1. /\ call[g].pc = "loaded" /\ call' = [call EXCEPT ![g] = Call0("ended")]
      /\ UNCHANGED <<now, sharedVars, rows>> /\ NothingSeen
  BY DEF AcquireFails, Ended
<1>2. client # "none"
  BY <1>1, CallTypes
<1>3. call'[g] = Call0("ended") /\ Call0("ended").pc = "ended"
  BY <1>1, Call0Type DEF IInv, TypeOK
<1>4. CallInv(g)'
  BY <1>3 DEF CallInv, Using, Holding
<1> QED BY <1>1, <1>2, <1>4, Call0Type, CallStepsAlone

LEMMA AcquireKeeps ==
    ASSUME IInv, NEW g \in Caller, Acquire(g)
    PROVE  IInv'
<1> DEFINE p == call[g].pool
           c == [pools[p] EXCEPT !.holder = g, !.up = TRUE]
           k == [call[g] EXCEPT !.pc = IF call[g].direct \/ call[g].user = NoUser
                                       THEN "body" ELSE "begun"]
<1>1. /\ call[g].pc = "loaded" /\ pools[p].holder = None
      /\ pools' = [pools EXCEPT ![p] = c] /\ call' = [call EXCEPT ![g] = k]
      /\ UNCHANGED <<now, client, current, expires, loop, failures, closers, rows>>
      /\ NothingSeen
  BY DEF Acquire
<1>2. /\ call[g] \in Call /\ client # "none" /\ p \in DOMAIN pools /\ pools[p] \in Pool /\ PoolInv(p)
  BY <1>1, CallTypes DEF Using
<1>3. /\ c \in Pool /\ c.status = pools[p].status /\ c.expires = pools[p].expires
      /\ c.session = NoUser /\ c.local = NoUser /\ c.holder = g
  BY <1>1, <1>2 DEF Pool, PoolInv
<1>4. /\ k \in Call /\ k.pool = p /\ k.direct = call[g].direct /\ k.user = call[g].user
      /\ k.pc = IF call[g].direct \/ call[g].user = NoUser THEN "body" ELSE "begun"
  BY <1>2 DEF Call
<1> HIDE DEF c, k
<1>5. pools'[p] = c /\ DOMAIN pools' = DOMAIN pools /\ call'[g] = k
  BY <1>1, <1>2, <1>3, <1>4, PoolChanged DEF IInv, TypeOK
<1>6. CallInv(g)'
  BY <1>2, <1>3, <1>4, <1>5 DEF CallInv, Using, Holding
<1>7. rows' \in [Row -> Contents] /\ saw' \subseteq User
  BY <1>1, NothingSeenType DEF IInv, TypeOK
<1>8. c.holder = None => c.local = NoUser
  BY <1>3
<1> QED BY <1>1, <1>2, <1>3, <1>4, <1>6, <1>7, <1>8, CallUsesPool

LEMMA SetConfigKeeps ==
    ASSUME IInv, NEW g \in Caller, SetConfig(g)
    PROVE  IInv'
<1> DEFINE p == call[g].pool
           c == [pools[p] EXCEPT !.local = call[g].user]
           k == [call[g] EXCEPT !.pc = "body"]
<1>1. /\ call[g].pc = "begun"
      /\ pools' = [pools EXCEPT ![p] = c] /\ call' = [call EXCEPT ![g] = k]
      /\ UNCHANGED <<now, client, current, expires, loop, failures, closers, rows>>
      /\ NothingSeen
  BY DEF SetConfig, WithClaims
<1>2. /\ call[g] \in Call /\ call[g].user \in User \cup {NoUser} /\ client # "none"
      /\ p \in DOMAIN pools /\ pools[p] \in Pool /\ PoolInv(p)
      /\ ~call[g].direct /\ pools[p].holder = g
  BY <1>1, CallTypes DEF Using, Holding, IInv, CallInv
<1>3. /\ c \in Pool /\ c.status = pools[p].status /\ c.expires = pools[p].expires
      /\ c.session = NoUser /\ c.local = call[g].user /\ c.holder = g
  BY <1>2 DEF Pool, PoolInv
<1>4. /\ k \in Call /\ k.pool = p /\ k.direct = call[g].direct /\ k.user = call[g].user
      /\ k.pc = "body"
  BY <1>2 DEF Call
<1> HIDE DEF c, k
<1>5. pools'[p] = c /\ DOMAIN pools' = DOMAIN pools /\ call'[g] = k
  BY <1>1, <1>2, <1>3, <1>4, PoolChanged DEF IInv, TypeOK
<1>6. CallInv(g)'
  BY <1>2, <1>3, <1>4, <1>5 DEF CallInv, Using, Holding
<1>7. rows' \in [Row -> Contents] /\ saw' \subseteq User
  BY <1>1, NothingSeenType DEF IInv, TypeOK
<1>8. c.holder # None
  BY <1>3, Callers
<1> QED BY <1>1, <1>2, <1>3, <1>4, <1>6, <1>7, <1>8, CallUsesPool

\* The connection comes back, or is lost, and the call is over.
LEMMA CallEnds ==
    ASSUME IInv, NEW g \in Caller, call[g].pc \in Holding, Ended(g),
           \/ pools' = Released(call[g].pool)
           \/ pools' = [pools EXCEPT ![call[g].pool] = [@ EXCEPT !.up = FALSE, !.holder = None,
                                                         !.session = NoUser, !.local = NoUser]],
           UNCHANGED <<now, client, current, expires, loop, failures, closers>>,
           rows' \in [Row -> Contents], saw' \subseteq User
    PROVE  IInv'
<1> DEFINE p == call[g].pool
<1>1. /\ call[g] \in Call /\ client # "none" /\ p \in DOMAIN pools /\ pools[p] \in Pool /\ PoolInv(p)
      /\ pools[p].holder = g
  BY CallTypes DEF Using, Holding, IInv, CallInv
<1>2. PICK c \in Pool : /\ pools' = [pools EXCEPT ![p] = c]
                        /\ c.status = pools[p].status /\ c.expires = pools[p].expires
                        /\ c.session = NoUser /\ c.local = NoUser /\ c.holder = None
  <2>1. ASSUME pools' = Released(p)
        PROVE  \E c \in Pool : /\ pools' = [pools EXCEPT ![p] = c]
                               /\ c.status = pools[p].status /\ c.expires = pools[p].expires
                               /\ c.session = NoUser /\ c.local = NoUser /\ c.holder = None
    <3> DEFINE c == [pools[p] EXCEPT !.holder = None, !.local = NoUser]
    <3>1. /\ c \in Pool /\ c.status = pools[p].status /\ c.expires = pools[p].expires
          /\ c.session = NoUser /\ c.local = NoUser /\ c.holder = None
      BY <1>1 DEF Pool, PoolInv
    <3>2. pools' = [pools EXCEPT ![p] = c]
      BY <2>1 DEF Released
    <3> QED BY <3>1, <3>2
  <2>2. ASSUME pools' = [pools EXCEPT ![p] = [@ EXCEPT !.up = FALSE, !.holder = None,
                                                        !.session = NoUser, !.local = NoUser]]
        PROVE  \E c \in Pool : /\ pools' = [pools EXCEPT ![p] = c]
                               /\ c.status = pools[p].status /\ c.expires = pools[p].expires
                               /\ c.session = NoUser /\ c.local = NoUser /\ c.holder = None
    <3> DEFINE c == [pools[p] EXCEPT !.up = FALSE, !.holder = None,
                                     !.session = NoUser, !.local = NoUser]
    <3>1. /\ c \in Pool /\ c.status = pools[p].status /\ c.expires = pools[p].expires
          /\ c.session = NoUser /\ c.local = NoUser /\ c.holder = None
      BY <1>1 DEF Pool
    <3>2. pools' = [pools EXCEPT ![p] = c]
      BY <2>2
    <3> QED BY <3>1, <3>2
  <2> QED BY <2>1, <2>2
<1>3. call' = [call EXCEPT ![g] = Call0("ended")] /\ call'[g].pc = "ended"
  BY Call0Type DEF Ended, IInv, TypeOK
<1>4. CallInv(g)'
  BY <1>3 DEF CallInv, Using, Holding
<1> QED BY <1>1, <1>2, <1>3, <1>4, Call0Type, CallUsesPool

LEMMA RollbackKeeps ==
    ASSUME IInv, NEW g \in Caller, Rollback(g) \/ ConnectionLost(g)
    PROVE  IInv'
<1>1. /\ call[g].pc \in Holding /\ Ended(g) /\ rows' = rows /\ NothingSeen
      /\ UNCHANGED <<now, client, current, expires, loop, failures, closers>>
  BY DEF Rollback, ConnectionLost, Holding
<1>2. rows' \in [Row -> Contents] /\ saw' \subseteq User
  BY <1>1, NothingSeenType DEF IInv, TypeOK
<1>3. CASE Rollback(g)
  <2>1. pools' = Released(call[g].pool)
    BY <1>3 DEF Rollback
  <2> QED BY <1>1, <1>2, <2>1, CallEnds
<1>4. CASE ConnectionLost(g)
  <2>1. pools' = [pools EXCEPT ![call[g].pool] = [@ EXCEPT !.up = FALSE, !.holder = None,
                                                         !.session = NoUser, !.local = NoUser]]
    BY <1>4 DEF ConnectionLost
  <2> QED BY <1>1, <1>2, <2>1, CallEnds
<1> QED BY <1>3, <1>4

\* Whatever the call is, its effect is that of one of the collections'.
LEMMA BodyIsolates ==
    ASSUME IInv, NEW g \in Caller, Body(g)
    PROVE  \E e : /\ Isolated(Claims(pools[call[g].pool]), rows, e)
                  /\ rows' = e[1] /\ saw' = {OwnerOf[i] : i \in e[2]}
                  /\ Ended(g) /\ pools' = Released(call[g].pool)
                  /\ UNCHANGED <<now, client, current, expires, loop, failures, closers>>
<1> DEFINE c == Claims(pools[call[g].pool])
<1> DEFINE Here(effects) == Statement(g, effects)
<1>1. rows \in [Row -> Contents]
  BY DEF IInv, TypeOK
<1>2. \/ Here(TableInsertMany(c, rows)) \/ Here(TableInsert(c, rows))
      \/ Here(TableGet(c, rows)) \/ Here(TableFind(c, rows))
      \/ Here(TableUpdate(c, rows)) \/ Here(TableDelete(c, rows))
      \/ Here(TableCount(c, rows)) \/ Here(VectorUpsertMany(c, rows))
      \/ Here(GeoInsertPointMany(c, rows)) \/ Here(GeoInsertPoint(c, rows))
      \/ Here(GeoInsert(c, rows)) \/ Here(GeoGet(c, rows))
      \/ Here(GeoDelete(c, rows)) \/ Here(WithinRadius(c, rows))
      \/ Here(WithinBBox(c, rows)) \/ Here(Nearest(c, rows))
      \/ Here(GeoCount(c, rows))
      \/ Here(VectorUpsert(c, rows)) \/ Here(VectorDelete(c, rows))
      \/ Here(VectorSearch(c, rows))
  BY DEF Body
<1> HIDE DEF c
<1>3. PICK e : /\ rows' = e[1] /\ saw' = {OwnerOf[i] : i \in e[2]}
               /\ Ended(g) /\ pools' = Released(call[g].pool)
               /\ UNCHANGED <<now, client, current, expires, loop, failures, closers>>
               /\ \/ e \in TableInsertMany(c, rows) \/ e \in TableInsert(c, rows)
                  \/ e \in TableGet(c, rows) \/ e \in TableFind(c, rows)
                  \/ e \in TableUpdate(c, rows) \/ e \in TableDelete(c, rows)
                  \/ e \in TableCount(c, rows) \/ e \in VectorUpsertMany(c, rows)
                  \/ e \in GeoInsertPointMany(c, rows) \/ e \in GeoInsertPoint(c, rows)
                  \/ e \in GeoInsert(c, rows) \/ e \in GeoGet(c, rows)
                  \/ e \in GeoDelete(c, rows) \/ e \in WithinRadius(c, rows)
                  \/ e \in WithinBBox(c, rows) \/ e \in Nearest(c, rows)
                  \/ e \in GeoCount(c, rows)
                  \/ e \in VectorUpsert(c, rows) \/ e \in VectorDelete(c, rows)
                  \/ e \in VectorSearch(c, rows)
  BY <1>2 DEF Statement
<1>4. Isolated(c, rows, e)
  BY <1>1, <1>3, CollectionsIsolate
<1> QED BY <1>3, <1>4 DEF c

LEMMA BodyKeeps ==
    ASSUME IInv, NEW g \in Caller, Body(g)
    PROVE  IInv'
<1>1. PICK e : /\ Isolated(Claims(pools[call[g].pool]), rows, e)
               /\ rows' = e[1] /\ saw' = {OwnerOf[i] : i \in e[2]}
               /\ Ended(g) /\ pools' = Released(call[g].pool)
               /\ UNCHANGED <<now, client, current, expires, loop, failures, closers>>
  BY BodyIsolates
<1>2. rows' \in [Row -> Contents] /\ saw' \subseteq User
  BY <1>1, RowsAssumption DEF Isolated
<1>3. call[g].pc \in Holding
  BY DEF Body, Holding
<1> QED BY <1>1, <1>2, <1>3, CallEnds

-----------------------------------------------------------------------------
(***************************************************************************)
(* The invariant.                                                          *)
(***************************************************************************)

LEMMA Initial == Init => IInv
<1> SUFFICES ASSUME Init PROVE IInv
  OBVIOUS
<1>1. /\ now = 0 /\ client = "none" /\ pools = <<>> /\ current = 0 /\ expires = 0
      /\ loop = Stopped /\ failures = 0 /\ closers = {}
      /\ call = [g \in Caller |-> Call0("idle")]
      /\ rows = [i \in Row |-> IF i \in Before THEN 1 ELSE 0]
      /\ saw = {}
  BY DEF Init
<1>2. /\ pools \in Seq(Pool) /\ DOMAIN pools = {} /\ Len(pools) = 0
  BY <1>1
<1>3. \A g \in Caller : call[g].pc = "idle" /\ call[g] \in Call
  BY <1>1, Call0Type
<1>4. TypeOK
  BY <1>1, <1>2, <1>3, Call0Type DEF TypeOK, Stopped, Loop, Contents
<1>5. \A g \in Caller : CallInv(g)
  BY <1>3 DEF CallInv, Using, Holding
<1>6. PoolsInv
  BY <1>1, <1>2, <1>3 DEF PoolsInv
<1>7. LoopInv
  BY <1>1 DEF LoopInv, Stopped
<1> QED BY <1>2, <1>4, <1>5, <1>6, <1>7 DEF IInv

LEMMA Inductive == IInv /\ [Next]_sdkVars => IInv'
<1> SUFFICES ASSUME IInv, [Next]_sdkVars PROVE IInv'
  OBVIOUS
<1>1. ASSUME NEW version \in 0..1, New(version) PROVE IInv'
  BY <1>1, NewKeeps
<1>2. CASE LoopStep
  BY <1>2, AwakeKeeps, refreshKeeps, RefreshFailsKeeps, RetryKeeps, ClosingKeeps DEF LoopStep
<1>3. CASE Tick
  BY <1>3, SdkTickKeeps
<1>4. CASE Close \/ CloseEnds
  BY <1>4, ClosingKeeps, CloseEndsKeeps
<1>5. ASSUME NEW p \in DOMAIN pools, closer(p) \/ Drained(p) PROVE IInv'
  BY <1>5, closerKeeps, DrainedKeeps
<1>6. ASSUME NEW g \in Caller, CallStep(g) \/ ConnectionLost(g) PROVE IInv'
  BY <1>6, AcquireKeeps, AcquireFailsKeeps, SetConfigKeeps, RollbackKeeps, BodyKeeps DEF CallStep
<1>7. ASSUME NEW g \in Caller, NEW u \in User \cup {NoUser}, NEW d \in BOOLEAN, Load(g, u, d)
      PROVE  IInv'
  BY <1>7, LoadKeeps
<1>8. CASE UNCHANGED sdkVars
  <2>1. UNCHANGED <<now, client, pools, current, expires, loop, failures, closers, call, rows, saw>>
    BY <1>8 DEF sdkVars, sharedVars
  <2>2. TypeOK'
    BY <2>1 DEF IInv, TypeOK
  <2>3. (\A g \in Caller : CallInv(g)') /\ \A p \in DOMAIN pools' : PoolInv(p)'
    BY <2>1 DEF IInv, CallInv, PoolInv
  <2>4. PoolsInv'
    BY <2>1 DEF IInv, PoolsInv
  <2>5. LoopInv'
    BY <2>1, LoopStands
  <2> QED BY <2>2, <2>3, <2>4, <2>5 DEF IInv
<1> QED BY <1>1, <1>2, <1>3, <1>4, <1>5, <1>6, <1>7, <1>8 DEF Next

\* The client's life, its pools, the calls that hold their connections and the
\* loop's times fit together in every reachable state (conn, refreshLoop, run).
THEOREM SdkInvariant == Spec => []IInv
<1>1. Init => IInv
  BY Initial
<1>2. IInv /\ [Next]_sdkVars => IInv'
  BY Inductive
<1> QED BY <1>1, <1>2, PTL DEF Spec

\* No step leaves the types of the client's state.
THEOREM SdkTyped == Spec => []TypeOK
<1>1. IInv => TypeOK
  BY DEF IInv
<1> QED BY <1>1, SdkInvariant, PTL

LEMMA MarginsSuffice == IInv => OneFailureIsTolerated
<1> SUFFICES ASSUME IInv, client = "open", failures <= 1
             PROVE  now <= expires /\ pools[current].expires = expires
  BY DEF OneFailureIsTolerated
<1>1. pools[current].expires = expires
  BY DEF IInv, PoolsInv
<1>2. now <= loop.until /\ loop.until <= Latest
  BY DEF IInv, LoopInv
<1>3. Latest <= expires
  <2>1. failures = 0 => loop.pc \in {"sleep", "exchange"}
    BY LoopTypes DEF IInv, LoopInv
  <2> QED BY <2>1, LoopTypes, Delays DEF Latest, IInv
<1>4. Latest \in Int /\ expires \in Nat /\ now \in Nat /\ loop.until \in Nat
  BY LoopTypes, Delays DEF Latest, IInv
<1> QED BY <1>1, <1>2, <1>3, <1>4

\* The delays of refreshLoop leave no moment at which a client one of whose
\* refreshes failed hands out a pool it cannot log in with.
THEOREM MarginsAddUp == Spec => []OneFailureIsTolerated
BY SdkInvariant, MarginsSuffice, PTL

\* The closers goroutines close the pools that were swapped out, never the one in use.
THEOREM CallsGetAnOpenPool == Spec => []CurrentPoolIsOpen
<1>1. IInv => CurrentPoolIsOpen
  BY DEF IInv, PoolsInv, CurrentPoolIsOpen
<1> QED BY <1>1, SdkInvariant, PTL

\* A step of a call that ends its body.
EndsBody(g) == call[g].pc = "body" /\ call'[g].pc = "ended"
Touched == {OwnerOf[i] : i \in {j \in Row : rows'[j] # rows[j]}} \cup saw'

LEMMA OnlyItsStep ==
    ASSUME IInv, Next, NEW g \in Caller, EndsBody(g)
    PROVE  Body(g) \/ Rollback(g) \/ ConnectionLost(g)
<1>1. call[g] \in Call /\ call \in [Caller -> Call] /\ call'[g] # call[g]
  BY DEF EndsBody, IInv, TypeOK
<1>2. ASSUME NEW h \in Caller, NEW k, call' = [call EXCEPT ![h] = k] PROVE h = g
  BY <1>1, <1>2
<1>3. ~\E version \in 0..1 : New(version)
  BY <1>1 DEF New
<1>4. ~(LoopStep \/ Tick \/ Close \/ CloseEnds)
  BY <1>1 DEF LoopStep, Awake, refresh, RefreshFails, Retry, LoopStops, Tick, Close, CloseEnds
<1>5. ~\E p \in DOMAIN pools : closer(p) \/ Drained(p)
  BY <1>1 DEF closer, Drained
<1>6. ~\E h \in Caller, u \in User \cup {NoUser}, d \in BOOLEAN : Load(h, u, d)
  BY <1>1, <1>2 DEF Load, EndsBody
<1>7. ASSUME NEW h \in Caller, CallStep(h) \/ ConnectionLost(h) PROVE h = g
  <2>1. \E k : call' = [call EXCEPT ![h] = k]
    BY <1>7 DEF CallStep, ConnectionLost, Acquire, AcquireFails, SetConfig, Rollback, Body,
                Statement, Ended
  <2> QED BY <1>2, <2>1
<1>8. ~(Acquire(g) \/ AcquireFails(g) \/ SetConfig(g))
  BY DEF EndsBody, Acquire, AcquireFails, SetConfig
<1> QED BY <1>3, <1>4, <1>5, <1>6, <1>7, <1>8 DEF Next, CallStep

LEMMA NobodyTouched ==
    ASSUME rows' = rows, NothingSeen
    PROVE  Touched = {}
BY DEF Touched, NothingSeen

LEMMA StepIsolates ==
    ASSUME IInv, Next, NEW g \in Caller, EndsBody(g)
    PROVE  Touched \subseteq {call[g].user}
<1>1. CASE Rollback(g) \/ ConnectionLost(g)
  BY <1>1, NobodyTouched DEF Rollback, ConnectionLost
<1>2. CASE Body(g)
  <2> DEFINE c == Claims(pools[call[g].pool])
  <2>1. c \in {NoUser, call[g].user}
    <3>1. /\ pools[call[g].pool].local = IF call[g].direct THEN NoUser ELSE call[g].user
          /\ pools[call[g].pool].session = NoUser
      BY CallTypes DEF EndsBody, IInv, CallInv, PoolInv, Using
    <3> QED BY <3>1 DEF Claims
  <2> HIDE DEF c
  <2>2. PICK e : /\ Isolated(c, rows, e) /\ rows' = e[1] /\ saw' = {OwnerOf[i] : i \in e[2]}
    BY <1>2, BodyIsolates DEF c
  <2>3. \A i \in Row : i \in e[2] \/ rows'[i] # rows[i] => OwnerOf[i] = call[g].user
    BY <2>1, <2>2 DEF Isolated
  <2>4. e[2] \subseteq Row
    BY <2>2 DEF Isolated
  <2> QED BY <2>2, <2>3, <2>4 DEF Touched
<1> QED BY <1>1, <1>2, OnlyItsStep

\* WithUser's claims and row-level security: whoever had the connection before,
\* a call reads and writes the rows of its own user only.
THEOREM CallsAreIsolated == Spec => UsersAreIsolated
<1>1. IInv /\ [Next]_sdkVars =>
        [\A g \in Caller : call[g].pc = "body" /\ call'[g].pc = "ended" =>
            {OwnerOf[i] : i \in {j \in Row : rows'[j] # rows[j]}} \cup saw'
                \subseteq {call[g].user}]_sdkVars
  BY StepIsolates DEF EndsBody, Touched
<1> QED BY <1>1, SdkInvariant, PTL DEF Spec, UsersAreIsolated

-----------------------------------------------------------------------------
(***************************************************************************)
(* No pool is forgotten.                                                   *)
(***************************************************************************)

\* A pool that gives out connections is the one in use, until Close returns, or a
\* goroutine still has to close it; one that is closed has no connection left.
Accounted(p) ==
    /\ pools[p].status = "open" => p \in closers \/ (p = current /\ client # "closed")
    /\ pools[p].status = "closed" => pools[p].holder = None /\ ~pools[p].up

\* A pool goes from open to closing to closed: one that is closing takes no new
\* caller and one that is closed stays as it is.
OneWay(p) ==
    /\ p \in DOMAIN pools'
    /\ pools[p].status # "open" => /\ pools'[p].status # "open"
                                   /\ pools'[p].holder \in {None, pools[p].holder}
    /\ pools[p].status = "closed" => pools'[p] = pools[p]

NoPoolForgotten == \A p \in DOMAIN pools : Accounted(p)
PoolsGoOneWay == [][\A p \in DOMAIN pools : OneWay(p)]_sdkVars

\* A loop that has stopped opens nothing any more.
AccountInv == NoPoolForgotten /\ (client = "closed" => loop.pc = "stopped")
Moved == AccountInv' /\ \A p \in DOMAIN pools : OneWay(p)

LEMMA PoolsStand ==
    ASSUME AccountInv, UNCHANGED <<pools, closers, current>>,
           client' = "closed" => client = "closed" /\ loop' = loop
    PROVE  Moved
BY DEF AccountInv, Moved, NoPoolForgotten, Accounted, OneWay

LEMMA OnePoolMoves ==
    ASSUME IInv, AccountInv, NEW p \in DOMAIN pools, NEW c \in Pool,
           pools' = [pools EXCEPT ![p] = c], UNCHANGED <<current, loop>>,
           \/ client' = client
           \/ client' = "closed" /\ loop.pc = "stopped" /\ p = current /\ c.status # "open",
           closers \ {p} \subseteq closers',
           c.status = "open" => pools[p].status = "open" /\ (p \in closers => p \in closers'),
           pools[p].status # "open" => c.holder \in {None, pools[p].holder},
           c.status = "closed" => c.holder = None /\ ~c.up,
           pools[p].status = "closed" => c = pools[p]
    PROVE  Moved
<1>1. /\ DOMAIN pools' = DOMAIN pools /\ pools'[p] = c
      /\ \A q \in DOMAIN pools : q # p => pools'[q] = pools[q]
  BY PoolChanged DEF IInv
<1>2. ASSUME NEW q \in DOMAIN pools PROVE Accounted(q)' /\ OneWay(q)
  <2>1. Accounted(q)
    BY DEF AccountInv, NoPoolForgotten
  <2>2. CASE q = p
    BY <1>1, <2>1, <2>2 DEF Accounted, OneWay
  <2>3. CASE q # p
    BY <1>1, <2>1, <2>3 DEF Accounted, OneWay
  <2> QED BY <2>2, <2>3
<1>3. NoPoolForgotten'
  BY <1>1, <1>2 DEF NoPoolForgotten
<1> QED BY <1>2, <1>3 DEF AccountInv, Moved

LEMMA PoolCloseMoves ==
    ASSUME IInv, AccountInv, NEW p \in DOMAIN pools, PoolClose(p), UNCHANGED <<current, loop>>,
           client' = client \/ (client' = "closed" /\ loop.pc = "stopped" /\ p = current),
           closers \ {p} \subseteq closers'
    PROVE  Moved
<1> DEFINE c == [pools[p] EXCEPT !.status = IF @ = "open" THEN "closing" ELSE @]
<1>1. pools[p] \in Pool /\ Accounted(p)
  BY PoolTypes DEF IInv, AccountInv, NoPoolForgotten
<1>2. /\ c \in Pool /\ c.holder = pools[p].holder /\ c.up = pools[p].up
      /\ c.status = IF pools[p].status = "open" THEN "closing" ELSE pools[p].status
  BY <1>1 DEF Pool
<1>3. pools[p].status # "open" => c = pools[p]
  BY <1>1 DEF Pool
<1>4. pools' = [pools EXCEPT ![p] = c]
  BY DEF PoolClose
<1> HIDE DEF c
<1>5. c.status = "closed" => c.holder = None /\ ~c.up
  BY <1>1, <1>2, <1>3 DEF Accounted
<1> QED BY <1>2, <1>3, <1>4, <1>5, OnePoolMoves

LEMMA DrainedMoves ==
    ASSUME IInv, AccountInv, NEW p \in DOMAIN pools, Drained(p)
    PROVE  Moved
<1> DEFINE c == [pools[p] EXCEPT !.status = "closed", !.up = FALSE]
<1>1. /\ pools[p].status = "closing" /\ pools[p].holder = None /\ pools' = [pools EXCEPT ![p] = c]
      /\ UNCHANGED <<client, current, loop, closers>>
  BY DEF Drained
<1>2. pools[p] \in Pool
  BY PoolTypes DEF IInv
<1>3. c \in Pool /\ c.holder = None /\ ~c.up /\ c.status = "closed"
  BY <1>1, <1>2 DEF Pool
<1> HIDE DEF c
<1> QED BY <1>1, <1>3, OnePoolMoves

LEMMA refreshMoves ==
    ASSUME IInv, AccountInv, refresh
    PROVE  Moved
<1>1. PICK t \in Nat : pools' = Append(pools, Fresh(t))
  <2>1. PICK minted \in (loop.until - HttpTimeout)..now : pools' = Append(pools, Fresh(minted + TTL))
    BY DEF refresh
  <2>2. minted + TTL \in Nat
    BY <2>1, LoopTypes, Delays DEF refresh, IInv, LoopInv
  <2> QED BY <2>1, <2>2
<1>2. /\ current' = Len(pools) + 1 /\ closers' = closers \cup {current} /\ client' = client
      /\ loop.pc = "exchange"
  BY DEF refresh, Retire
<1>3. client # "closed"
  BY <1>2 DEF AccountInv
<1>4. /\ DOMAIN pools' = DOMAIN pools \cup {Len(pools) + 1}
      /\ pools'[Len(pools) + 1] = Fresh(t)
      /\ \A q \in DOMAIN pools : pools'[q] = pools[q]
  BY <1>1, FreshType, PoolOpened DEF IInv
<1>5. ASSUME NEW q \in DOMAIN pools PROVE Accounted(q)' /\ OneWay(q)
  <2>1. Accounted(q) /\ pools'[q] = pools[q] /\ q \in DOMAIN pools'
    BY <1>4 DEF AccountInv, NoPoolForgotten
  <2> QED BY <1>2, <2>1 DEF Accounted, OneWay
<1>6. ASSUME NEW q, q = Len(pools) + 1 PROVE Accounted(q)'
  <2>1. pools'[q].status = "open"
    BY <1>4, <1>6 DEF Fresh
  <2> QED BY <1>2, <1>3, <1>6, <2>1 DEF Accounted
<1>7. NoPoolForgotten'
  BY <1>4, <1>5, <1>6 DEF NoPoolForgotten
<1> QED BY <1>2, <1>3, <1>5, <1>7 DEF AccountInv, Moved, NoPoolForgotten

\* A call takes a connection from a pool that is open only, and the pool of one
\* that has got it is not closed yet.
LEMMA CallMoves ==
    ASSUME IInv, AccountInv, NEW g \in Caller, CallStep(g) \/ ConnectionLost(g)
    PROVE  Moved
<1> DEFINE p == call[g].pool
<1>1. CASE AcquireFails(g)
  BY <1>1, PoolsStand DEF AcquireFails, sharedVars
<1> SUFFICES ASSUME ~AcquireFails(g) PROVE Moved
  BY <1>1
<1>2. /\ UNCHANGED <<client, current, loop, closers>>
      /\ call[g].pc \in Using
      /\ ~Acquire(g) => call[g].pc \in Holding
  BY DEF CallStep, Acquire, SetConfig, Rollback, Body, Statement, ConnectionLost, Using, Holding
<1>3. p \in DOMAIN pools /\ pools[p] \in Pool /\ Accounted(p)
  BY <1>2, CallTypes DEF AccountInv, NoPoolForgotten
<1>4. ~Acquire(g) => pools[p].holder = g /\ pools[p].status # "closed"
  BY <1>2, <1>3, Callers DEF IInv, CallInv, Accounted
<1>5. CASE Acquire(g)
  <2> DEFINE c == [pools[p] EXCEPT !.holder = g, !.up = TRUE]
  <2>1. pools[p].status = "open" /\ pools' = [pools EXCEPT ![p] = c]
    BY <1>5 DEF Acquire
  <2>2. c \in Pool /\ c.status = "open"
    BY <1>3, <2>1 DEF Pool
  <2> HIDE DEF c
  <2> QED BY <1>2, <1>3, <2>1, <2>2, OnePoolMoves
<1>6. ASSUME ~Acquire(g), NEW c \in Pool, pools' = [pools EXCEPT ![p] = c],
             c.status = pools[p].status, c.holder \in {None, pools[p].holder}
      PROVE  Moved
  BY <1>2, <1>3, <1>4, <1>6, OnePoolMoves
<1>7. CASE SetConfig(g) /\ ~Acquire(g)
  <2> DEFINE c == [pools[p] EXCEPT !.local = call[g].user]
  <2>1. pools' = [pools EXCEPT ![p] = c]
    BY <1>7 DEF SetConfig, WithClaims
  <2>2. c \in Pool /\ c.status = pools[p].status /\ c.holder = pools[p].holder
    BY <1>3, CallTypes DEF Pool
  <2> HIDE DEF c
  <2> QED BY <1>6, <1>7, <2>1, <2>2
<1>8. CASE (Rollback(g) \/ Body(g)) /\ ~Acquire(g)
  <2> DEFINE c == [pools[p] EXCEPT !.holder = None, !.local = NoUser]
  <2>1. pools' = Released(p)
    BY <1>8, BodyIsolates DEF Rollback
  <2>2. pools' = [pools EXCEPT ![p] = c]
    BY <2>1 DEF Released
  <2>3. c \in Pool /\ c.status = pools[p].status /\ c.holder = None
    BY <1>3 DEF Pool
  <2> HIDE DEF c
  <2> QED BY <1>6, <1>8, <2>2, <2>3
<1>9. CASE ConnectionLost(g) /\ ~Acquire(g)
  <2> DEFINE c == [pools[p] EXCEPT !.up = FALSE, !.holder = None,
                                   !.session = NoUser, !.local = NoUser]
  <2>1. pools' = [pools EXCEPT ![p] = c]
    BY <1>9 DEF ConnectionLost
  <2>2. c \in Pool /\ c.status = pools[p].status /\ c.holder = None
    BY <1>3 DEF Pool
  <2> HIDE DEF c
  <2> QED BY <1>6, <1>9, <2>1, <2>2
<1> QED BY <1>5, <1>7, <1>8, <1>9 DEF CallStep

LEMMA AccountStep == IInv /\ AccountInv /\ [Next]_sdkVars => Moved
<1> SUFFICES ASSUME IInv, AccountInv, [Next]_sdkVars PROVE Moved
  OBVIOUS
<1>1. ASSUME NEW version \in 0..1, New(version) PROVE Moved
  <2>1. DOMAIN pools = {}
    BY <1>1, PoolTypes DEF New, IInv, PoolsInv
  <2>2. client' = "open" /\ current' = 1 /\ DOMAIN pools' = {1} /\ pools'[1].status = "open"
    BY <1>1 DEF New, Fresh
  <2>3. NoPoolForgotten'
    BY <2>2 DEF NoPoolForgotten, Accounted
  <2> QED BY <2>1, <2>2, <2>3 DEF AccountInv, Moved
<1>2. CASE Awake \/ RefreshFails \/ Retry \/ LoopStops
  <2>1. client # "closed"
    BY <1>2 DEF AccountInv, Awake, RefreshFails, Retry, LoopStops
  <2>2. UNCHANGED <<client, pools, closers, current>>
    BY <1>2 DEF Awake, RefreshFails, Retry, LoopStops
  <2> QED BY <2>1, <2>2, PoolsStand
<1>3. CASE refresh
  BY <1>3, refreshMoves
<1>4. CASE Tick \/ Close
  BY <1>4, PoolsStand DEF Tick, Close, sharedVars
<1>5. CASE CloseEnds
  <2>1. current \in DOMAIN pools
    BY <1>5, PoolTypes DEF CloseEnds, IInv, PoolsInv
  <2> QED BY <1>5, <2>1, PoolCloseMoves DEF CloseEnds, LoopDone
<1>6. ASSUME NEW p \in DOMAIN pools, closer(p) PROVE Moved
  BY <1>6, PoolCloseMoves DEF closer, Captured
<1>7. ASSUME NEW p \in DOMAIN pools, Drained(p) PROVE Moved
  BY <1>7, DrainedMoves
<1>8. ASSUME NEW g \in Caller, CallStep(g) \/ ConnectionLost(g) PROVE Moved
  BY <1>8, CallMoves
<1>9. ASSUME NEW g \in Caller, NEW u \in User \cup {NoUser}, NEW d \in BOOLEAN, Load(g, u, d)
      PROVE  Moved
  BY <1>9, PoolsStand DEF Load, sharedVars
<1>10. CASE UNCHANGED sdkVars
  BY <1>10, PoolsStand DEF sdkVars, sharedVars
<1> QED BY <1>1, <1>2, <1>3, <1>4, <1>5, <1>6, <1>7, <1>8, <1>9, <1>10 DEF Next, LoopStep

LEMMA AccountInitially == Init => AccountInv
<1> SUFFICES ASSUME Init PROVE AccountInv
  OBVIOUS
<1>1. DOMAIN pools = {} /\ client = "none"
  BY DEF Init
<1> QED BY <1>1 DEF AccountInv, NoPoolForgotten

\* The pools refresh leaves behind are on their way to a closer, and after Close
\* nothing is left that gives out connections: what PoolsAreClosed needs of the
\* states, whatever the goroutines' turns.
THEOREM PoolsAreAccountedFor == Spec => []NoPoolForgotten
<1>1. IInv /\ AccountInv /\ [Next]_sdkVars => AccountInv'
  BY AccountStep DEF Moved
<1>2. AccountInv => NoPoolForgotten
  BY DEF AccountInv
<1> QED BY <1>1, <1>2, AccountInitially, SdkInvariant, PTL DEF Spec

\* pgxpool's Close is final: no call gets a connection of a pool it began to close.
THEOREM PoolsNeverReopen == Spec => PoolsGoOneWay
<1>1. IInv /\ AccountInv /\ [Next]_sdkVars => AccountInv'
  BY AccountStep DEF Moved
<1>2. IInv /\ AccountInv /\ [Next]_sdkVars => [\A p \in DOMAIN pools : OneWay(p)]_sdkVars
  BY AccountStep DEF Moved
<1> QED BY <1>1, <1>2, AccountInitially, SdkInvariant, PTL DEF Spec, PoolsGoOneWay
=============================================================================
