--------------------------- MODULE RealtimeProofs ---------------------------
(***************************************************************************)
(* What is proved about Realtime for any set of changes, subscriptions and *)
(* filters, any channel capacity and any number of faults: deliveries are  *)
(* in commit order, at most once, and only what the filter asks for, and   *)
(* no change that is owed vanishes unaccounted.                            *)
(***************************************************************************)
EXTENDS Realtime, FiniteSetTheorems, SequenceTheorems, TLAPS

(***************************************************************************)
(* Sequences of ranked changes.                                            *)
(***************************************************************************)

Increasing(r, q) == \A i, j \in DOMAIN q : i < j => r[q[i]] < r[q[j]]
Below(r, S, T) == \A e \in S, f \in T : r[e] < r[f]

LEMMA ElemsEmpty == Elems(<<>>) = {}
BY DEF Elems

LEMMA ElemsType ==
    ASSUME NEW S, NEW q \in Seq(S)
    PROVE  Elems(q) \subseteq S
BY DEF Elems

LEMMA ElemsAppend ==
    ASSUME NEW S, NEW q \in Seq(S), NEW e \in S
    PROVE  Elems(Append(q, e)) = Elems(q) \cup {e}
<1>1. \A x \in Elems(q) : x \in Elems(Append(q, e))
  BY DEF Elems
<1>2. e \in Elems(Append(q, e))
  <2>1. /\ Len(q) + 1 \in DOMAIN Append(q, e)
        /\ Append(q, e)[Len(q) + 1] = e
    OBVIOUS
  <2> QED
    BY <2>1 DEF Elems
<1>3. \A x \in Elems(Append(q, e)) : x \in Elems(q) \/ x = e
  BY DEF Elems
<1> QED
  BY <1>1, <1>2, <1>3

LEMMA ElemsHeadTail ==
    ASSUME NEW S, NEW q \in Seq(S), q # <<>>
    PROVE  /\ Head(q) \in Elems(q)
           /\ Elems(Tail(q)) \subseteq Elems(q)
<1>1. Head(q) = q[1] /\ 1 \in DOMAIN q
  OBVIOUS
<1>2. \A i \in DOMAIN Tail(q) : i + 1 \in DOMAIN q /\ Tail(q)[i] = q[i + 1]
  BY HeadTailProperties, LenProperties
<1> QED
  BY <1>1, <1>2 DEF Elems

LEMMA ElemsConcat ==
    ASSUME NEW S, NEW p \in Seq(S), NEW q \in Seq(S)
    PROVE  Elems(p \o q) \subseteq Elems(p) \cup Elems(q)
<1> SUFFICES ASSUME NEW i \in 1..(Len(p) + Len(q))
             PROVE  (p \o q)[i] \in Elems(p) \cup Elems(q)
  BY ConcatProperties, LenProperties DEF Elems
<1>1. Len(p) \in Nat /\ Len(q) \in Nat /\ DOMAIN p = 1..Len(p) /\ DOMAIN q = 1..Len(q)
  BY LenProperties
<1>2. CASE i <= Len(p)
  <2>1. i \in DOMAIN p /\ (p \o q)[i] = p[i]
    BY <1>1, <1>2, ConcatProperties
  <2> QED
    BY <2>1 DEF Elems
<1>3. CASE ~(i <= Len(p))
  <2>1. i - Len(p) \in DOMAIN q /\ (p \o q)[i] = q[i - Len(p)]
    BY <1>1, <1>3, ConcatProperties
  <2> QED
    BY <2>1 DEF Elems
<1> QED
  BY <1>2, <1>3

\* Enqueueing what ranks above the whole queue keeps it increasing.
LEMMA IncreasingAppend ==
    ASSUME NEW S, NEW q \in Seq(S), NEW e \in S, NEW r,
           Increasing(r, q), Below(r, Elems(q), {e})
    PROVE  Increasing(r, Append(q, e))
<1> SUFFICES ASSUME NEW i \in DOMAIN Append(q, e), NEW j \in DOMAIN Append(q, e), i < j
             PROVE  r[Append(q, e)[i]] < r[Append(q, e)[j]]
  BY DEF Increasing
<1>1. i \in DOMAIN q /\ Append(q, e)[i] = q[i]
  OBVIOUS
<1>2. CASE j \in DOMAIN q
  <2>1. Append(q, e)[j] = q[j]
    BY <1>2
  <2> QED
    BY <1>1, <1>2, <2>1 DEF Increasing
<1>3. CASE j \notin DOMAIN q
  <2>1. Append(q, e)[j] = e
    BY <1>3
  <2> QED
    BY <1>1, <2>1 DEF Below, Elems
<1> QED
  BY <1>2, <1>3

\* The head ranks below the tail, which is increasing.
LEMMA IncreasingHeadTail ==
    ASSUME NEW S, NEW q \in Seq(S), q # <<>>, NEW r, Increasing(r, q)
    PROVE  /\ Below(r, {Head(q)}, Elems(Tail(q)))
           /\ Increasing(r, Tail(q))
<1>1. Head(q) = q[1] /\ 1 \in DOMAIN q
  OBVIOUS
<1>2. \A i \in DOMAIN Tail(q) : /\ i \in Nat /\ i > 0
                                /\ i + 1 \in DOMAIN q
                                /\ Tail(q)[i] = q[i + 1]
  BY HeadTailProperties, LenProperties
<1>3. Below(r, {Head(q)}, Elems(Tail(q)))
  <2> SUFFICES ASSUME NEW i \in DOMAIN Tail(q) PROVE r[q[1]] < r[q[i + 1]]
    BY <1>1, <1>2 DEF Below, Elems
  <2>1. 1 < i + 1 /\ i + 1 \in DOMAIN q
    BY <1>2
  <2> QED
    BY <1>1, <2>1 DEF Increasing
<1>4. Increasing(r, Tail(q))
  <2> SUFFICES ASSUME NEW i \in DOMAIN Tail(q), NEW j \in DOMAIN Tail(q), i < j
               PROVE  r[q[i + 1]] < r[q[j + 1]]
    BY <1>2 DEF Increasing
  <2>1. i + 1 < j + 1 /\ i + 1 \in DOMAIN q /\ j + 1 \in DOMAIN q
    BY <1>2
  <2> QED
    BY <2>1 DEF Increasing
<1> QED
  BY <1>3, <1>4

\* Ranks that agree on a queue's changes order it alike.
LEMMA RankAgrees ==
    ASSUME NEW r, NEW r2, NEW q, \A x \in Elems(q) : r2[x] = r[x], Increasing(r, q)
    PROVE  Increasing(r2, q)
BY DEF Elems, Increasing

(***************************************************************************)
(* The inductive invariant.                                                *)
(***************************************************************************)

\* Commits are numbered without exceeding their count.
Ranked == /\ IsFiniteSet(Committed)
          /\ \A e \in Event : rank[e] <= Cardinality(Committed)

\* The hub holds an event only while it looks it up.
HubHolds == IF hub.pc = "hydrating" THEN hub.ev \in Event ELSE hub.ev = NoEvent
InHand == {hub.ev} \ {NoEvent}

\* Every stage holds committed changes in commit order, and each stage's changes
\* precede those of the stages behind it.
InLine(s) ==
    /\ Elems(got[s]) \cup Elems(buf[s]) \subseteq Committed
    /\ Increasing(rank, got[s])
    /\ Increasing(rank, buf[s])
    /\ Below(rank, Elems(got[s]), Elems(buf[s]))
    /\ Below(rank, Elems(got[s]) \cup Elems(buf[s]), InHand \cup Elems(wire))
PipelineInLine ==
    /\ InHand \cup Elems(wire) \subseteq Committed
    /\ Increasing(rank, wire)
    /\ Below(rank, InHand, Elems(wire))
Matched == \A s \in Sub : \A e \in Elems(got[s]) \cup Elems(buf[s]) : matches(s, e)

Base == TypeOK /\ Ranked /\ HubHolds
IInv == Base /\ PipelineInLine /\ (\A s \in Sub : InLine(s)) /\ Matched

LEMMA BaseInit == Init => Base
<1> SUFFICES ASSUME Init PROVE Base
  OBVIOUS
<1>1. Committed = {}
  BY DEF Init, Committed
<1>2. Ranked
  BY <1>1, FS_EmptySet DEF Init, Ranked
<1> QED
  BY <1>2, CapAssumption DEF Init, Base, TypeOK, HubHolds, HubDown, Hub

\* What a commit does to the ranks: it alone changes them.
LEMMA CommitRanks ==
    ASSUME Base, NEW e \in Event, Commit(e)
    PROVE  /\ e \notin Committed
           /\ Committed' = Committed \cup {e}
           /\ Cardinality(Committed) \in Nat
           /\ rank' \in [Event -> Nat]
           /\ rank'[e] = Cardinality(Committed) + 1
           /\ \A x \in Committed : rank'[x] = rank[x] /\ rank'[x] < rank'[e]
           /\ Ranked'
<1> USE DEF Base, TypeOK, Ranked
<1>1. e \notin Committed
  BY DEF Commit, Committed
<1>2. Cardinality(Committed) \in Nat
  BY FS_CardinalityType
<1>3. rank' = [rank EXCEPT ![e] = Cardinality(Committed) + 1]
  BY DEF Commit
<1>4. rank' \in [Event -> Nat]
  BY <1>2, <1>3
<1>5. Committed' = Committed \cup {e}
  <2>1. Committed' = {x \in Event : rank'[x] > 0}
    BY DEF Committed
  <2>2. \A x \in Event : rank'[x] = IF x = e THEN Cardinality(Committed) + 1 ELSE rank[x]
    BY <1>3
  <2>3. \A x \in Event : rank'[x] > 0 <=> rank[x] > 0 \/ x = e
    BY <1>2, <2>2
  <2> QED
    BY <2>1, <2>3 DEF Committed
<1>6. /\ IsFiniteSet(Committed')
      /\ Cardinality(Committed') = Cardinality(Committed) + 1
  BY <1>1, <1>5, FS_AddElement
<1>7. \A x \in Event : rank[x] \in Nat /\ rank[x] <= Cardinality(Committed)
  OBVIOUS
<1>8. \A x \in Event : rank'[x] <= Cardinality(Committed) + 1
  BY <1>2, <1>3, <1>7
<1>9. \A x \in Committed : rank'[x] = rank[x] /\ rank'[x] < rank'[e]
  <2>1. \A x \in Committed : x \in Event /\ x # e
    BY <1>1 DEF Committed
  <2> QED
    BY <1>2, <1>3, <1>7, <2>1
<1> QED
  BY <1>1, <1>2, <1>3, <1>4, <1>5, <1>6, <1>8, <1>9

LEMMA RanksKept ==
    ASSUME Ranked, UNCHANGED rank
    PROVE  Ranked' /\ Committed' = Committed
BY DEF Ranked, Committed

LEMMA BaseStep == Base /\ [Next]_vars => Base'
<1> SUFFICES ASSUME Base, [Next]_vars PROVE Base'
  OBVIOUS
<1> USE DEF Base
<1>1. ASSUME NEW e \in Event, Commit(e) PROVE Base'
  <2>1. Ranked' /\ rank' \in [Event -> Nat]
    BY <1>1, CommitRanks
  <2>2. wire' \in Seq(Event) /\ missed' \in SUBSET Event
    <3>1. Append(wire, e) \in Seq(Event)
      BY DEF TypeOK
    <3>2. wire' \in {wire, Append(wire, e)} /\ missed' \in {missed, missed \cup {e}}
      BY <1>1 DEF Commit
    <3> QED
      BY <3>1, <3>2 DEF TypeOK
  <2> QED
    BY <1>1, <2>1, <2>2 DEF Commit, TypeOK, HubHolds
<1>2. CASE Listen
  BY <1>2, RanksKept DEF Listen, TypeOK, HubHolds, Waiting, Hub
<1>3. CASE WaitForNotification
  <2>1. Head(wire) \in Event /\ wire' \in Seq(Event)
    BY <1>3, HeadTailProperties DEF WaitForNotification, TypeOK
  <2> QED
    BY <1>3, <2>1, RanksKept DEF WaitForNotification, TypeOK, HubHolds, Hub
<1>4. CASE fanout
  <2>1. buf' \in [Sub -> Seq(Event)] /\ dropped' \in [Sub -> SUBSET Event]
    BY <1>4 DEF fanout, TypeOK, HubHolds
  <2> QED
    BY <1>4, <2>1, RanksKept DEF fanout, TypeOK, HubHolds, Waiting, Hub
<1>5. CASE HydrateFails
  BY <1>5, RanksKept, CapAssumption DEF HydrateFails, TypeOK, HubHolds, Waiting, Hub
<1>6. CASE HubLosesConn
  <2>1. Elems(wire) \subseteq Event
    BY ElemsType DEF TypeOK
  <2> QED
    BY <1>6, <2>1, RanksKept, CapAssumption DEF HubLosesConn, TypeOK, HubHolds, HubDown, Hub
<1>7. CASE Restart
  <2>1. Elems(wire) \cup ({hub.ev} \ {NoEvent}) \subseteq Event
    BY ElemsType DEF TypeOK, Hub
  <2>2. conn' \in [Sub -> {"none", "registered", "open", "closed"}]
    BY <1>7 DEF Restart, TypeOK
  <2> QED
    BY <1>7, <2>1, <2>2, RanksKept, CapAssumption DEF Restart, TypeOK, HubHolds, HubDown, Hub
<1>8. ASSUME NEW s \in Sub, SubStep(s) \/ Break(s) \/ Close(s) PROVE Base'
  <2>1. CASE Register(s)
    BY <2>1, RanksKept DEF Register, TypeOK, HubHolds
  <2>2. CASE Hello(s)
    <3>1. Cardinality(Committed) \in Nat
      BY FS_CardinalityType DEF Ranked
    <3> QED
      BY <2>2, <3>1, RanksKept DEF Hello, TypeOK, HubHolds
  <2>3. CASE Deliver(s)
    <3>1. Head(buf[s]) \in Event /\ Tail(buf[s]) \in Seq(Event)
      BY <2>3, HeadTailProperties DEF Deliver, TypeOK
    <3>2. Append(got[s], Head(buf[s])) \in Seq(Event)
      BY <3>1 DEF TypeOK
    <3> QED
      BY <2>3, <3>1, <3>2, RanksKept DEF Deliver, TypeOK, HubHolds
  <2>4. ASSUME NEW pc \in {"none", "closed"}, Hangup(s, pc) PROVE Base'
    BY <2>4, RanksKept DEF Hangup, TypeOK, HubHolds
  <2> QED
    BY <1>8, <2>1, <2>2, <2>3, <2>4 DEF SubStep, Break, Close
<1>9. CASE UNCHANGED vars
  BY <1>9, RanksKept DEF vars, TypeOK, HubHolds
<1> QED
  BY <1>1, <1>2, <1>3, <1>4, <1>5, <1>6, <1>7, <1>8, <1>9 DEF Next, HubStep

\* Realtime's variables have their types.
THEOREM TypeCorrect == Spec => []TypeOK
<1>1. Base => TypeOK
  BY DEF Base
<1> QED
  BY <1>1, BaseInit, BaseStep, PTL DEF Spec

(***************************************************************************)
(* Order.                                                                  *)
(***************************************************************************)

\* What most steps do to the order: nothing.  They take changes out of the
\* pipeline or drop a subscriber's channel.
LEMMA StaysInLine ==
    ASSUME Base, NEW s \in Sub, InLine(s), UNCHANGED <<rank, got[s]>>,
           buf'[s] \in {buf[s], <<>>},
           InHand' \cup Elems(wire)' \subseteq InHand \cup Elems(wire)
    PROVE  InLine(s)'
<1>1. /\ Committed' = Committed
      /\ Elems(got[s])' = Elems(got[s])
      /\ Elems(buf[s])' \subseteq Elems(buf[s])
  BY RanksKept, ElemsEmpty DEF Base, Elems
<1>2. Increasing(rank, got[s])' /\ Increasing(rank, buf[s])'
  BY DEF InLine, Increasing
<1>3. /\ Below(rank, Elems(got[s]), Elems(buf[s]))'
      /\ Below(rank, Elems(got[s]) \cup Elems(buf[s]), InHand \cup Elems(wire))'
  BY <1>1 DEF InLine, Below
<1> QED
  BY <1>1, <1>2, <1>3 DEF InLine

\* A commit ranks above whatever is in line, and leaves its order.
LEMMA CommitInLine ==
    ASSUME Base, PipelineInLine, NEW s \in Sub, InLine(s), NEW e \in Event, Commit(e)
    PROVE  InLine(s)'
<1>1. /\ Committed \subseteq Committed'
      /\ \A x \in Committed : rank'[x] = rank[x] /\ rank'[x] < rank'[e]
  BY CommitRanks
<1>2. UNCHANGED <<got, buf>> /\ InHand' = InHand
  BY DEF Commit, InHand
<1>3. Elems(wire)' \subseteq Elems(wire) \cup {e}
  <2>1. Elems(Append(wire, e)) = Elems(wire) \cup {e}
    BY ElemsAppend DEF Base, TypeOK
  <2>2. wire' \in {wire, Append(wire, e)}
    BY DEF Commit
  <2> QED
    BY <2>1, <2>2
<1>4. Elems(got[s])' = Elems(got[s]) /\ Elems(buf[s])' = Elems(buf[s])
  BY <1>2
<1>5. Increasing(rank, got[s])' /\ Increasing(rank, buf[s])'
  BY <1>1, <1>2, RankAgrees DEF InLine
<1>6. Below(rank, Elems(got[s]), Elems(buf[s]))'
  BY <1>1, <1>4 DEF InLine, Below
<1>7. Below(rank, Elems(got[s]) \cup Elems(buf[s]), InHand \cup Elems(wire))'
  <2>1. Below(rank', Elems(got[s]) \cup Elems(buf[s]), InHand \cup Elems(wire) \cup {e})
    BY <1>1 DEF InLine, PipelineInLine, Below
  <2> QED
    BY <1>2, <1>3, <1>4, <2>1 DEF Below
<1> QED
  BY <1>1, <1>4, <1>5, <1>6, <1>7 DEF InLine

\* The fan-out appends an event that ranks above all a subscriber has.
LEMMA FanoutInLine ==
    ASSUME Base, PipelineInLine, NEW s \in Sub, InLine(s), fanout
    PROVE  InLine(s)'
<1>1. /\ hub.ev \in Event
      /\ InHand = {hub.ev}
      /\ InHand' = {}
  BY EventAssumption DEF fanout, Base, HubHolds, InHand, Waiting
<1>2. UNCHANGED <<rank, got, wire>> /\ Committed' = Committed
  BY RanksKept DEF fanout, Base
<1>3. CASE buf'[s] = buf[s]
  BY <1>1, <1>2, <1>3, StaysInLine
<1>4. CASE buf'[s] = Append(buf[s], hub.ev)
  <2>1. Elems(buf[s])' = Elems(buf[s]) \cup {hub.ev}
    BY <1>1, <1>4, ElemsAppend DEF Base, TypeOK
  <2>2. Increasing(rank, buf[s])'
    <3>1. Increasing(rank, buf[s]) /\ Below(rank, Elems(buf[s]), {hub.ev})
      BY <1>1 DEF InLine, Below
    <3> QED
      BY <1>1, <1>2, <1>4, <3>1, IncreasingAppend DEF Base, TypeOK
  <2>3. /\ Below(rank, Elems(got[s]), Elems(buf[s]))'
        /\ Below(rank, Elems(got[s]) \cup Elems(buf[s]), InHand \cup Elems(wire))'
    BY <1>1, <1>2, <2>1 DEF InLine, PipelineInLine, Below
  <2> QED
    BY <1>1, <1>2, <2>1, <2>2, <2>3 DEF InLine, PipelineInLine
<1> QED
  BY <1>3, <1>4 DEF fanout, Base, TypeOK

\* Delivering moves the head of the channel behind what was handed over.
LEMMA DeliverInLine ==
    ASSUME Base, NEW s \in Sub, InLine(s), Deliver(s)
    PROVE  InLine(s)'
<1> DEFINE e == Head(buf[s])
<1>1. /\ got'[s] = Append(got[s], e)
      /\ buf'[s] = Tail(buf[s])
      /\ UNCHANGED <<rank, wire, hub>>
  BY DEF Deliver, Base, TypeOK
<1>2. Committed' = Committed /\ InHand' = InHand /\ Elems(wire)' = Elems(wire)
  BY <1>1, RanksKept DEF Base, InHand
<1>3. buf[s] \in Seq(Event) /\ buf[s] # <<>> /\ got[s] \in Seq(Event)
  BY DEF Deliver, Base, TypeOK
<1>4. e \in Event /\ e \in Elems(buf[s]) /\ Elems(buf[s])' \subseteq Elems(buf[s])
  BY <1>1, <1>3, ElemsHeadTail, HeadTailProperties
<1>5. Below(rank, {e}, Elems(buf[s])') /\ Increasing(rank, buf[s])'
  BY <1>1, <1>3, IncreasingHeadTail DEF InLine
<1>6. Elems(got[s])' = Elems(got[s]) \cup {e}
  BY <1>1, <1>3, <1>4, ElemsAppend
<1>7. Increasing(rank, got[s])'
  <2>1. Increasing(rank, got[s]) /\ Below(rank, Elems(got[s]), {e})
    BY <1>4 DEF InLine, Below
  <2> QED
    BY <1>1, <1>3, <1>4, <2>1, IncreasingAppend
<1> HIDE DEF e
<1>8. /\ Below(rank, Elems(got[s]), Elems(buf[s]))'
      /\ Below(rank, Elems(got[s]) \cup Elems(buf[s]), InHand \cup Elems(wire))'
  BY <1>1, <1>2, <1>4, <1>5, <1>6 DEF InLine, Below
<1> QED
  BY <1>2, <1>4, <1>5, <1>6, <1>7, <1>8 DEF InLine

LEMMA PipelineStep == Base /\ PipelineInLine /\ [Next]_vars => PipelineInLine'
<1> SUFFICES ASSUME Base, PipelineInLine, [Next]_vars PROVE PipelineInLine'
  OBVIOUS
<1> USE DEF PipelineInLine
<1>1. ASSUME NEW e \in Event, Commit(e) PROVE PipelineInLine'
  <2>1. /\ Committed' = Committed \cup {e}
        /\ \A x \in Committed : rank'[x] = rank[x] /\ rank'[x] < rank'[e]
    BY <1>1, CommitRanks
  <2>2. InHand' = InHand /\ wire' \in {wire, Append(wire, e)}
    BY <1>1 DEF Commit, InHand
  <2>3. Increasing(rank', wire) /\ Below(rank', InHand, Elems(wire) \cup {e})
        /\ Below(rank', Elems(wire), {e})
    BY <2>1, RankAgrees DEF Below
  <2>4. CASE wire' = wire
    BY <2>1, <2>2, <2>3, <2>4 DEF Below
  <2>5. CASE wire' = Append(wire, e)
    <3>1. Elems(wire)' = Elems(wire) \cup {e}
      BY <2>5, ElemsAppend DEF Base, TypeOK
    <3>2. Increasing(rank, wire)'
      BY <2>3, <2>5, IncreasingAppend DEF Base, TypeOK
    <3> QED
      BY <2>1, <2>2, <2>3, <3>1, <3>2
  <2> QED
    BY <2>2, <2>4, <2>5
<1>2. CASE WaitForNotification
  <2>1. /\ wire \in Seq(Event)
        /\ wire # <<>>
        /\ wire' = Tail(wire)
        /\ InHand' \subseteq {Head(wire)}
        /\ UNCHANGED rank
    BY <1>2 DEF WaitForNotification, Base, TypeOK, InHand
  <2>2. Committed' = Committed
    BY <2>1, RanksKept DEF Base
  <2>3. Head(wire) \in Elems(wire) /\ Elems(wire)' \subseteq Elems(wire)
    BY <2>1, ElemsHeadTail
  <2>4. Below(rank, {Head(wire)}, Elems(wire)') /\ Increasing(rank, wire)'
    BY <2>1, IncreasingHeadTail
  <2> QED
    BY <2>1, <2>2, <2>3, <2>4 DEF Below
<1>3. CASE fanout \/ HydrateFails
  <2>1. InHand' = {} /\ UNCHANGED <<rank, wire>>
    BY <1>3 DEF fanout, HydrateFails, Waiting, InHand
  <2> QED
    BY <2>1, RanksKept DEF Base, Below
<1>4. CASE HubLosesConn \/ Restart
  <2>1. InHand' = {} /\ wire' = <<>> /\ UNCHANGED rank
    BY <1>4 DEF HubLosesConn, Restart, HubDown, InHand
  <2> QED
    BY <2>1, RanksKept, ElemsEmpty DEF Base, Below, Increasing
<1>5. CASE Listen
  <2>1. InHand' = {} /\ UNCHANGED <<rank, wire>>
    BY <1>5 DEF Listen, Waiting, InHand
  <2> QED
    BY <2>1, RanksKept DEF Base, Below
<1>6. ASSUME \/ \E s \in Sub : SubStep(s) \/ Break(s) \/ Close(s)
             \/ UNCHANGED vars
      PROVE  PipelineInLine'
  <2>1. UNCHANGED <<rank, wire, hub>>
    BY <1>6 DEF SubStep, Register, Hello, Deliver, Break, Close, Hangup, vars
  <2> QED
    BY <2>1, RanksKept DEF Base, Below, InHand
<1> QED
  BY <1>1, <1>2, <1>3, <1>4, <1>5, <1>6 DEF Next, HubStep

\* A step of one subscription leaves the others' queues alone.
LEMMA OthersUntouched ==
    ASSUME Base, NEW t \in Sub, SubStep(t) \/ Break(t) \/ Close(t), NEW s \in Sub, s # t
    PROVE  buf'[s] = buf[s] /\ UNCHANGED <<rank, wire, hub, got[s]>>
BY DEF SubStep, Register, Hello, Deliver, Break, Close, Hangup, Base, TypeOK

LEMMA LineStep ==
    ASSUME IInv, [Next]_vars, NEW s \in Sub
    PROVE  InLine(s)'
<1> USE DEF IInv
<1>1. ASSUME NEW e \in Event, Commit(e) PROVE InLine(s)'
  BY <1>1, CommitInLine
<1>2. CASE fanout
  BY <1>2, FanoutInLine
<1>3. CASE WaitForNotification
  <2>1. /\ wire \in Seq(Event)
        /\ wire # <<>>
        /\ wire' = Tail(wire)
        /\ InHand' \subseteq {Head(wire)}
        /\ UNCHANGED <<rank, got, buf>>
    BY <1>3 DEF WaitForNotification, Base, TypeOK, InHand
  <2>2. InHand' \cup Elems(wire)' \subseteq Elems(wire)
    BY <2>1, ElemsHeadTail
  <2> QED
    BY <2>1, <2>2, StaysInLine
<1>4. CASE Listen \/ HydrateFails
  <2>1. InHand' = {} /\ UNCHANGED <<rank, wire, got, buf>>
    BY <1>4 DEF Listen, HydrateFails, Waiting, InHand
  <2> QED
    BY <2>1, StaysInLine
<1>5. CASE HubLosesConn \/ Restart
  <2>1. /\ InHand' = {}
        /\ wire' = <<>>
        /\ buf'[s] \in {buf[s], <<>>}
        /\ UNCHANGED <<rank, got>>
    BY <1>5 DEF HubLosesConn, Restart, HubDown, InHand
  <2> QED
    BY <2>1, StaysInLine, ElemsEmpty
<1>6. ASSUME NEW t \in Sub, SubStep(t) \/ Break(t) \/ Close(t) PROVE InLine(s)'
  <2>1. CASE s # t
    BY <1>6, <2>1, OthersUntouched, StaysInLine DEF InHand
  <2>2. CASE Deliver(s)
    BY <2>2, DeliverInLine
  <2>3. CASE Register(s) \/ Hello(s)
    BY <2>3, StaysInLine DEF Register, Hello, InHand
  <2>4. CASE Break(s) \/ Close(s)
    <3>1. buf'[s] = <<>> /\ UNCHANGED <<rank, wire, hub, got>>
      BY <2>4 DEF Break, Close, Hangup, Base, TypeOK
    <3> QED
      BY <3>1, StaysInLine DEF InHand
  <2> QED
    BY <1>6, <2>1, <2>2, <2>3, <2>4 DEF SubStep
<1>7. CASE UNCHANGED vars
  BY <1>7, StaysInLine DEF vars, InHand
<1> QED
  BY <1>1, <1>2, <1>3, <1>4, <1>5, <1>6, <1>7 DEF Next, HubStep

(***************************************************************************)
(* Filters.                                                                *)
(***************************************************************************)

\* A channel is filled by the fan-out only, with what its filter matches, and
\* emptied into what the application has.
LEMMA MatchedStep == Base /\ Matched /\ [Next]_vars => Matched'
<1> SUFFICES ASSUME Base, Matched, [Next]_vars, NEW s \in Sub,
                    NEW e \in Elems(got[s])' \cup Elems(buf[s])'
             PROVE  matches(s, e)
  BY DEF Matched, matches
<1>1. ASSUME e \in Elems(got[s]) \cup Elems(buf[s]) PROVE matches(s, e)
  BY <1>1 DEF Matched
<1>2. CASE fanout
  <2>1. hub.ev \in Event /\ UNCHANGED got
    BY <1>2 DEF fanout, Base, HubHolds
  <2>2. CASE buf'[s] = buf[s]
    BY <1>1, <2>1, <2>2
  <2>3. CASE buf'[s] # buf[s]
    <3>1. buf'[s] = Append(buf[s], hub.ev) /\ matches(s, hub.ev)
      BY <1>2, <2>3 DEF fanout, Receivers
    <3>2. Elems(buf[s])' = Elems(buf[s]) \cup {hub.ev}
      BY <2>1, <3>1, ElemsAppend DEF Base, TypeOK
    <3> QED
      BY <1>1, <2>1, <3>1, <3>2
  <2> QED
    BY <2>2, <2>3
<1>3. ASSUME NEW t \in Sub, Deliver(t) PROVE matches(s, e)
  <2>1. CASE s # t
    BY <1>1, <1>3, <2>1, OthersUntouched DEF SubStep
  <2>2. CASE s = t
    <3>1. /\ buf[s] \in Seq(Event)
          /\ buf[s] # <<>>
          /\ got[s] \in Seq(Event)
          /\ buf'[s] = Tail(buf[s])
          /\ got'[s] = Append(got[s], Head(buf[s]))
      BY <1>3, <2>2 DEF Deliver, Base, TypeOK
    <3>2. Head(buf[s]) \in Elems(buf[s]) /\ Elems(buf[s])' \subseteq Elems(buf[s])
      BY <3>1, ElemsHeadTail
    <3>3. Elems(got[s])' = Elems(got[s]) \cup {Head(buf[s])}
      BY <3>1, ElemsAppend, HeadTailProperties
    <3> QED
      BY <1>1, <3>2, <3>3
  <2> QED
    BY <2>1, <2>2
<1>4. CASE buf'[s] \in {buf[s], <<>>} /\ UNCHANGED got
  BY <1>1, <1>4, ElemsEmpty
<1>5. \/ fanout
      \/ \E t \in Sub : Deliver(t)
      \/ buf'[s] \in {buf[s], <<>>} /\ UNCHANGED got
  <2>1. ASSUME NEW t \in Sub, Register(t) \/ Hello(t) \/ Break(t) \/ Close(t)
        PROVE  buf'[s] \in {buf[s], <<>>} /\ UNCHANGED got
    BY <2>1 DEF Register, Hello, Break, Close, Hangup, Base, TypeOK
  <2>2. ASSUME \/ \E x \in Event : Commit(x)
               \/ Listen \/ WaitForNotification \/ HydrateFails \/ HubLosesConn \/ Restart
               \/ UNCHANGED vars
        PROVE  buf'[s] \in {buf[s], <<>>} /\ UNCHANGED got
    BY <2>2 DEF Commit, Listen, WaitForNotification, HydrateFails, HubLosesConn, Restart, vars
  <2> QED
    BY <2>1, <2>2 DEF Next, HubStep, SubStep
<1> QED
  BY <1>2, <1>3, <1>4, <1>5

(***************************************************************************)
(* The theorems.                                                           *)
(***************************************************************************)

LEMMA InvInit == Init => IInv
<1> SUFFICES ASSUME Init PROVE IInv
  OBVIOUS
<1>1. /\ InHand = {}
      /\ Elems(wire) = {}
      /\ \A s \in Sub : Elems(got[s]) = {} /\ Elems(buf[s]) = {}
  BY ElemsEmpty DEF Init, HubDown, InHand
<1>2. Increasing(rank, wire)
  BY DEF Init, Increasing
<1>3. \A s \in Sub : Increasing(rank, got[s]) /\ Increasing(rank, buf[s])
  BY DEF Init, Increasing
<1> QED
  BY <1>1, <1>2, <1>3, BaseInit DEF IInv, PipelineInLine, InLine, Matched, Below

LEMMA InvStep == IInv /\ [Next]_vars => IInv'
<1> SUFFICES ASSUME IInv, [Next]_vars PROVE IInv'
  OBVIOUS
<1>1. Base' /\ PipelineInLine' /\ Matched'
  BY BaseStep, PipelineStep, MatchedStep DEF IInv
<1>2. \A s \in Sub : InLine(s)'
  BY LineStep
<1> QED
  BY <1>1, <1>2 DEF IInv

\* What an application is handed is committed, in commit order and at most once,
\* over any number of reconnects, drops, lost notifications and restarts.
THEOREM DeliveredInOrder == Spec => []InOrderAtMostOnce
<1>1. IInv => InOrderAtMostOnce
  BY DEF IInv, InLine, Increasing, Elems, InOrderAtMostOnce
<1> QED
  BY <1>1, InvInit, InvStep, PTL DEF Spec

\* No subscriber is handed, or has waiting in its channel, a change its filter
\* excludes, another tenant's least of all.
THEOREM DeliveredMatching == Spec => []OnlyMatching
<1>1. IInv => OnlyMatching
  <2> SUFFICES ASSUME IInv, NEW s \in Sub, NEW e \in Elems(got[s] \o buf[s])
               PROVE  /\ e.schema = Filter[s].schema
                      /\ Filter[s].table \in {All, e.table}
                      /\ Filter[s].user \in {All, e.user}
    BY DEF OnlyMatching
  <2>1. e \in Elems(got[s]) \cup Elems(buf[s])
    <3>1. got[s] \in Seq(Event) /\ buf[s] \in Seq(Event)
      BY DEF IInv, Base, TypeOK
    <3> QED
      BY <3>1, ElemsConcat
  <2> QED
    BY <2>1 DEF IInv, Matched, matches, Fits
<1> QED
  BY <1>1, InvInit, InvStep, PTL DEF Spec

(***************************************************************************)
(* Losses.                                                                 *)
(***************************************************************************)

LEMMA ElemsSplit ==
    ASSUME NEW S, NEW q \in Seq(S), q # <<>>
    PROVE  Elems(q) \subseteq {Head(q)} \cup Elems(Tail(q))
<1> SUFFICES ASSUME NEW i \in DOMAIN q, q[i] # Head(q)
             PROVE  q[i] \in Elems(Tail(q))
  BY DEF Elems
<1>1. i \in 2..Len(q)
  BY LenProperties, HeadTailProperties
<1>2. i - 1 \in DOMAIN Tail(q) /\ Tail(q)[i - 1] = q[i]
  BY <1>1, HeadTailProperties, LenProperties
<1> QED
  BY <1>2 DEF Elems

\* Where a change a subscriber is owed may be.
Accounted(s) == Pipeline \cup Elems(buf[s]) \cup Elems(got[s]) \cup missed \cup dropped[s]
NoLoss(s) == Owed(s) \subseteq Accounted(s)

\* A step that owes a subscriber nothing new and forgets no change.
LEMMA StaysAccounted ==
    ASSUME NEW s \in Sub, NoLoss(s), UNCHANGED <<rank, conn[s], since[s]>>,
           Accounted(s) \subseteq Accounted(s)'
    PROVE  NoLoss(s)'
<1>1. Owed(s)' = Owed(s)
  BY DEF Owed, matches
<1> QED
  BY <1>1 DEF NoLoss

\* Nothing is owed where no connection is open.
LEMMA ClosedOwesNothing ==
    ASSUME NEW s \in Sub, conn'[s] # "open"
    PROVE  NoLoss(s)'
BY DEF NoLoss, Owed

\* A commit is on its way, or missed because the hub does not listen.
LEMMA CommitAccounted ==
    ASSUME Base, NEW s \in Sub, NoLoss(s), NEW e \in Event, Commit(e)
    PROVE  NoLoss(s)'
<1>1. UNCHANGED <<conn, since, got, buf, dropped, hub>>
  BY DEF Commit
<1>2. \A d \in Event \ {e} : rank'[d] = rank[d]
  BY DEF Commit, Base, TypeOK
<1>3. Owed(s)' \subseteq Owed(s) \cup {e}
  BY <1>1, <1>2 DEF Owed, matches
<1>4. Elems(wire) \cup missed \cup {e} \subseteq Elems(wire)' \cup missed'
  <2>1. Elems(Append(wire, e)) = Elems(wire) \cup {e}
    BY ElemsAppend DEF Base, TypeOK
  <2> QED
    BY <2>1 DEF Commit
<1>5. Accounted(s) \cup {e} \subseteq Accounted(s)'
  BY <1>1, <1>4 DEF Accounted, Pipeline
<1> QED
  BY <1>3, <1>5 DEF NoLoss

\* What the fan-out sends is in the channel, or dropped, of every subscriber it
\* is owed to: those have an open connection and a filter that matches.
LEMMA FanoutAccounted ==
    ASSUME Base, NEW s \in Sub, NoLoss(s), fanout
    PROVE  NoLoss(s)'
<1>1. hub.ev \in Event /\ UNCHANGED <<rank, wire, conn, got, since, missed>>
  BY DEF fanout, Base, HubHolds
<1>2. Owed(s)' = Owed(s)
  BY <1>1 DEF Owed, matches
<1>3. Elems(buf[s]) \subseteq Elems(buf[s])' /\ dropped[s] \subseteq dropped'[s]
  <2>1. Elems(Append(buf[s], hub.ev)) = Elems(buf[s]) \cup {hub.ev}
    BY <1>1, ElemsAppend DEF Base, TypeOK
  <2>2. buf'[s] \in {buf[s], Append(buf[s], hub.ev)}
    BY DEF fanout
  <2> QED
    BY <2>1, <2>2 DEF fanout
<1>4. hub.ev \in Owed(s) => hub.ev \in Elems(buf[s])' \cup dropped'[s]
  <2> SUFFICES ASSUME hub.ev \in Owed(s)
               PROVE  hub.ev \in Elems(buf[s])' \cup dropped'[s]
    OBVIOUS
  <2>1. s \in Receivers
    BY DEF Owed, Receivers, Registered
  <2>2. CASE Full(s)
    BY <2>1, <2>2 DEF fanout
  <2>3. CASE ~Full(s)
    <3>1. buf'[s] = Append(buf[s], hub.ev)
      BY <2>1, <2>3 DEF fanout
    <3> QED
      BY <1>1, <3>1, ElemsAppend DEF Base, TypeOK
  <2> QED
    BY <2>2, <2>3
<1>5. Accounted(s) \ {hub.ev} \subseteq Accounted(s)'
  BY <1>1, <1>3 DEF Accounted, Pipeline
<1>6. Elems(buf[s])' \cup dropped'[s] \subseteq Accounted(s)'
  BY DEF Accounted
<1> QED
  BY <1>2, <1>4, <1>5, <1>6 DEF NoLoss

\* Every commit so far precedes the hello, so nothing is owed yet.
LEMMA HelloOwesNothing ==
    ASSUME Base, NEW s \in Sub, Hello(s)
    PROVE  NoLoss(s)'
<1>1. since'[s] = Cardinality(Committed) /\ UNCHANGED rank
  BY DEF Hello, Base, TypeOK
<1>2. Cardinality(Committed) \in Nat
  BY FS_CardinalityType DEF Base, Ranked
<1>3. \A e \in Event : ~(rank[e] > Cardinality(Committed))
  BY <1>2 DEF Base, Ranked, TypeOK
<1>4. Owed(s)' = {}
  BY <1>1, <1>3 DEF Owed
<1> QED
  BY <1>4 DEF NoLoss

LEMMA LossStep ==
    ASSUME Base, [Next]_vars, NEW s \in Sub, NoLoss(s)
    PROVE  NoLoss(s)'
<1>1. ASSUME NEW e \in Event, Commit(e) PROVE NoLoss(s)'
  BY <1>1, CommitAccounted
<1>2. CASE fanout
  BY <1>2, FanoutAccounted
<1>3. CASE Listen
  <2>1. Accounted(s) \subseteq Accounted(s)'
    BY <1>3 DEF Listen, Base, HubHolds, Accounted, Pipeline
  <2> QED
    BY <1>3, <2>1, StaysAccounted DEF Listen
<1>4. CASE WaitForNotification
  <2>1. /\ wire \in Seq(Event)
        /\ wire # <<>>
        /\ wire' = Tail(wire)
        /\ hub.ev = NoEvent
        /\ hub'.ev = Head(wire)
    BY <1>4 DEF WaitForNotification, Base, TypeOK, HubHolds
  <2>2. Head(wire) \in Event
    BY <2>1, HeadTailProperties
  <2>3. Pipeline \subseteq Pipeline'
    BY <2>1, <2>2, ElemsSplit, EventAssumption DEF Pipeline
  <2>4. Accounted(s) \subseteq Accounted(s)'
    BY <1>4, <2>3 DEF WaitForNotification, Accounted
  <2> QED
    BY <1>4, <2>4, StaysAccounted DEF WaitForNotification
<1>5. CASE HydrateFails \/ HubLosesConn
  <2>1. Pipeline \cup missed \subseteq Pipeline' \cup missed'
    BY <1>5 DEF HydrateFails, HubLosesConn, Pipeline, Base, HubHolds
  <2>2. Accounted(s) \subseteq Accounted(s)'
    BY <1>5, <2>1 DEF HydrateFails, HubLosesConn, Accounted
  <2> QED
    BY <1>5, <2>2, StaysAccounted DEF HydrateFails, HubLosesConn
<1>6. CASE Restart
  BY <1>6, ClosedOwesNothing DEF Restart
<1>7. ASSUME NEW t \in Sub, SubStep(t) \/ Break(t) \/ Close(t) PROVE NoLoss(s)'
  <2>1. CASE s # t
    <3>1. /\ UNCHANGED <<rank, wire, hub, missed, got[s], buf[s], conn[s], since[s]>>
          /\ dropped'[s] = dropped[s]
      BY <1>7, <2>1 DEF SubStep, Register, Hello, Deliver, Break, Close, Hangup, Base, TypeOK
    <3>2. Accounted(s) \subseteq Accounted(s)'
      BY <3>1 DEF Accounted, Pipeline
    <3> QED
      BY <3>1, <3>2, StaysAccounted
  <2>2. CASE Deliver(s)
    <3>1. /\ buf[s] \in Seq(Event)
          /\ buf[s] # <<>>
          /\ got[s] \in Seq(Event)
          /\ buf'[s] = Tail(buf[s])
          /\ got'[s] = Append(got[s], Head(buf[s]))
      BY <2>2 DEF Deliver, Base, TypeOK
    <3>2. Elems(got[s])' = Elems(got[s]) \cup {Head(buf[s])}
      BY <3>1, ElemsAppend, HeadTailProperties
    <3>3. Elems(buf[s]) \cup Elems(got[s]) \subseteq Elems(buf[s])' \cup Elems(got[s])'
      BY <3>1, <3>2, ElemsSplit
    <3>4. Accounted(s) \subseteq Accounted(s)'
      BY <2>2, <3>3 DEF Deliver, Accounted, Pipeline
    <3> QED
      BY <2>2, <3>4, StaysAccounted DEF Deliver
  <2>3. CASE Hello(s)
    BY <2>3, HelloOwesNothing
  <2>4. CASE Register(s) \/ Break(s) \/ Close(s)
    BY <2>4, ClosedOwesNothing DEF Register, Break, Close, Hangup, Base, TypeOK
  <2> QED
    BY <1>7, <2>1, <2>2, <2>3, <2>4 DEF SubStep
<1>8. CASE UNCHANGED vars
  <2>1. Accounted(s) \subseteq Accounted(s)'
    BY <1>8 DEF vars, Accounted, Pipeline
  <2> QED
    BY <1>8, <2>1, StaysAccounted DEF vars
<1> QED
  BY <1>1, <1>2, <1>3, <1>4, <1>5, <1>6, <1>7, <1>8 DEF Next, HubStep

\* A change that commits after a subscriber's hello is, while the connection
\* lasts, on its way or handed over, or the hub missed it or counted its drop:
\* no other step of the hub, the fan-out or the handler forgets it.
THEOREM NoLossUnaccounted == Spec => []NoUnaccountedLoss
<1> DEFINE LInv == Base /\ \A s \in Sub : NoLoss(s)
<1>1. Init => LInv
  <2>1. Init => \A s \in Sub : NoLoss(s)
    BY DEF Init, NoLoss, Owed
  <2> QED
    BY <2>1, BaseInit
<1>2. LInv /\ [Next]_vars => LInv'
  BY BaseStep, LossStep
<1>3. LInv => NoUnaccountedLoss
  BY DEF NoLoss, Accounted, NoUnaccountedLoss
<1> QED
  BY <1>1, <1>2, <1>3, PTL DEF Spec

(***************************************************************************)
(* The abstract feed.                                                      *)
(***************************************************************************)

LEMMA FeedCommitted == Promised!Committed = Committed
BY DEF Promised!Committed, Committed

\* What is delivered heads the channel: it is committed, matched and ranks above
\* what was handed over before.
LEMMA DeliverHandsOver ==
    ASSUME IInv, NEW s \in Sub, Deliver(s)
    PROVE  Promised!HandOver(s, Head(buf[s]))
<1>1. buf[s] \in Seq(Event) /\ buf[s] # <<>> /\ got[s] \in Seq(Event)
  BY DEF Deliver, IInv, Base, TypeOK
<1>2. Head(buf[s]) \in Elems(buf[s]) /\ Head(buf[s]) \in Event
  BY <1>1, ElemsHeadTail, HeadTailProperties
<1>3. Head(buf[s]) \in Committed /\ matches(s, Head(buf[s]))
  BY <1>2 DEF IInv, InLine, Matched
<1>4. \A i \in DOMAIN got[s] : rank[got[s][i]] < rank[Head(buf[s])]
  BY <1>2 DEF IInv, InLine, Below, Elems
<1>5. got' = [got EXCEPT ![s] = Append(@, Head(buf[s]))] /\ UNCHANGED rank
  BY DEF Deliver
<1> QED
  BY <1>2, <1>3, <1>4, <1>5, FeedCommitted DEF Promised!HandOver

LEMMA FeedStep == IInv /\ [Next]_vars => [Promised!Next]_Promised!vars
<1> SUFFICES ASSUME IInv, [Next]_vars PROVE Promised!Next \/ UNCHANGED <<rank, got>>
  BY DEF Promised!vars
<1>1. ASSUME NEW e \in Event, Commit(e) PROVE Promised!Next
  <2>1. /\ e \notin Committed /\ UNCHANGED got
        /\ rank' \in [Event -> Nat]
        /\ Cardinality(Committed) \in Nat
        /\ rank'[e] = Cardinality(Committed) + 1
    BY <1>1, CommitRanks DEF Commit, IInv
  <2>2. ASSUME NEW d \in Event \ {e} PROVE rank'[d] = rank[d] /\ rank[d] < rank'[e]
    <3>1. rank[d] \in Nat /\ rank[d] <= Cardinality(Committed)
      BY DEF IInv, Base, TypeOK, Ranked
    <3>2. rank'[d] = rank[d]
      BY <1>1 DEF Commit, IInv, Base, TypeOK
    <3> QED
      BY <2>1, <3>1, <3>2
  <2>3. Promised!Commit(e)
    BY <2>1, <2>2, FeedCommitted DEF Promised!Commit
  <2> QED
    BY <2>3 DEF Promised!Next
<1>2. ASSUME NEW s \in Sub, Deliver(s) PROVE Promised!Next
  <2>1. Head(buf[s]) \in Event
    BY <1>2, HeadTailProperties DEF Deliver, IInv, Base, TypeOK
  <2> QED
    BY <1>2, <2>1, DeliverHandsOver DEF Promised!Next
<1>3. ASSUME NEW s \in Sub, Register(s) \/ Hello(s) \/ Break(s) \/ Close(s)
      PROVE  UNCHANGED <<rank, got>>
  BY <1>3 DEF Register, Hello, Break, Close, Hangup
<1>4. ASSUME \/ Listen \/ WaitForNotification \/ fanout \/ HydrateFails
             \/ HubLosesConn \/ Restart \/ UNCHANGED vars
      PROVE  UNCHANGED <<rank, got>>
  BY <1>4 DEF Listen, WaitForNotification, fanout, HydrateFails, HubLosesConn, Restart, vars
<1> QED
  BY <1>1, <1>2, <1>3, <1>4 DEF Next, HubStep, SubStep

\* Realtime implements the feed an application is promised: reconnects, full
\* channels, lost notifications and restarts make gaps in it and nothing else.
THEOREM RealtimeImplementsFeed == Spec => ImplementsFeed
<1>1. Init => Promised!Init
  BY DEF Init, Promised!Init
<1> QED
  BY <1>1, InvInit, InvStep, FeedStep, PTL DEF Spec, ImplementsFeed, Promised!Spec
=============================================================================
