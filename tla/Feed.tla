-------------------------------- MODULE Feed --------------------------------
(***************************************************************************)
(* What a subscription promises the application: a change is handed over   *)
(* only when it is committed and wanted, and ranks above all that was      *)
(* handed over before; nothing is taken back.  Changes may be missing.     *)
(* Realtime implements it.                                                 *)
(***************************************************************************)
EXTENDS Naturals, Sequences

CONSTANTS Event, Sub,
          Wanted  \* [Sub -> SUBSET Event]

VARIABLES rank,  \* position in commit order, 0 while not committed
          got    \* what each application was handed, in order
vars == <<rank, got>>

Init == /\ rank = [e \in Event |-> 0]
        /\ got = [s \in Sub |-> <<>>]

Committed == {e \in Event : rank[e] > 0}

Commit(e) == /\ e \notin Committed
             /\ rank' \in [Event -> Nat]
             /\ rank'[e] > 0
             /\ \A d \in Event \ {e} : rank'[d] = rank[d] /\ rank[d] < rank'[e]
             /\ UNCHANGED got

HandOver(s, e) == /\ e \in Wanted[s]
                  /\ e \in Committed
                  /\ \A i \in DOMAIN got[s] : rank[got[s][i]] < rank[e]
                  /\ got' = [got EXCEPT ![s] = Append(@, e)]
                  /\ UNCHANGED rank

Next == \E e \in Event : \/ Commit(e)
                         \/ \E s \in Sub : HandOver(s, e)

Spec == Init /\ [][Next]_vars
=============================================================================
