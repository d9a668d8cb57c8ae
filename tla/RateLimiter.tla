----------------------------- MODULE RateLimiter -----------------------------
(***************************************************************************)
(* auth.Limiter: a token bucket per bearer, made on first use and evicted  *)
(* when it has been idle.  A unit of time is what one token takes to come  *)
(* back (100 ms at 10 rps); rate.Limiter adds them up lazily.              *)
(***************************************************************************)
EXTENDS Integers

CONSTANTS Bearer,    \* bearers told apart by BearerKey
          Burst,     \* capacity of a bucket
          IdleLimit, \* ttl
          MaxClock   \* bound: the clock stops here

ASSUME LimiterAssumption == /\ Burst \in Nat \ {0}
                            /\ IdleLimit \in Nat
                            /\ Burst <= IdleLimit
                            /\ MaxClock \in Nat

VARIABLES clock,
          limiters,  \* the map, [present |-> FALSE, ...] where it has no entry
          granted    \* history: requests let through, per bearer

limiterVars == <<clock, limiters, granted>>

Entry == [present : BOOLEAN, tokens : 0..Burst, last : Nat, lastAccess : Nat]
NoEntry == [present |-> FALSE, tokens |-> 0, last |-> 0, lastAccess |-> 0]

LimiterTypeOK == /\ clock \in Nat
                 /\ limiters \in [Bearer -> Entry]
                 /\ granted \in [Bearer -> Nat]

LimiterInit == /\ clock = 0
               /\ limiters = [b \in Bearer |-> NoEntry]
               /\ granted = [b \in Bearer |-> 0]

Fill(e) == IF e.tokens + (clock - e.last) < Burst THEN e.tokens + (clock - e.last) ELSE Burst
Tokens(e) == IF e.present THEN Fill(e) ELSE Burst

\* A new bucket is full.  A refused request touches the entry, not its bucket.
Spent(e) == [present |-> TRUE, tokens |-> Tokens(e) - 1, last |-> clock, lastAccess |-> clock]

\* A bug: off by one.
HasToken_Zero(e) == Tokens(e) >= 0
HasToken(e) == Tokens(e) > 0

Granted(b) ==
    /\ HasToken(limiters[b])
    /\ limiters' = [limiters EXCEPT ![b] = Spent(@)]
    /\ granted' = [granted EXCEPT ![b] = @ + 1]
    /\ UNCHANGED clock

Refused(b) ==
    /\ ~HasToken(limiters[b])
    /\ limiters' = [limiters EXCEPT ![b] = [@ EXCEPT !.lastAccess = clock]]
    /\ UNCHANGED <<clock, granted>>

\* A bug: whatever is not in use at this very moment is evicted.
Idle_Unused(e) == e.present
Idle(e) == e.present /\ clock - e.lastAccess > IdleLimit

\* One pass of StartCleanup; its period does not matter.
StartCleanup ==
    /\ limiters' = [b \in Bearer |-> IF Idle(limiters[b]) THEN NoEntry ELSE limiters[b]]
    /\ UNCHANGED <<clock, granted>>

LimiterTick ==
    /\ clock < MaxClock
    /\ clock' = clock + 1
    /\ UNCHANGED <<limiters, granted>>

LimiterNext == \/ \E b \in Bearer : Granted(b) \/ Refused(b)
               \/ StartCleanup
               \/ LimiterTick

LimiterSpec == LimiterInit /\ [][LimiterNext]_limiterVars

-----------------------------------------------------------------------------
\* Forgetting idle bearers lets nobody through more often than a bucket that is
\* kept for ever would: a full burst, and one request per unit of time.
NeverMoreThanTheRate == \A b \in Bearer : granted[b] <= Burst + clock
=============================================================================
