\* Two subscriptions of one tenant, one filtered, and another tenant's change;
\* one fault of any kind; channels of one event, so that a slow reader drops.
SPECIFICATION FairSpec
CONSTANTS
    s1 = s1
    s2 = s2
    Event <- MCEvent
    Sub = {s1, s2}
    Filter <- MCFilter
    All = All
    BufCap = 1
    NoEvent = NoEvent
    MaxFaults = 1
INVARIANTS
    InOrderAtMostOnce
    OnlyMatching
    NoUnaccountedLoss
PROPERTIES
    ImplementsFeed
    EventuallyHandedOver
CHECK_DEADLOCK FALSE
