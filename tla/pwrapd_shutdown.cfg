\* A subscription's upgrades, the sweeper and the hub share a pool of two
\* connections; one fault.
SPECIFICATION FairSubscriptionSpec
CONSTANTS
    Request = {s1}
    MaxConns = 2
    MaxFaults = 1
INVARIANT HubReleasedFirst
PROPERTIES
    SignalExits
    HubComesBack
    ClosedEnds
    ComesBack
