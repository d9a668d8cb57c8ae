\* As pwrapd_shutdown: what happens when the HTTP server fails.
SPECIFICATION FairSpec
CONSTANTS
    Request = {r1}
    MaxConns = 2
PROPERTY ErrorExits
