\* Two nodes start in any order, connect and send; two stops, one panic.
CONSTANTS
    N = 2
    MaxConns = 3
    MaxSends = 2
    MaxStops = 2
    MaxDeaths = 1
    InboxCapacity = 1
    PipeCapacity = 1
SPECIFICATION FairSpec
CHECK_DEADLOCK FALSE
INVARIANTS TypeOK OneConnection
PROPERTIES ImplementsNetwork AllConnect AllReceive
