\* Two nodes, one stop and the restart after it.
CONSTANTS
    N = 2
    MaxConns = 3
    MaxSends = 1
    MaxStops = 1
    MaxDeaths = 0
    InboxCapacity = 1
    PipeCapacity = 1
SPECIFICATION FairSpec
CHECK_DEADLOCK FALSE
PROPERTIES Restored
