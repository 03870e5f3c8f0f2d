\* Node 1 leads, nodes 0 and 2 forward a command each.
CONSTANTS
    N = 3
    A = A
    B = B
    C = C
    Commands = {A, B, C}
    None = None
    Requests <- ForwardRequests
    NumInstances = 3
    MaxBallot = 4
    MaxCrashes = 0
SPECIFICATION Spec
CHECK_DEADLOCK FALSE
VIEW View
PROPERTIES AckReachesForwarder
