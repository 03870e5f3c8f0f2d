\* Nodes 0 and 1 propose in the same instance: what their clients are told.
CONSTANTS
    N = 3
    A = A
    B = B
    C = C
    Commands = {A, B, C}
    None = None
    Requests <- RivalRequests
    NumInstances = 1
    MaxBallot = 4
    MaxCrashes = 0
SPECIFICATION Spec
CHECK_DEADLOCK FALSE
VIEW View
INVARIANTS RepliesMatch
