\* Nodes 0 and 1 propose: in one instance, in two, or through the leader.
CONSTANTS
    N = 3
    A = A
    B = B
    C = C
    Commands = {A, B, C}
    None = None
    Requests <- RivalRequests
    NumInstances = 2
    MaxBallot = 6
    MaxCrashes = 0
SPECIFICATION Spec
CHECK_DEADLOCK FALSE
VIEW View
INVARIANTS TypeOK LeaderHasWon OneCommandPerBallot AppliedIsChosen
