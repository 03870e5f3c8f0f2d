\* A leader of one instance proposes in another, where a command is chosen.
CONSTANTS
    N = 3
    A = A
    B = B
    C = C
    Commands = {A, B, C}
    None = None
    Requests <- FastRequests
    NumInstances = 2
    MaxBallot = 4
    MaxCrashes = 0
SPECIFICATION Spec
CHECK_DEADLOCK FALSE
VIEW View
CONSTRAINT FastPathSchedule
INVARIANTS SameOrder
