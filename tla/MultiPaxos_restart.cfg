\* Nodes 0 and 1 propose, one node stops and restarts from its storage.
CONSTANTS
    N = 3
    A = A
    B = B
    C = C
    Commands = {A, B, C}
    None = None
    Requests <- RivalRequests
    NumInstances = 1
    MaxBallot = 4
    MaxCrashes = 1
SPECIFICATION Spec
CHECK_DEADLOCK FALSE
VIEW View
PROPERTIES AcceptorNeverForgets
