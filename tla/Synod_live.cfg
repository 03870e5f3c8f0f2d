\* One node proposes, no node stops, no message is lost.
CONSTANTS
    N = 3
    Commands = {A, B}
    None = None
    Proposers = {0}
    MaxBallot = 3
    MaxCrashes = 0
SPECIFICATION FairSpec
CHECK_DEADLOCK FALSE
PROPERTIES EveryNodeLearns
