\* Two nodes propose in the same instance; node 0 may retry once, above node 1.
CONSTANTS
    N = 3
    Commands = {A, B}
    None = None
    Proposers = {0, 1}
    MaxBallot = 6
    MaxCrashes = 0
SPECIFICATION Spec
CHECK_DEADLOCK FALSE
VIEW View
INVARIANTS TypeOK Agreement ChosenProtected OneCommandPerBallot CountsAreAcceptors CascadeDrains
PROPERTIES ImplementsConsensus
