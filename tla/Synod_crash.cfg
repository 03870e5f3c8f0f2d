\* Two nodes propose; one node stops, anywhere, and restarts.
CONSTANTS
    N = 3
    Commands = {A, B}
    None = None
    Proposers = {0, 1}
    MaxBallot = 4
    MaxCrashes = 1
SPECIFICATION Spec
CHECK_DEADLOCK FALSE
VIEW View
INVARIANTS LearnedIsChosen
PROPERTIES AcceptorNeverForgets BallotsNeverReused
