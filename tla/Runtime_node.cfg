\* Two instances, two calls, two stops, an error of the acceptors' storage;
\* apply may refuse any of the commands.
CONSTANTS
    NumInstances = 2
    MaxCalls = 2
    MaxCrashes = 2
    MaxErrors = 1
    OutboxCapacity = 4
    KeyBase = 3
    KeyWidth = 2
    Failing = {0, 1}
SPECIFICATION FairSpec
CHECK_DEADLOCK FALSE
INVARIANTS TypeOK RecoverySkipsNothing AnsweredSurvives AppliedInOrder KeysInOrder
PROPERTIES ImplementsDurableLog CallsReturn
