\* One node without a failure, its outbox one message short of two calls.
CONSTANTS
    NumInstances = 2
    MaxCalls = 2
    MaxCrashes = 0
    MaxErrors = 0
    OutboxCapacity = 3
    KeyBase = 2
    KeyWidth = 1
    Failing = {}
SPECIFICATION FairSpec
CHECK_DEADLOCK FALSE
PROPERTIES CallsReturn
