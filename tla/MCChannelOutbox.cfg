SPECIFICATION FairSpec
CONSTANTS
    w1 = w1
    w2 = w2
    Workers = {w1, w2}
    Gone = Gone
    NoOwner = NoOwner
    MaxDeliveries = 2
    MaxAttempts = 2
    MaxFaults = 2
INVARIANTS
    DuplicatesAreExcused
PROPERTIES
    OutcomeIsFinal
    EveryDeliverySettles
    RunStatusSettles
CHECK_DEADLOCK FALSE
