SPECIFICATION InboxSpec
CONSTANTS
    p1 = p1
    p2 = p2
    l1 = l1
    k1 = k1
    NoLane = NoLane
    NoClaimant = NoClaimant
    NoCheckpoint = NoCheckpoint
    Commands <- Script
    Runs <- TwoRuns
    RunOf <- ScriptRunOf
    Kind <- ScriptKind
    Lanes = {l1}
    LaneOf <- OneLane
    Claimants = {p1, p2}
    Checkpoints = {k1}
    MaxAttempts = 1
INVARIANTS
    LaneExclusive
PROPERTIES
    SettlementIsFinal
    LiveClaimIsNotTaken
    LedgerSpec
CHECK_DEADLOCK FALSE
