SPECIFICATION Spec
CONSTANTS
    s1 = s1
    s2 = s2
    p1 = p1
    p2 = p2
    t1 = t1
    k1 = k1
    l1 = l1
    NoLane = NoLane
    NoClaimant = NoClaimant
    NoCheckpoint = NoCheckpoint
    NoSlot = NoSlot
    NoCommand = NoCommand
    NoCorrelation = NoCorrelation
    Commands <- OneRunCommands
    Runs <- OneRunRuns
    RunOf <- OneRunRunOf
    Kind <- OneRunKind
    Lanes = {l1}
    Checkpoints <- CheckpointIds
    LaneOf <- NoLanes
    Claimants = {p1}
    MaxAttempts = 2
    Slots = {s1, s2}
    ProcessOf <- OneProcess
    Threads = {t1}
    ThreadOf <- OneThread
    Correlations = {k1}
    CorrelationOf <- OneRunAnswers
    ChatRuns <- OneRunRuns
    FaultKinds = {"crash", "stall", "error", "busy_tool", "products"}
    MaxFaults = 2
INVARIANTS
    TypeOK
    OneWriterPerThread
    AppliedAtOwnBoundary
CHECK_DEADLOCK FALSE
