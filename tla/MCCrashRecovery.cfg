SPECIFICATION Spec
CONSTANTS
    s1 = s1
    s2 = s2
    p1 = p1
    p2 = p2
    t1 = t1
    k1 = k1
    l1 = l1
    NoLane = NoLane
    NoClaimant = NoClaimant
    NoCheckpoint = NoCheckpoint
    NoSlot = NoSlot
    NoCommand = NoCommand
    NoCorrelation = NoCorrelation
    Commands <- OneRunCommands
    Runs <- OneRunRuns
    RunOf <- OneRunRunOf
    Kind <- OneRunKind
    Lanes = {l1}
    Checkpoints <- CheckpointIds
    LaneOf <- NoLanes
    Claimants = {p1, p2}
    MaxAttempts = 3
    Slots = {s1, s2}
    ProcessOf <- TwoProcesses
    Threads = {t1}
    ThreadOf <- OneThread
    Correlations = {k1}
    CorrelationOf <- OneRunAnswers
    ChatRuns <- OneRunRuns
    FaultKinds = {"crash"}
    MaxFaults = 1
INVARIANTS
    CrashIsRecovered
CHECK_DEADLOCK FALSE
