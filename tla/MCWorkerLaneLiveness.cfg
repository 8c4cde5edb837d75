SPECIFICATION FairSpec
CONSTANTS
    s1 = s1
    s2 = s2
    p1 = p1
    p2 = p2
    t1 = t1
    k1 = k1
    l1 = l1
    NoLane = NoLane
    NoClaimant = NoClaimant
    NoCheckpoint = NoCheckpoint
    NoSlot = NoSlot
    NoCommand = NoCommand
    NoCorrelation = NoCorrelation
    Commands <- OneRunCommands
    Runs <- TwoRunsRuns
    RunOf <- TwoRunsRunOf
    Kind <- TwoRunsKind
    Lanes = {l1}
    Checkpoints <- CheckpointIds
    LaneOf <- OneLane
    Claimants = {p1, p2}
    MaxAttempts = 2
    Slots = {s1, s2}
    ProcessOf <- TwoProcesses
    Threads = {t1}
    ThreadOf <- OneThread
    Correlations = {k1}
    CorrelationOf <- TwoRunsAnswers
    ChatRuns <- TwoRunsRuns
    FaultKinds = {"crash", "products"}
    MaxFaults = 1
INVARIANTS
    LaneCoversExecution
PROPERTIES
    InboxSpec
    LaneIsReturned
    QueuedStartProceeds
CHECK_DEADLOCK FALSE
