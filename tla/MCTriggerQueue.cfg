SPECIFICATION FairSpec
CONSTANTS
    a1 = a1
    t1 = t1
    NoToken = NoToken
    Occurrences <- MCOccurrences
    Meetings = {2}
    Triggers = {t1}
    TriggerOf <- OneTrigger
    Agents = {a1}
    AgentOf <- OneAgent
    Limits = {1, 2}
    MaxConcurrency = 2
    MaxClaims = 2
    MaxTasks = 3
INVARIANTS
    ProjectedRowIsFinal
    OneOwnerPerAgent
PROPERTIES
    NoAnswerAfterProjection
    DueRunsKeepLimit
    OccurrenceReachesRunOutcome
CHECK_DEADLOCK FALSE
