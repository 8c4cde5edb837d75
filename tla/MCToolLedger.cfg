SPECIFICATION FairSpec
CONSTANTS
    read = read
    write = write
    group = group
    poll = poll
    w1 = w1
    w2 = w2
    k1 = k1
    NoCall = NoCall
    Gone = Gone
    NoOwner = NoOwner
    Calls = {read, write, group, poll}
    Proposed = {read, write, group}
    Kind <- MCKind
    Poll <- MCPoll
    Workers = {w1, w2}
    Reconcilers = {k1}
    MaxAttempts = 3
    MaxFaults = 2
INVARIANTS
    TypeOK
    NoRepeatedEffect
    AnswersAgree
    WorkspaceReceiptIsTrue
PROPERTIES
    SettledReceiptIsFinal
    EveryCallConcludes
    WorkspaceReceiptSettles
    PendingIsPolled
CHECK_DEADLOCK FALSE
