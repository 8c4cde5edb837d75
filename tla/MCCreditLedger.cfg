SPECIFICATION FairSpec
CONSTANTS
    r1 = r1
    r2 = r2
    q1 = q1
    t1 = t1
    Rounds = {r1, r2}
    Readers = {q1}
    Topups = {t1}
    PlanOrder = PlanOrder
    TopupCredits = 2
    FreeCredits = 2
    PlanCredits = 2
    OrderAmount = 1
    Holds = {2}
    Debts = {1, 3}
    Costs = {2}
    MaxFaults = 1
INVARIANTS
    TypeOK
    HoldsAddUp
    DebtChargedExactly
    AcceptedDebtStands
    HoldsAreCovered
PROPERTIES
    EveryDebtIsSettled
CHECK_DEADLOCK FALSE
