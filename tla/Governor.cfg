CONSTANTS
    BaseThreads = 6
    Temperatures = {60, 78, 90}
    Models = {"big", "small"}
    Size <- MCSize
    Capacity = 40
    MaxSessions = 2
    MaxGen = 1
    MaxOps = 2
    MaxSlots = 1
    PoolThreads = {t1, t2, t3}
    Limit = 2
    NumRequests = 3
    NumStages = 3
    Concurrencies = {0, 1, 2}
    ChannelCap = 64
SPECIFICATION MCSpec
INVARIANTS GovernorInv RampInv TokensBounded AtMostOneLate RequestInv
PROPERTIES BudgetSpec BudgetRecovers RequestsReturn
CHECK_DEADLOCK FALSE
