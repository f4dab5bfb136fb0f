SPECIFICATION FairSpec
CONSTANTS
    Pids = {1}
    NoPid = NoPid
    ValveBw <- MCValves
    SupportTails = TRUE
    Threshold = 2
    StageOrder <- MCStages
    EventsSeen = {}
    Pressures = {0}
    QueueLength = 2
    Budgets <- MCLossBudget
PROPERTIES
    FaultEnds
CHECK_DEADLOCK FALSE
