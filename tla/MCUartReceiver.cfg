SPECIFICATION FairSpec
CONSTANTS
    Pids = {1, 2}
    NoPid = NoPid
    ValveBw <- MCValves
    SupportTails = TRUE
    Threshold = 2
    StageOrder <- MCStages
    EventsSeen = {"manually_closed", "heads_finished"}
    Pressures = {0}
    QueueLength = 2
    Budgets <- MCBudgets
INVARIANTS
    TypeOK
    TableSound
PROPERTIES
    ProcessFollows
    SilenceReported
    RecoveryAsks
CHECK_DEADLOCK FALSE
