SPECIFICATION FairSpec
CONSTANTS
    Slots = {1, 2}
    Debounce = 2
    Setups <- MCSetups
    UserCommands = {"start", "stop"}
    QueueLimit = 2
INVARIANTS
    TypeOK
    PolarityRight
    AlertsExact
CHECK_DEADLOCK FALSE
PROPERTIES
    LevelFollows
    StartWarned
