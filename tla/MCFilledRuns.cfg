SPECIFICATION FairSpec
CONSTANTS
    Slots = {1, 2}
    Debounce = 2
    Setups <- MCFilled
    UserCommands = {"start"}
    QueueLimit = 2
PROPERTIES
    FilledHolds
CHECK_DEADLOCK FALSE
