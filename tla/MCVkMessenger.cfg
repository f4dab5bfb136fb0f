CONSTANTS
    kAlertQueueDepth = 1
    kVkPeriodTicks = 2
    Chats = {c1, c2}
    NoChat = NoChat
    Settings <- MCSettings
    Bodies <- MCBodies
    MaxAlerts = 2
    Limits <- MCLimits
SPECIFICATION FairSpec
INVARIANTS TypeOK MessengerSafe
PROPERTIES AlertDelivered
CHECK_DEADLOCK FALSE
