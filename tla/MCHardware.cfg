CONSTANTS
    Wrong = Wrong
    None = None
    Bad = Bad
    Messengers = {"vk_bot"}
    Toggles = {"vk_bot", "xkc25_sensor", "atm_sensor"}
    Files <- MCFiles
    Saved <- MCSaved
    Bodies <- MCBodies
    Limits <- MCLimits
SPECIFICATION Spec
INVARIANTS TypeOK RebootOwed SettingsKept TogglesKept
CHECK_DEADLOCK FALSE
