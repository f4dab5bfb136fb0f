CONSTANTS
    Wrong = Wrong
    None = None
    Bad = Bad
    Messengers = {"vk_bot"}
    Toggles = {"vk_bot", "xkc25_sensor", "atm_sensor"}
    Files <- MCSensorFile
    Saved <- MCSaved
    Bodies <- MCBodies
    Limits <- MCCalibrated
SPECIFICATION Spec
INVARIANT CalibrationKept
CHECK_DEADLOCK FALSE
