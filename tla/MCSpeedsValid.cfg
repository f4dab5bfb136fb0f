CONSTANTS
    QueueLimit = 4
    MaxId = 3
    Setups <- MCSpeeds
    Bodies <- MCBodies
    Fields <- MCFields
    Inputs <- MCInputs
    PerSet = 2
SPECIFICATION Spec
INVARIANT SpeedsValid
CHECK_DEADLOCK FALSE
