CONSTANTS
    QueueLimit = 4
    MaxId = 3
    Setups <- MCApply
    Bodies <- MCBodies
    Fields <- MCFields
    Inputs <- MCInputs
    PerSet = 2
SPECIFICATION Spec
INVARIANT PromiseKept
CHECK_DEADLOCK FALSE
