CONSTANTS
    QueueLimit = 4
    MaxId = 3
    Setups <- MCSetups
    Bodies <- MCBodies
    Fields <- MCFields
    Inputs <- MCInputs
    PerSet = 2
SPECIFICATION Spec
INVARIANTS TypeOK FilesListed MirrorFollows
PROPERTY StoreKept
CHECK_DEADLOCK FALSE
