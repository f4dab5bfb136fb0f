SPECIFICATION Spec
CONSTANTS
    Procs = {1}
    DataMax = 1
    TransferTimeout = 1
    HoldTime = 1
    MaxLag = 0
    Tasks = {"http"}
    Types = {"START", "GET_SETTINGS"}
    AttemptCount = 1
    Timeout = 2
    TickMod = 8
    MaxLate = 1
    QueueLen = 2
    HelloCount = 0
    MaxCommands = 1
    MaxStops = 0
INVARIANTS
    WaitBounded
