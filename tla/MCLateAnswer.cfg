SPECIFICATION Spec
CONSTANTS
    Procs = {1}
    DataMax = 1
    TransferTimeout = 1
    HoldTime = 1
    MaxLag = 0
    Tasks = {"http"}
    Types = {"START"}
    AttemptCount = 1
    Timeout = 1
    TickMod = 2
    MaxLate = 0
    QueueLen = 2
    HelloCount = 0
    MaxCommands = 2
    MaxStops = 0
INVARIANTS
    AnswerIsOwn
