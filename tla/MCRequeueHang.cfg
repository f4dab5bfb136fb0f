SPECIFICATION FairSpec
CONSTANTS
    Procs = {1}
    DataMax = 1
    TransferTimeout = 1
    HoldTime = 1
    MaxLag = 0
    Tasks = {"http"}
    Types = {"GET_LOG", "AT"}
    AttemptCount = 1
    Timeout = 1
    TickMod = 2
    MaxLate = 0
    QueueLen = 1
    HelloCount = 0
    MaxCommands = 4
    MaxStops = 1
PROPERTIES
    SafetyPolled
