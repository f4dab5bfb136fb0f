SPECIFICATION FairSpec
CONSTANTS
    Procs = {1}
    DataMax = 1
    TransferTimeout = 1
    HoldTime = 1
    MaxLag = 0
    Tasks = {"http"}
    Types = {"START", "GET_LOG", "VERSION"}
    AttemptCount = 2
    Timeout = 1
    TickMod = 2
    MaxLate = 0
    QueueLen = 2
    HelloCount = 1
    MaxCommands = 2
    MaxStops = 1
PROPERTIES
    DeliveryKept
    NoOrdinaryWhileWaiting
    EveryCommandSettles
