SPECIFICATION Spec
CONSTANTS
    http = http
    mqtt = mqtt
    Procs = {1}
    DataMax = 1
    TransferTimeout = 1
    HoldTime = 1
    MaxLag = 0
    Tasks = {http, mqtt}
    Types = {"START"}
    AttemptCount = 1
    Timeout = 1
    TickMod = 2
    MaxLate = 0
    QueueLen = 1
    HelloCount = 0
    MaxCommands = 4
    MaxStops = 3
SYMMETRY TaskSymmetry
PROPERTIES
    StaleDropped
