SPECIFICATION Spec
CONSTANTS
    Procs = {1, 2}
    DataMax = 2
    TransferTimeout = 2
    HoldTime = 1
    MaxLag = 1
    RestClients = {"http"}
    CommandClients = {"mqtt"}
    FileChunks <- MCTwoAlike
    QueueLen = 2
    MaxGen = 2
    MaxNoise = 1
INVARIANTS
    TypeOK
    ObjectSound
    DownloadIntact
PROPERTIES
    NoTakeover
    DrainIsFinal
    LiveNotTimedOut
