SPECIFICATION FairSpec
CONSTANTS
    Procs = {1, 2}
    DataMax = 1
    TransferTimeout = 1
    HoldTime = 1
    MaxLag = 1
    RestClients = {"http"}
    CommandClients = {}
    FileChunks <- MCOneEmpty
    QueueLen = 2
    MaxGen = 3
    MaxNoise = 1
PROPERTIES
    SessionEnds
