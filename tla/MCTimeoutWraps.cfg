SPECIFICATION Spec
CONSTANTS
    Procs = {1}
    DataMax = 2
    TransferTimeout = 2
    HoldTime = 1
    MaxLag = 1
    RestClients = {"http"}
    CommandClients = {}
    FileChunks <- MCOneFile
    QueueLen = 1
    MaxGen = 2
    MaxNoise = 1
PROPERTIES
    TimeoutOnlyAfterSilence
