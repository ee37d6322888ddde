CONSTANTS
    AppThreads = {a1}
    Loops = {l1}
    MaxConnects = 2
    ShutdownCodes = {"err"}
SPECIFICATION FairSpec
PROPERTIES
    CloseCompletes
    ConnectResolves
    DisconnectReported
    FlushReported
    ImplFreed
