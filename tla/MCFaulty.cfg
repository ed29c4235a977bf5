\* A writer and a reader that may leave, three calls that fail, and FIFOs that are full
\* at once.
CONSTANTS
    w1 = w1
    r = r
    Clients = {w1, r}
    Writers = {w1}
    Readers = {r}
    Leavers = {r}
    NoClient = NoClient
    PipeCap = 1
    MaxCommands <- OneEach
    MaxFaults = 3
SPECIFICATION FaultyFairSpec
INVARIANTS FaultyTypeOK RegistrySound OnlySkippedMissed OnlyDriftedDiffer
PROPERTIES ClosedClientsRemoved DroppedClientsExit
CHECK_DEADLOCK FALSE
