\* A reader that leaves at a bad moment takes the server down for the writer that stays.
CONSTANTS
    w1 = w1
    r = r
    Clients = {w1, r}
    Writers = {w1}
    Readers = {r}
    Leavers = {r}
    NoClient = NoClient
    PipeCap = 4
    MaxCommands <- OneEach
SPECIFICATION FairSpec
PROPERTY UpdatesDelivered
CHECK_DEADLOCK FALSE
