\* Nobody leaves and every FIFO has room, yet a payload stays in a stream buffer.
CONSTANTS
    w1 = w1
    r = r
    Clients = {w1, r}
    Writers = {w1}
    Readers = {r}
    Leavers = {}
    NoClient = NoClient
    PipeCap = 6
    MaxCommands <- OneEach
SPECIFICATION FairSpec
PROPERTY UpdatesDisplayed
CHECK_DEADLOCK FALSE
