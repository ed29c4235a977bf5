\* One client and FIFOs of one message: a client that writes faster than it reads.
CONSTANTS
    w1 = w1
    Clients = {w1}
    Writers = {w1}
    Readers = {}
    Leavers = {}
    NoClient = NoClient
    PipeCap = 1
    MaxCommands <- FourEach
SPECIFICATION FairSpec
PROPERTY CommandsCommitted
CHECK_DEADLOCK FALSE
