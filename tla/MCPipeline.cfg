\* A writer that types ahead, two readers, and FIFOs of two messages that fill up.
CONSTANTS
    w1 = w1
    r = r
    q = q
    Clients = {w1, r, q}
    Writers = {w1}
    Readers = {r, q}
    Leavers = {}
    NoClient = NoClient
    PipeCap = 2
    MaxCommands <- TwoByWriters
SPECIFICATION FairSpec
INVARIANTS IndInv CommandsInOrder ReadNeverBlocks
PROPERTIES UpdatesDelivered CommandsCommitted
CHECK_DEADLOCK FALSE
