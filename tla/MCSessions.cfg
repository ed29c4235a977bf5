\* A writer and a reader that may leave at any moment, and a user roles.txt does not
\* know: joins, commits, broadcasts and departures interleave.
CONSTANTS
    w1 = w1
    r = r
    x = x
    Clients = {w1, r, x}
    Writers = {w1}
    Readers = {r}
    Leavers = {w1, r}
    NoClient = NoClient
    PipeCap = 3
    MaxCommands <- TwoPerWriter
SPECIFICATION Spec
INVARIANTS MutexHeld NoUpdateMissed StreamSound
PROPERTY ImplementsDocument
CHECK_DEADLOCK FALSE
