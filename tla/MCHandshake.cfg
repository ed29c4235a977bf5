\* Two clients that stay and one that may be killed; signals may hit any thread.
CONSTANTS
    a = a
    b = b
    x = x
    Clients = {a, b, x}
    Leavers = {x}
    Nobody = Nobody
    RunsOut = TRUE
SPECIFICATION FairSpec
INVARIANTS IndInv OneThreadPerSignal FifosBeforeReady NoFifosLeft
PROPERTY ReadyClientsConnect
CHECK_DEADLOCK FALSE
