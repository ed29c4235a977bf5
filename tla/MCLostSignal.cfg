\* One client, whose signal arrives before the main thread is in pause.
CONSTANTS
    a = a
    Clients = {a}
    Leavers = {}
    Nobody = Nobody
    RunsOut = FALSE
SPECIFICATION FairSpec
PROPERTY AskingClientsConnect
CHECK_DEADLOCK FALSE
