SPECIFICATION FairSpec
CONSTANTS
    Execs = {e1}
    Pollers = {p1, p2}
    NextCursorClients = {}
    NoExec = NoExec
    MaxEntries = 1
    MaxRetained = 1
    Ttl = 1
    MaxOutputs = 1
    MaxTime = 0
PROPERTIES
    WaiterServed
    ShutdownReleases
CHECK_DEADLOCK FALSE
