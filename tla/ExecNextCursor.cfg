SPECIFICATION Spec
CONSTANTS
    Execs = {e1}
    Pollers = {p1}
    NextCursorClients = {p1}
    NoExec = NoExec
    MaxEntries = 1
    MaxRetained = 2
    Ttl = 1
    MaxOutputs = 2
    MaxTime = 0
INVARIANTS
    NextCursorAccounted
CHECK_DEADLOCK FALSE
