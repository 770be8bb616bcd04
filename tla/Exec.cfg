SPECIFICATION Spec
CONSTANTS
    Execs = {e1, e2, e3}
    Pollers = {p1, p2}
    NextCursorClients = {}
    NoExec = NoExec
    MaxEntries = 2
    MaxRetained = 1
    Ttl = 1
    MaxOutputs = 3
    MaxTime = 2
SYMMETRY Symmetry
CONSTRAINT Focus
INVARIANTS
    CapacityBound
    LiveRetained
    RetainedWindow
    NoLostWakeup
    DeliveryAccounted
PROPERTIES
    EvictionJustified
    CompletedMeansAll
    DeliveryRefined
CHECK_DEADLOCK FALSE
