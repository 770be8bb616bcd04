SPECIFICATION FairSpec
CONSTANTS
    Callers = {c1, c2, c3}
    Runtimes = {r1, r2}
    Targets = {t1}
    NoRuntime = NoRuntime
    NoTarget = NoTarget
INVARIANTS
    EndpointOfRuntime
    ClientExclusive
    NoOrphan
PROPERTIES
    CallsReturn
