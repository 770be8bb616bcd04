SPECIFICATION ToolSpec
CONSTANTS
    c1 = c1
    c2 = c2
    Callers = {c1, c2}
    Runtimes = {r1, r2}
    Targets = {v1, v2}
    NoRuntime = NoRuntime
    NoTarget = NoTarget
    NoList = NoList
    Nobody = Nobody
    Calls <- MixedCalls
    OAuth = TRUE
    Bridge = TRUE
    Others = TRUE
INVARIANTS
    RunsWhereAccepted
    CodeMeant
PROPERTIES
    EndpointMeant
