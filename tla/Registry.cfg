SPECIFICATION FairSpec
CONSTANTS
    p1 = p1
    p2 = p2
    p3 = p3
    Procs = {p1, p2, p3}
    Pids = {1, 2}
    NoPid = 0
    Commands <- AllCommands
    Unreadable = {p1}
    GapReuse = FALSE
INVARIANTS
    OneEntryPerPid
PROPERTIES
    SignalsScoped
    EntryLoss
    StartupEnds
CHECK_DEADLOCK FALSE
