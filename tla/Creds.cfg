SPECIFICATION FairSpec
CONSTANTS
    Procs = {s1, s2}
    NoFile = NoFile
    Posix = TRUE
INVARIANTS
    CacheWhole
    OwnerOnly
    NoLitter
PROPERTIES
    CacheKept
    StartHelps
