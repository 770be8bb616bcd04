SPECIFICATION FairSpec
CONSTANTS
    Tabs = {t1, t2}
    Callers = {c1, c2}
    NoTab = NoTab
    Direct = TRUE
INVARIANTS
    SoleFrontend
    OneBrowserTab
PROPERTIES
    HandoffKept
    PasteRaceSpared
    ExchangeRefined
    HandoffConnects
