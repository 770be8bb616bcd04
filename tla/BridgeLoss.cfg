SPECIFICATION FairSpec
CONSTANTS
    Tabs = {t1}
    Callers = {c1}
    NoTab = NoTab
    Direct = FALSE
PROPERTIES
    LossEndsCall
