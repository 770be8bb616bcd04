SPECIFICATION FairSpec
CONSTANTS
    p1 = p1
    p2 = p2
    hl = hl
    Procs = {p1, p2}
    Ports = {o1, o2}
    Tabs = {t1}
    Nonces = {n1, n2}
    None = None
    Colab = {"colab"}
    Default <- Plain
    Asked <- Pasted
    Keys <- KeySet
    Lower <- LowerCase
    Reserved <- ReservedKeys
INVARIANTS
    CurrentCoordinates
    NotebookKept
    TokenUnsent
    NeverDeduped
    TokenHolders
PROPERTIES
    OpenedConnects
CHECK_DEADLOCK FALSE
