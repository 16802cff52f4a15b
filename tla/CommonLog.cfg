SPECIFICATION FairSpec
CONSTANTS
    Thread = {t1, t2}
    Size = 3
    MaxAdd = 3
    MaxPause = 2
INVARIANTS
    NoDataRace
    InOrder
    Flushed
PROPERTIES
    PauseReturns
    AddWoken
    AllPrinted
CHECK_DEADLOCK FALSE
