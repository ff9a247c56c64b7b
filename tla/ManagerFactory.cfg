SPECIFICATION FairSpec
CONSTANTS
    Threads = {t1, t2, t3}
    Ids = {i1, i2}
    None = None
INVARIANTS
    NoMapRace
    ManagerIsForItsId
    NoDeadlock
PROPERTIES
    CacheSettles
    EveryCallReturns
