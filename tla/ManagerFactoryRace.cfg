SPECIFICATION Spec
CONSTANTS
    Threads = {t1, t2}
    Ids = {i1}
    None = None
INVARIANT
    OneManagerPerId
