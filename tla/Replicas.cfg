SPECIFICATION Spec
CONSTANTS
    d1 = d1
    d2 = d2
    NotJson = NotJson
    None = None
    Texts = {"a", "b", "c", "x"}
    Docs = {d1, d2}
    Warned = {}
    Bodies <- MCBodies
    MaxEdits = 2
    MaxOutside = 0
    MaxFailures = 0
    MaxCrashes = 1
INVARIANTS
    SuccessMeansApplied
PROPERTIES
    ElectedIsAlone
    EventuallyConverges
    EventuallyQuiet
CHECK_DEADLOCK FALSE
