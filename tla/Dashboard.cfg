SPECIFICATION FairSpec
CONSTANTS
    d1 = d1
    d2 = d2
    NotJson = NotJson
    None = None
    Texts = {"a", "b", "c", "x", "y"}
    Docs = {d1, d2}
    Warned = {d2}
    Bodies <- MCBodies
    MaxEdits = 3
    MaxOutside = 1
    MaxFailures = 2
    MaxCrashes = 1
INVARIANTS
    SuccessMeansApplied
    MessagesAreOfTheBody
PROPERTIES
    ImplementsManagedResource
    EventuallyConverges
    EventuallyQuiet
    DeletionCompletes
CHECK_DEADLOCK FALSE
