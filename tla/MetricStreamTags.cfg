SPECIFICATION Spec
CONSTANTS
    ackKey = ackKey
    userKey = userKey
    v1 = v1
    v2 = v2
    a1 = a1
    a2 = a2
    a3 = a3
    Absent = Absent
    Nil = Nil
    None = None
    Keys <- MCKeys
    AwsKeys = {}
    Values = {v1, v2}
    Arns = {a1, a2, a3}
    Rests = {"r1", "r2"}
    DefaultTags <- MCDefaultTags
    Specs <- MCSpecs
    OutsideStreams <- MCOutsideStreams
    RefWorlds <- MCRefWorlds
    MaxEdits = 2
    MaxOutside = 0
    MaxRefChanges = 1
    MaxFailures = 0
    MaxCrashes = 0
INVARIANTS
    ReadOneObserves
CHECK_DEADLOCK FALSE
