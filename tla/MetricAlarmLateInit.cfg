SPECIFICATION Spec
CONSTANTS
    awsKey = awsKey
    ackKey = ackKey
    userKey = userKey
    v1 = v1
    v2 = v2
    Absent = Absent
    Nil = Nil
    None = None
    Keys <- MCKeys
    AwsKeys <- MCAwsKeys
    Values <- MCValues
    DefaultTags <- MCDefaultTags
    Rests <- MCRests
    MinInt32 <- MCMinInt32
    MaxInt32 = 3
    Specs <- MCSpecs
    OutsideAlarms <- MCOutsideAlarms
    MaxEdits = 1
    MaxOutside = 0
    MaxFailures = 2
    MaxCrashes = 1
INVARIANT
    DefaultsLateInitialized
CHECK_DEADLOCK FALSE
