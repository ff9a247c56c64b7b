SPECIFICATION TagSpec
CONSTANTS
    aws1 = aws1
    aws2 = aws2
    ackKey = ackKey
    userKey = userKey
    v1 = v1
    v2 = v2
    Absent = Absent
    Keys <- MCKeys
    AwsKeys <- MCAwsKeys
    Values <- MCValues
    DefaultTags <- MCDefaultTags
    CRTags <- TagMap
    AlarmTags <- MCAlarmTags
INVARIANTS
    SyncedTagsAreWanted
PROPERTIES
    AwsTagsUntouched
    WriteBackIsStable
