SPECIFICATION ListSpec
CONSTANTS
    awsKey = awsKey
    ackKey = ackKey
    userKey = userKey
    userKey2 = userKey2
    v1 = v1
    Empty = Empty
    Absent = Absent
    NilPtr = NilPtr
    Keys <- MCKeys
    AwsKeys <- MCAwsKeys
    Values <- MCValues
    DefaultTags <- MCDefaultTags
    AlarmTags <- MCAlarmTags
    TagListsOfUsers <- MCTagListsOfUsers
INVARIANTS
    PayloadTagsWellFormed
PROPERTIES
    ImplementsTagFlow
    UserOrderKept
