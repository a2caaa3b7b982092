CONSTANTS
    a = a
    x = x
    com = com
    acct1 = acct1
    acct12 = acct12
    acct3 = acct3
    Label <- MCLabel
    San <- MCSan
    Ours = acct1
    Uri <- MCUri
    Begins <- MCBegins
    MaxChanges = 3
SPECIFICATION VSpec
INVARIANTS
    VTypeOK
    NoFalseAlarm
    LiveMeansSeen
    PublishedPlanVerifies
PROPERTIES
    TestsEnd
CHECK_DEADLOCK FALSE
