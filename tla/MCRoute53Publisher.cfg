CONSTANTS
    e1 = e1
    e2 = e2
    d1 = d1
    other = other
    mine = mine
    yours = yours
    Job <- MCJob
    Ensures <- MCEnsures
    Value <- MCValue
    ValueOf <- MCValueOf
    Initial <- MCInitial
    MaxTries <- MCMaxTries
    MaxPolls = 2
SPECIFICATION Spec
INVARIANTS
    TypeOK
    UntouchedValuesKept
    SuccessAfterSync
PROPERTIES
    ImplementsTxtRecordSet
    LossOnlyByStaleListing
    CallsReturn
\* Nothing is left to do when every call has returned.
CHECK_DEADLOCK FALSE
