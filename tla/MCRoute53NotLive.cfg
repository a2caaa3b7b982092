CONSTANTS
    e1 = e1
    e2 = e2
    d1 = d1
    other = other
    mine = mine
    yours = yours
    Job <- MCTwice
    Ensures <- MCEnsures
    Value <- MCValue
    ValueOf <- MCTwiceValueOf
    Initial <- MCInitial
    MaxTries <- MCTwiceTries
    MaxPolls = 2
SPECIFICATION Spec
PROPERTY LiveOnReturn
\* Nothing is left to do when every call has returned.
CHECK_DEADLOCK FALSE
