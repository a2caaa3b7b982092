CONSTANTS
    acct = acct
    cli = cli
    web = web
    k0 = k0
    Given = k0
    NoKey = NoKey
    Spoilt = Spoilt
    MaxUnderWay = 2
    Run <- MCRun
    Commands <- MCCommands
    Web <- MCWeb
    App <- MCApp
    Unread <- MCApp
SPECIFICATION Spec
INVARIANTS
    TypeOK
    DuplicatesOnlyWhenDisturbed
    
    KeysInUseAreKept
PROPERTIES
    RunsReturn
\* Once every run has returned, nothing is left to do.
CHECK_DEADLOCK FALSE
