CONSTANTS
    acct = acct
    cli = cli
    web = web
    k0 = k0
    Given = k0
    NoKey = NoKey
    Spoilt = Spoilt
    MaxUnderWay = 2
    Run <- MCCli
    Commands <- MCCliCommands
    Web = {}
    App = {}
    Unread = {}
SPECIFICATION Spec
INVARIANTS
    UsedKeysAreHeld
CHECK_DEADLOCK FALSE
