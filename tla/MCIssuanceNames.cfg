CONSTANTS
    r1 = r1
    r2 = r2
    k1 = k1
    k2 = k2
    x = x
    wild = wild
    other = other
    le = le
    NoReq = NoReq
    NoCsr = NoCsr
    Req <- MCReq
    Csr <- MCCsr
    Name <- MCName
    CsrOf <- MCCsrOf
    NamesOf <- MCNamesOf
    InAutoMode <- MCAuto
    Host <- MCHost
    Contested <- MCName
    Issuer = le
    Lists <- MCLists
    MaxOrder = 1
    MaxGen = 1
    MaxPolls = 1
SPECIFICATION Spec
INVARIANTS
    FinalizeAfterValidation
    AutoPublishesBeforeOrdering
\* Webhooks that have returned and orders that have settled leave nothing to do.
CHECK_DEADLOCK FALSE
