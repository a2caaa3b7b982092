CONSTANTS
    r1 = r1
    r2 = r2
    k1 = k1
    k2 = k2
    a = a
    le = le
    NoReq = NoReq
    NoCsr = NoCsr
    Req <- MCReq
    Csr <- MCCsr
    Name <- MCName
    CsrOf <- MCCsrOf
    NamesOf <- MCNamesOf
    InAutoMode <- MCAuto
    Host <- MCHost
    Contested = {}
    Issuer = le
    Lists <- MCLists
    MaxOrder = 2
    MaxGen = 2
    MaxPolls = 2
SPECIFICATION Spec
INVARIANTS
    TypeOK
    CertificateFitsCsr
    OrderIdsAreDistinct
    OneCertificatePerRequest
    FinalizeAfterValidation
PROPERTIES
    VerdictsAreFinal
    ImplementsCertificateService
\* Webhooks that have returned and orders that have settled leave nothing to do.
CHECK_DEADLOCK FALSE
