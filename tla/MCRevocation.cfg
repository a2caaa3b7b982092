CONSTANTS
    first = first
    again = again
    k1 = k1
    NoCall = NoCall
    Call <- MCCall
    Cert = {k1}
    CertOf <- MCCertOf
    Stage <- Stages
    Verdict <- Verdicts
    MaxStarts = 2
SPECIFICATION Spec
INVARIANTS
    TypeOK
    RevocationIsReported
    ErrorsTouchNothing
    OnlySealedRevokes
PROPERTIES
    ImplementsOnceRequest
    CallsEnd
    UnservedExits
\* The connector may stay down.
CHECK_DEADLOCK FALSE
