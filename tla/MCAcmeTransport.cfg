CONSTANTS
    c1 = c1
    c2 = c2
    p1 = p1
    p2 = p2
    p3 = p3
    Client <- MCClient
    Call <- MCCall
    ClientOf <- MCClientOf
    MaxNonce = 3
SPECIFICATION Spec
INVARIANTS
    TypeOK
    NonceUsedOnce
    BadNonceAfterTwoTries
PROPERTIES
    ImplementsOnceRequest
    EveryCallReturns
\* Once every call has returned and every nonce is gone, nothing is left to do.
CHECK_DEADLOCK FALSE
