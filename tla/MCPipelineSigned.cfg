\* The replies of a server with a key carry no signature.
SPECIFICATION Spec
CONSTANTS
    s1 = s1
    s2 = s2
    k1 = k1
    k2 = k2
    lo = lo
    a1 = a1
    a2 = a2
    None = None
    SignKeys = {s1, s2}
    CryptKeys = {k1, k2}
    Addresses = {lo, a1, a2}
    Loopback = lo
    NoAddress = NoAddress
    OtherRequests <- MCOtherRequests
INVARIANTS
    RepliesSigned
CHECK_DEADLOCK FALSE
