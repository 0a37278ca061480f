\* Every pair of configurations of agent and server; the agent's report and what other
\* clients send.
SPECIFICATION Spec
CONSTANTS
    s1 = s1
    s2 = s2
    k1 = k1
    k2 = k2
    lo = lo
    a1 = a1
    a2 = a2
    None = None
    SignKeys = {s1, s2}
    CryptKeys = {k1, k2}
    Addresses = {lo, a1, a2}
    Loopback = lo
    NoAddress = NoAddress
    OtherRequests <- MCOtherRequests
INVARIANTS
    AgentUnderstood
    ReplyIsReadable
CHECK_DEADLOCK FALSE
