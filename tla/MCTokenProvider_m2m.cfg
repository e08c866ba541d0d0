\* M2M: three callers of one backend, so that its lock has a queue; the clock runs
\* past expiry and refetch, an exchange may take longer than the skew, and one lifetime
\* is the 0 of a missing expires_in.  The event loop and the HTTP requests are fair.
SPECIFICATION FairSpec
CONSTANTS
    Callers = {p, q, s}
    Profile = "m2m"
    Users = {alice}
    Tokenless = {}
    Backends = {ledger}
    Scopes = {}
    Lifetimes = {0, 3}
    Skew = 1
    MaxTime = 4
    MaxSize = 1
    NoEntry = NoEntry
    Nobody = Nobody
    NoDemand = NoDemand
INVARIANTS
    HitStaysValid
    OneFetchPerKey
    OnlyFirstReachesEntra
PROPERTIES
    EveryCallEnds
