\* Two requests and two sessions over restarts, crashes, recreated containers,
\* edited environments and rotated keys.
SPECIFICATION Spec
CONSTANTS
    crm = crm
    ledger = ledger
    k1 = k1
    k2 = k2
    t1 = t1
    t2 = t2
    Requests = {r1, r2}
    Jtis = {j1, j2}
    Clients <- MCClients
    EntraTokens = {t1, t2}
    Claims <- MCClaims
    UserOf <- MCUserOf
    Broker = "broker"
    Keys = {k1, k2}
    Backends = {crm, ledger}
    Environments <- MCEnvironments
    None = None
SYMMETRY RequestSymmetry
INVARIANTS
    TypeOK
    IdentitiesStayApart
    RefusedForCause
    EveryBackendRoutable
    LeakNeedsFailure
PROPERTIES
    AdmittedOnLiveSession
