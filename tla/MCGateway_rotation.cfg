\* One session, one request: the signing key is rotated in the environment
\* while the gateway runs on.
SPECIFICATION FairSpec
CONSTANTS
    crm = crm
    ledger = ledger
    k1 = k1
    k2 = k2
    t1 = t1
    t2 = t2
    Requests = {r1}
    Jtis = {j1}
    Clients <- MCClients
    EntraTokens = {t1, t2}
    Claims <- MCClaims
    UserOf <- MCUserOf
    Broker = "broker"
    Keys = {k1, k2}
    Backends = {crm, ledger}
    Environments <- MCEnvironments
    None = None
PROPERTIES
    RotationNeedsNoRestart
