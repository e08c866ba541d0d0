\* OBO: two users and one that brought no token, one per-tool scope and the default,
\* room for two of the four entries that may be, tokens that live as short as the skew
\* (never usable, but not expired) and longer.
SPECIFICATION Spec
CONSTANTS
    Callers = {p, q}
    Profile = "obo"
    Users = {alice, bob, carol}
    Tokenless = {carol}
    Backends = {ledger}
    Scopes = {write}
    Lifetimes = {1, 3}
    Skew = 1
    MaxTime = 1
    MaxSize = 2
    NoEntry = NoEntry
    Nobody = Nobody
    NoDemand = NoDemand
SYMMETRY Symmetry
INVARIANTS
    TypeOK
    NoForeignToken
    BoundedCache
PROPERTIES
    EvictsLeastRecent
