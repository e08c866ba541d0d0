\* Two interleaved requests of every kind, none cancelled and no exception that
\* escapes the PEP: what the audit trail says of every finished request.
SPECIFICATION Spec
CONSTANTS
    crm = crm
    ledger = ledger
    alice = alice
    bob = bob
    listCustomers = listCustomers
    postEntry = postEntry
    ghost = ghost
    Requests = {r1, r2}
    Users = {alice, bob}
    Backends = {crm, ledger}
    Tools = {listCustomers, postEntry}
    Ungoverned = {ghost}
    Profile <- MCProfile
    ServerOf <- MCServerOf
    Served <- MCServed
    Entitled <- MCEntitled
    Opaque <- MCOpaque
    Asked = {"tools/call", "unmodeled", "tools/list", "resources/list"}
    Faults = {}
    NoToken = NoToken
    NoOperation = NoOperation
    NoWrite = NoWrite
SYMMETRY RequestSymmetry
INVARIANTS
    TypeOK
    RecordedOnce
    RowTellsOutcome
    ListShowsOnlyCleared
    CredentialIsOwn
    CallReachesItsServer
