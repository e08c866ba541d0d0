\* Two interleaved requests, any of which may be cancelled at any await or die of
\* an exception nobody catches, be it the PDP's or the token service's answer that
\* raises it: what holds all the same.
SPECIFICATION Spec
CONSTANTS
    crm = crm
    ledger = ledger
    alice = alice
    bob = bob
    listCustomers = listCustomers
    postEntry = postEntry
    ghost = ghost
    Requests = {r1, r2}
    Users = {alice}
    Backends = {crm, ledger}
    Tools = {listCustomers, postEntry}
    Ungoverned = {ghost}
    Profile <- MCProfile
    ServerOf <- MCServerOf
    Served <- MCServed
    Entitled <- MCEntitled
    Opaque <- MCOpaque
    Asked = {"tools/call", "tools/list"}
    Faults = {"malformed", "escape", "cancel"}
    NoToken = NoToken
    NoOperation = NoOperation
    NoWrite = NoWrite
SYMMETRY RequestSymmetry
INVARIANTS
    CredentialOnlyIfCleared
    ListRowPrecedesUse
    RowNamesItsToken
    NeverRecordedTwice
PROPERTIES
    KeepsPromise
