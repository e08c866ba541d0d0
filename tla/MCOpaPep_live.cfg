\* Two interleaved requests under the fairness of the HTTP timeouts: only what
\* has a timeout is sure to answer.
SPECIFICATION BoundedSpec
CONSTANTS
    crm = crm
    ledger = ledger
    alice = alice
    bob = bob
    listCustomers = listCustomers
    postEntry = postEntry
    ghost = ghost
    Requests = {r1, r2}
    Users = {alice}
    Backends = {crm, ledger}
    Tools = {listCustomers, postEntry}
    Ungoverned = {ghost}
    Profile <- MCProfile
    ServerOf <- MCServerOf
    Served <- MCServed
    Entitled <- MCEntitled
    Opaque <- MCOpaque
    Asked = {"tools/call", "tools/list"}
    Faults = {"malformed", "escape"}
    NoToken = NoToken
    NoOperation = NoOperation
    NoWrite = NoWrite
PROPERTIES
    OnlyOutsidersStall
    EveryRequestEnds
