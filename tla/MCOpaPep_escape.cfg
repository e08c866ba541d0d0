\* A transport error of the token POST.
SPECIFICATION Spec
CONSTANTS
    crm = crm
    ledger = ledger
    alice = alice
    bob = bob
    listCustomers = listCustomers
    postEntry = postEntry
    ghost = ghost
    Requests = {r1}
    Users = {alice, bob}
    Backends = {crm, ledger}
    Tools = {listCustomers, postEntry}
    Ungoverned = {ghost}
    Profile <- MCProfile
    ServerOf <- MCServerOf
    Served <- MCServed
    Entitled <- MCEntitled
    Opaque <- MCOpaque
    Asked = {"tools/call"}
    Faults = {"escape"}
    NoToken = NoToken
    NoOperation = NoOperation
    NoWrite = NoWrite
INVARIANTS
    EveryPathWritesOneRow
