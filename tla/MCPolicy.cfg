\* Every request against every configuration: the consistency of the three
\* policy layers, their explanations and the projected arguments.
SPECIFICATION Spec
CONSTANTS
    crm = crm
    ledger = ledger
    NoTool = NoTool
    Configurations <- MCConfigurations
    CallRequests <- MCCallRequests
    ListRequests <- MCListRequests
    ServerOf <- MCServerOf
    PolicyArgs <- MCPolicyArgs
    RoleOf <- MCRoleOf
    Arguments <- MCArguments
INVARIANTS
    NoConflict
    EveryDenialExplained
    MoreRolesNeverDeny
    CallableIsListed
    ShownIsCallable
    UnapprovedAgentGetsNothing
    ArgumentsFailClosed
    ProjectionSuffices
