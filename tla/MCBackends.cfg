\* Three calls of any tools, with tokens of any audience, on threads that
\* interleave: the journal, the balances and what the clients are told.
SPECIFICATION Spec
CONSTANTS
    acc = acc
    cust = cust
    smb = smb
    vip = vip
    Calls = {c1, c2, c3}
    Accounts = {acc}
    Opening <- MCOpening
    Amounts <- MCAmounts
    Customers = {cust}
    Tiers = {smb, vip}
    FirstTier <- MCFirstTier
    Unknown = Unknown
    None = None
SYMMETRY CallSymmetry
INVARIANTS
    TypeOK
    OnlyOverlapLoses
    BalanceIsSomeHistory
    JournalMatchesAnswers
    UpdateAnswersOwn
