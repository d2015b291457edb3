\* Every crank is called; posters, deliverers and the admin may go silent, but
\* for DiligentRelease, which supposes deliverers who keep going.  The poster
\* may close his token account and open it again.
SPECIFICATION LiveSpec
CONSTANTS
    admin = admin
    poster = poster
    worker = worker
    t1 = t1
    t2 = t2
    c1 = c1
    c2 = c2
    m1 = m1
    pda = pda
    none = none
    Users = {poster, worker}
    TaskIds = {t1}
    ClaimIds = {c1, c2}
    Mints = {m1}
    ConfigPda = pda
    NoAccount = none
    U64_MAX = 63
    AUTO_APPROVE_WINDOW_SECS = 1
    AUTO_DISPUTE_WINDOW_SECS = 1
    AdminInputs = {poster}
    FeeBpsInputs = {500}
    BountyInputs = {20}
    SlotInputs = {2}
    DeadlineInputs = {2}
    ClaimDeadlineInputs = {0}
    WithdrawInputs = {}
    DonationInputs = {}
    OutOfBandAtas <- MCPosterAta
    ClosableAtas <- MCPosterAta
    FundedAtas <- MCPosterFunded
    InitialFunds = 40
    MaxTime = 12
PROPERTIES
    ReviewEnds
    DisputeEnds
    DiligentRelease
