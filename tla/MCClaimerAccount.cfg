\* claim.rs:183-186, overview.md:16: an approval finds the claimer's account, or
\* creates it.
SPECIFICATION PinnedSpec
CONSTANTS
    admin = admin
    poster = poster
    worker = worker
    helper = helper
    t1 = t1
    t2 = t2
    c1 = c1
    c2 = c2
    c3 = c3
    m1 = m1
    m2 = m2
    pda = pda
    none = none
    Users = {admin, poster, worker}
    TaskIds = {t1}
    ClaimIds = {c1}
    Mints = {m1, m2}
    ConfigPda = pda
    NoAccount = none
    U64_MAX = 63
    AUTO_APPROVE_WINDOW_SECS = 1
    AUTO_DISPUTE_WINDOW_SECS = 2
    AdminInputs = {admin}
    FeeBpsInputs = {500}
    BountyInputs = {20}
    SlotInputs = {1}
    DeadlineInputs = {2}
    ClaimDeadlineInputs = {0}
    WithdrawInputs = {}
    DonationInputs = {}
    OutOfBandAtas = {}
    ClosableAtas = {}
    FundedAtas <- MCPosterFunded
    InitialFunds = 40
    MaxTime = 2
INVARIANTS
    ApprovalFindsAccount
