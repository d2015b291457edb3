\* The fee and the admin change while claims are under review, fees are
\* withdrawn and vaults receive donations.
SPECIFICATION Spec
CONSTANTS
    admin = admin
    poster = poster
    worker = worker
    helper = helper
    t1 = t1
    t2 = t2
    c1 = c1
    c2 = c2
    c3 = c3
    m1 = m1
    m2 = m2
    pda = pda
    none = none
    Users = {admin, poster, worker}
    TaskIds = {t1}
    ClaimIds = {c1, c2}
    Mints = {m1}
    ConfigPda = pda
    NoAccount = none
    U64_MAX = 63
    AUTO_APPROVE_WINDOW_SECS = 1
    AUTO_DISPUTE_WINDOW_SECS = 1
    AdminInputs = {admin, worker}
    FeeBpsInputs = {300, 500, 501}
    BountyInputs = {30}
    SlotInputs = {2}
    DeadlineInputs = {2}
    ClaimDeadlineInputs = {0}
    WithdrawInputs = {1}
    DonationInputs = {5}
    OutOfBandAtas = {}
    ClosableAtas = {}
    FundedAtas <- MCPosterFunded
    InitialFunds = 63
    MaxTime = 2
SYMMETRY ClaimSymmetry
PROPERTIES
    SettlementSplitsBounty
    DueStaysDue
