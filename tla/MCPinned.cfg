\* The admin re-pins the mint only while no task is open.
SPECIFICATION PinnedHistorySpec
CONSTANTS
    admin = admin
    poster = poster
    worker = worker
    helper = helper
    t1 = t1
    t2 = t2
    c1 = c1
    c2 = c2
    c3 = c3
    m1 = m1
    m2 = m2
    pda = pda
    none = none
    Users = {poster, worker}
    TaskIds = {t1, t2}
    ClaimIds = {c1, c2}
    Mints = {m1, m2}
    ConfigPda = pda
    NoAccount = none
    U64_MAX = 63
    AUTO_APPROVE_WINDOW_SECS = 1
    AUTO_DISPUTE_WINDOW_SECS = 1
    AdminInputs = {poster}
    FeeBpsInputs = {500}
    BountyInputs = {20}
    SlotInputs = {2}
    DeadlineInputs = {2}
    ClaimDeadlineInputs = {0}
    WithdrawInputs = {}
    DonationInputs = {5}
    OutOfBandAtas <- MCSecondFeeVault
    ClosableAtas = {}
    FundedAtas <- MCBothMintsFunded
    InitialFunds = 45
    MaxTime = 2
SYMMETRY IdSymmetry
INVARIANTS
    PinnedVaultCoversOpenSlots
    DoneTaskHoldsNothing
    PosterPaysApprovedSlots
PROPERTIES
    RefinesDeals
    VaultPaysSlotOrRefund
