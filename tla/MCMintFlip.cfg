\* The admin re-pins the mint at any moment; stray accounts of the second
\* mint appear and are funded.
SPECIFICATION Spec
CONSTANTS
    admin = admin
    poster = poster
    worker = worker
    helper = helper
    t1 = t1
    t2 = t2
    c1 = c1
    c2 = c2
    c3 = c3
    m1 = m1
    m2 = m2
    pda = pda
    none = none
    Users = {admin, poster, worker}
    TaskIds = {t1}
    ClaimIds = {c1, c2}
    Mints = {m1, m2}
    ConfigPda = pda
    NoAccount = none
    U64_MAX = 63
    AUTO_APPROVE_WINDOW_SECS = 1
    AUTO_DISPUTE_WINDOW_SECS = 1
    AdminInputs = {admin}
    FeeBpsInputs = {500}
    BountyInputs = {20}
    SlotInputs = {2, 4}
    DeadlineInputs = {2}
    ClaimDeadlineInputs = {0}
    WithdrawInputs = {}
    DonationInputs = {20}
    OutOfBandAtas <- MCStrayAtas
    ClosableAtas = {}
    FundedAtas <- MCBothMintsFunded
    InitialFunds = 40
    MaxTime = 2
SYMMETRY ClaimSymmetry
INVARIANTS
    VaultCoversOpenSlots
