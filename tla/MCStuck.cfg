\* A deliverer may go silent as well, with a claim enrolled or rejected, and the
\* other slot of the task stays free.
SPECIFICATION LiveSpec
CONSTANTS
    admin = admin
    poster = poster
    worker = worker
    t1 = t1
    t2 = t2
    c1 = c1
    c2 = c2
    m1 = m1
    pda = pda
    none = none
    Users = {poster, worker}
    TaskIds = {t1}
    ClaimIds = {c1}
    Mints = {m1}
    ConfigPda = pda
    NoAccount = none
    U64_MAX = 63
    AUTO_APPROVE_WINDOW_SECS = 1
    AUTO_DISPUTE_WINDOW_SECS = 1
    AdminInputs = {poster}
    FeeBpsInputs = {500}
    BountyInputs = {20}
    SlotInputs = {2}
    DeadlineInputs = {2}
    ClaimDeadlineInputs = {0}
    WithdrawInputs = {}
    DonationInputs = {}
    OutOfBandAtas = {}
    ClosableAtas = {}
    FundedAtas <- MCPosterFunded
    InitialFunds = 40
    MaxTime = 12
PROPERTIES
    EscrowReleased
