\* One task, two claims that race through review, rejection and dispute
\* under a clock that passes both windows and the task's deadline, while the
\* worker and the poster close and reopen their token accounts.
SPECIFICATION HistorySpec
CONSTANTS
    admin = admin
    poster = poster
    worker = worker
    helper = helper
    t1 = t1
    t2 = t2
    c1 = c1
    c2 = c2
    c3 = c3
    m1 = m1
    m2 = m2
    pda = pda
    none = none
    Users = {admin, poster, worker}
    TaskIds = {t1}
    ClaimIds = {c1, c2}
    Mints = {m1}
    ConfigPda = pda
    NoAccount = none
    U64_MAX = 63
    AUTO_APPROVE_WINDOW_SECS = 1
    AUTO_DISPUTE_WINDOW_SECS = 2
    AdminInputs = {admin}
    FeeBpsInputs = {500}
    BountyInputs = {20}
    SlotInputs = {2}
    DeadlineInputs = {2}
    ClaimDeadlineInputs = {0}
    WithdrawInputs = {}
    DonationInputs = {}
    OutOfBandAtas <- MCUserAtas
    ClosableAtas <- MCUserAtas
    FundedAtas <- MCPosterFunded
    InitialFunds = 40
    MaxTime = 4
INVARIANTS
    TypeOK
    SlotAccounting
    LiveClaimHasOpenTask
    ClaimHistory
    OnlyAccountsBlock
PROPERTIES
    FullWindow
    ClaimsMoveOn
