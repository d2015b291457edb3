\* Two task ids, two posters, task ids cancelled and used again, claims on
\* either task; the clock reaches the deadline and the windows at once.
SPECIFICATION Spec
CONSTANTS
    admin = admin
    poster = poster
    worker = worker
    helper = helper
    t1 = t1
    t2 = t2
    c1 = c1
    c2 = c2
    c3 = c3
    m1 = m1
    m2 = m2
    pda = pda
    none = none
    Users = {admin, poster, worker}
    TaskIds = {t1, t2}
    ClaimIds = {c1, c2}
    Mints = {m1}
    ConfigPda = pda
    NoAccount = none
    U64_MAX = 63
    AUTO_APPROVE_WINDOW_SECS = 1
    AUTO_DISPUTE_WINDOW_SECS = 1
    AdminInputs = {admin}
    FeeBpsInputs = {500}
    BountyInputs = {0, 20, 40}
    SlotInputs = {0, 1, 2, 101}
    DeadlineInputs = {2}
    ClaimDeadlineInputs = {0}
    WithdrawInputs = {}
    DonationInputs = {}
    OutOfBandAtas = {}
    ClosableAtas = {}
    FundedAtas <- MCTwoPostersFunded
    InitialFunds = 40
    MaxTime = 2
SYMMETRY IdSymmetry
INVARIANTS
    ClaimerIsNotPoster
PROPERTIES
    TermsFrozenOnceEnrolled
    SettledClaimsFrozen
    RefinesDeals
