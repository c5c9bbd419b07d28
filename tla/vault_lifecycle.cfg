\* Funding, commitment, cancellation, refunds and dust around a rotation.
SPECIFICATION VFairSpec
CONSTANTS
    DefaultKey = none
    Pda = {vkf, vks}
    Key = {f, s, g, h, n}
    Subject = {n}
    Instant = {0, 1, 2, 3}
    I64_MAX = 3
    COUNTER_MAX = 1
    PERIOD = 2
    CLIFF = 2
    CHANGE_NOTICE = 1
    WITHDRAWAL_EXECUTION_WINDOW = 1
    MAX_SUBMISSION_WINDOW = 0
    t0 = 2
    max_report_age = 1
    creator = f
    founder = f
    treasury = s
    initial_oracle = g
    recovery_keys = {s, g, h}
    founder_recovery_keys = {s, g, h}
    treasury_recovery_keys = {f, g, h}
    ReportSequence = {}
    ChangeSuccessor = {}
    amount <- MCAmount
    period_cap <- MCPeriodCap
    shared_hard_cap = 2
    annual_rules <- MCRules
    RATE_DIVISOR = 1
    MAX_RELEASE_BPS = 1
    BPS = 1
    ReportedCapacity = {}
    ReleaseAmount = {}
    TokenAccount = {vtf, vts, w, a}
    vault_token <- MCVaultToken
    vault_key <- MCVaultKey
    initial_token <- MCInitialToken
    PolicyPeriod = {}
    Need = {}
    DustAmount = {1}
    HandOver = {}
    vtf = vtf
    vts = vts
    vkf = vkf
    vks = vks
    w = w
    a = a
    f = f
    n = n
PROPERTIES
    LaunchSettles
    RefundsComplete
CHECK_DEADLOCK FALSE
