\* Releases of both pools around a change of oracle or controller; the only
\* payee is the custody account of the Founder pool.
SPECIFICATION VSpec
CONSTANTS
    DefaultKey = none
    Pda = {vkf, vks}
    Key = {f, s, g, h, n}
    Subject = {vkf}
    Instant = {0, 2, 4}
    I64_MAX = 7
    COUNTER_MAX = 1
    PERIOD = 2
    CLIFF = 2
    CHANGE_NOTICE = 2
    WITHDRAWAL_EXECUTION_WINDOW = 1
    MAX_SUBMISSION_WINDOW = 0
    t0 = 1
    max_report_age = 1
    creator = f
    founder = f
    treasury = s
    initial_oracle = g
    recovery_keys = {s, g, h}
    founder_recovery_keys = {s, g, h}
    treasury_recovery_keys = {f, g, h}
    ReportSequence = {1, 2}
    ChangeSuccessor = {h}
    amount <- MCAmount
    period_cap <- MCPeriodCap
    shared_hard_cap = 2
    annual_rules <- MCRules
    RATE_DIVISOR = 1
    MAX_RELEASE_BPS = 1
    BPS = 1
    ReportedCapacity = {2}
    ReleaseAmount = {1}
    TokenAccount = {vtf, vts, w, a}
    vault_token <- MCVaultToken
    vault_key <- MCVaultKey
    initial_token <- MCInitialToken
    PolicyPeriod = {0, 1}
    Need = {0, 1}
    DustAmount = {1}
    HandOver = {}
    vtf = vtf
    vts = vts
    vkf = vkf
    vks = vks
    w = w
    a = a
    f = f
    n = n
INVARIANTS
    Solvent
PROPERTIES
    ImplementsEscrow
    ReleaseBackedByOracle
CHECK_DEADLOCK FALSE
