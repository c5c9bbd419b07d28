\* Releases of both pools against changing reports over two annual rules.
SPECIFICATION CSpec
CONSTANTS
    DefaultKey = none
    Pda = {}
    Key = {f, s, g1, g2, g3}
    Subject = {}
    Instant = {0, 2, 3, 4, 5, 7, 9, 11}
    I64_MAX = 11
    COUNTER_MAX = 1
    PERIOD = 2
    CLIFF = 2
    CHANGE_NOTICE = 6
    WITHDRAWAL_EXECUTION_WINDOW = 2
    MAX_SUBMISSION_WINDOW = 0
    t0 = 1
    max_report_age = 1
    creator = f
    founder = f
    treasury = s
    initial_oracle = g1
    recovery_keys = {g1, g2, g3}
    founder_recovery_keys = {g1, g2, g3}
    treasury_recovery_keys = {g1, g2, g3}
    amount <- MCAmount
    period_cap <- MCPeriodCap
    shared_hard_cap = 6
    annual_rules <- MCRules
    RATE_DIVISOR = 2
    MAX_RELEASE_BPS = 100
    BPS = 100
    ReportedCapacity = {2, 5}
    ReleaseAmount = {0, 1, 3}
INVARIANTS
    WithinSchedule
    LedgerConsistent
    NoAccountingFault
    ReservationUsable
PROPERTIES
    ReservationProtected
    PauseNeedsCorrection
CHECK_DEADLOCK FALSE
