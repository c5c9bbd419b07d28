\* The fourth launch program against the first one and the escrow.
SPECIFICATION Spec4
CONSTANTS
    Instant = {0, 3, 4, 5}
    PERIOD = 2
    CLIFF = 2
    t0 = 1
    max_report_age = 1
    amount <- MCAmount
    period_cap <- MCPeriodCap
    shared_hard_cap = 3
    founder = f
    treasury = s
    Owner = {f, s, x}
    Account = {a}
    ReportedCapacity = {1, 2}
    ReportSequence = {1, 2}
    PolicyPeriod = {1}
    Need = {2}
    ReleaseAmount = {1, 2}
    DUST = 1
    annual_rules <- MCRules
    RATE_DIVISOR = 1
    MAX_RELEASE_BPS = 1
    BPS = 1
    Key = {c, o, p, r}
    DefaultKey = none
    creator = c
    initial_oracle = o
    recovery_keys = {c, o, r}
    CHANGE_NOTICE = 2
    I64_MAX = 5
    COUNTER_MAX = 1
    ChangeSuccessor = {p}
PROPERTIES
    NarrowsPredecessors
    KeepsEscrow
    NoStarvation
    ReleasedOnIncumbentReport
CHECK_DEADLOCK FALSE
