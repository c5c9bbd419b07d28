\* Every pause ends although only expiry is fair: one proposal per role.
SPECIFICATION WFairSpec
CONSTANTS
    DefaultKey = none
    Pda = {}
    Key = {f, s, g1, g2, g3, n}
    Instant = {0, 2, 3, 5}
    Subject = {g3, n}
    I64_MAX = 5
    COUNTER_MAX = 1
    PERIOD = 1
    CLIFF = 6
    CHANGE_NOTICE = 2
    WITHDRAWAL_EXECUTION_WINDOW = 1
    MAX_SUBMISSION_WINDOW = 0
    t0 = 1
    max_report_age = 1
    creator = f
    founder = f
    treasury = s
    initial_oracle = g1
    recovery_keys = {g1, g2, g3}
    founder_recovery_keys = {g1, g2, g3}
    treasury_recovery_keys = {g1, g2, f}
PROPERTIES
    PauseEnds
CHECK_DEADLOCK FALSE
