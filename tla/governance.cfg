\* Two changes of oracle or controller around reports in two periods.
SPECIFICATION GFairSpec
CONSTANTS
    DefaultKey = none
    Pda = {}
    Key = {c, o, g, n}
    Subject = {}
    Instant = {0, 1, 2, 3, 4, 5}
    I64_MAX = 5
    COUNTER_MAX = 2
    PERIOD = 2
    CLIFF = 12
    CHANGE_NOTICE = 2
    WITHDRAWAL_EXECUTION_WINDOW = 1
    MAX_SUBMISSION_WINDOW = 0
    t0 = 1
    max_report_age = 1
    creator = c
    founder = c
    treasury = c
    initial_oracle = o
    recovery_keys = {o, g, n}
    founder_recovery_keys = {o, g, n}
    treasury_recovery_keys = {o, g, n}
    ReportSequence = {0, 1, 2}
    ChangeSuccessor = {c, o, g, n}
INVARIANTS
    PendingChangeIsLive
    ReportFromCurrentOracle
PROPERTIES
    ReportsNeverRewind
    ChangeNoticeHonoured
    ChangeResolves
CHECK_DEADLOCK FALSE
