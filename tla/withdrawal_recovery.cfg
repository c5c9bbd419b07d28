\* Rotation and recovery of both roles: Founder guardian g3 may become a
\* Treasury key, n is a fresh key, and the Founder key f guards the Treasury.
SPECIFICATION WSpec
CONSTANTS
    DefaultKey = none
    Pda = {}
    Key = {f, s, g1, g2, g3, n}
    Instant = {0, 2, 4, 5}
    Subject = {g3, n}
    I64_MAX = 5
    COUNTER_MAX = 2
    PERIOD = 1
    CLIFF = 6
    CHANGE_NOTICE = 2
    WITHDRAWAL_EXECUTION_WINDOW = 1
    MAX_SUBMISSION_WINDOW = 0
    t0 = 1
    max_report_age = 1
    creator = f
    founder = f
    treasury = s
    initial_oracle = g1
    recovery_keys = {g1, g2, g3}
    founder_recovery_keys = {g1, g2, g3}
    treasury_recovery_keys = {g1, g2, f}
INVARIANTS
    
    PauseIsResolvable
    KeyIndexAgrees
    NoSelfPayment
    AuthorityHistory
    NoticeHonoured
CHECK_DEADLOCK FALSE
