\* A beneficiary vault and a purpose vault on one policy with a floor.
SPECIFICATION FairSpec
CONSTANTS
    Vault = {fv, pv}
    Purpose = {pv}
    Outsider = payee
    Key = {o, n}
    NoKey = none
    Amount = {6}
    Bps = {1}
    Cliff = {0, 2}
    Volume = {1, 6}
    Rule <- MCFloor
    Need = {2}
    NeedPeriod = {2}
    BPS_DENOMINATOR = 2
    MONTHS_PER_YEAR = 1
    market_capacity_bps = 1
    max_age_seconds = 1
    MIN_CLIFF_SECONDS = 2
    PERIOD_SECONDS = 2
    MIN_NOTICE_SECONDS = 2
    ORACLE_ROTATION_NOTICE_SECONDS = 3
    MIN_SILENCE_GRACE_SECONDS = 4
    END = 8
    ROLLBACKS = 1
    LAST_OPENING = 0
    LAST_DEPOSIT = 1
    LAST_REPORT = 3
    LAST_PROPOSAL = 1
INVARIANTS
    SharedWindowHolds
    PurposePaidAsApproved
PROPERTIES
    KeepsSingleVaultSchedule
    RotationNoticed
    
CHECK_DEADLOCK FALSE
