\* Two buffers, three contents of which one is not a program, two proposals.
SPECIFICATION FairSpec
CONSTANTS
    Key = {m1, m2, m3}
    Gate = gate
    NoKey = none
    members = {m1, m2, m3}
    Buffer = {b1, b2}
    NoBuffer = none
    Code = {v1, v2, junk}
    Deployable = {v1, v2}
    Instant = {0, 1, 2, 3, 4, 5}
    I64_MAX = 5
    NONCE_MAX = 2
    NOTICE = 2
INVARIANTS
    QueuedBufferLocked
PROPERTIES
    ImplementsNotice
    QueuedUpgradeResolves
