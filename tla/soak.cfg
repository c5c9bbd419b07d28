\* Two acceptance rounds, or a resume after any of them, with an observer run
\* by hand; any write fails and any process dies.
SPECIFICATION Spec
CONSTANTS
    Observer = {child, other}
    Child = child
    Nobody = nobody
    ZERO = zero
    MAX_RECORDS = 6
    ACCEPTANCE_ROUNDS = 2
    LAST_SEQUENCE = 3
    LAST_SIGNATURE = 4
INVARIANTS
    JournalIntact
    CheckpointTracksLedger
CHECK_DEADLOCK FALSE
