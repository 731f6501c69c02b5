SPECIFICATION Spec
CONSTANTS
    a1 = a1
    t1 = t1
    t2 = t2
    Attempts = {a1}
    Txns = {t1, t2}
    MaxEvidence = 3
    MaxItems = 4
SYMMETRY Symmetry
INVARIANTS
    TypeOK
    FollowedUpOnce
    CardWithinEvidence
    SeedWithinHistory
CHECK_DEADLOCK FALSE
