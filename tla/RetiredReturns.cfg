SPECIFICATION Spec
CONSTANTS
    i1 = i1
    i2 = i2
    t1 = t1
    t2 = t2
    hot = hot
    cold = cold
    Items = {i1, i2}
    Tiers = {hot, cold}
    Keep = Keep
    Txns = {t1, t2}
    NoTxn = NoTxn
    Cap = 1
SYMMETRY Symmetry
PROPERTY
    RetiredForGood
CHECK_DEADLOCK FALSE
