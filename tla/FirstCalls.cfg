SPECIFICATION Spec
CONSTANTS
    c1 = c1
    c2 = c2
    c3 = c3
    Calls = {c1, c2, c3}
    Modes = {"practice", "study-coach"}
    ModeCaps <- MCModeCaps
    GlobalCap = 3
    Costs = {1, 2}
    Nobody = Nobody
    MaxDay = 1
SYMMETRY Symmetry
INVARIANT
    DailyCapHeld
CHECK_DEADLOCK FALSE
