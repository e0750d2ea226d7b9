CONSTANTS
    Req = {r1, r2, r3}
    Ip = {i1}
    User = {u1}
    DAILY_LIMIT_FREE = 2
    AnalysisLimit = 1
    MaxDay = 2
SPECIFICATION Spec
SYMMETRY Symmetry
CHECK_DEADLOCK FALSE
INVARIANTS
    PassedWithinLimit
    LateAnalysisRefused
    UntimedHasCause
