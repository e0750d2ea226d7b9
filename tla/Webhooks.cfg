CONSTANTS
    Hook = {h1, h2}
    User = {u1, u2}
    Paying = {u1}
    VALID_EVENTS = {e1}
    Dispatch = {d1, d2, d3}
    MAX_FAILURES = 2
SPECIFICATION FairSpec
CHECK_DEADLOCK FALSE
INVARIANTS
    SerialCountIsExact
PROPERTIES
    ReactivatedByStaleReader
    DispatchEnds
