CONSTANTS
    KeyCount = 6
    WsKeyCount = 2
    Cooldown = 3
    Caller = {c1, c2, c3}
SYMMETRY Symmetry
SPECIFICATION Spec
INVARIANTS
    RotationIsFair
PROPERTIES
    RetryChangesKey
