CONSTANTS
    Negotiation = {n1}
    Service = {s1}
    Copies = 1
    MaxStarts = 2
SYMMETRY Symmetry
SPECIFICATION Spec
CHECK_DEADLOCK FALSE
INVARIANT PaidOrderIsAnswered
