CONSTANTS
    Negotiation = {n1}
    Service = {s1, s2}
    Copies = 2
    MaxStarts = 2
SPECIFICATION FairSpec
CHECK_DEADLOCK FALSE
INVARIANTS
    DegradedHasCause
    AgreedRunsOnce
    DrainedTasksFinished
PROPERTIES
    KeepsSale
    PaymentIsWorked
