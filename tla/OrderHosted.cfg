CONSTANTS
    Req = {r1, r2, r3, r4}
    User = {u1}
    Quote = {"limit", "beyond"}
    Worth <- MCWorth ToUnits <- MCToUnits Kept <- MCKept
    Ops <- HostedOps
SYMMETRY Symmetry
SPECIFICATION Spec
CHECK_DEADLOCK FALSE
INVARIANTS
    AckedOrderIsRecorded
    CancelOkMeansDown
    SweptRowsAreCancelled
    DivergenceHasCause
PROPERTIES
    KeepsLedger
