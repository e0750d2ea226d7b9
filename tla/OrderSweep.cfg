CONSTANTS
    Req = {r1, r2, r3}
    User = {u1}
    Quote = {"limit"}
    Worth <- MCWorth ToUnits <- MCToUnits Kept <- MCKept
    Ops <- HostedOps

SPECIFICATION FairSpec
CHECK_DEADLOCK FALSE
PROPERTIES
    SweepCompletes
