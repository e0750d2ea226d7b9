CONSTANTS
    Req = {r1, r2, r3}
    User = {u1}
    Quote = {"limit"}
    Worth <- MCWorth ToUnits <- MCToUnits Kept <- MCKept
    Ops <- BuildSubmitOps
SYMMETRY Symmetry
SPECIFICATION Spec
CHECK_DEADLOCK FALSE
INVARIANT PayloadSingleUse
