CONSTANTS
    Req = {r1, r2, r3}
    User = {u1, u2}
    Quote = {"limit", "beyond"}
    Worth <- MCWorth ToUnits <- MCToUnits Kept <- MCKept
    Ops <- TenantOps
SYMMETRY Symmetry
SPECIFICATION Spec
CHECK_DEADLOCK FALSE
INVARIANTS
    RowTermsAreSigned
    WithinLimit
    PayloadStaysWithBuilder
PROPERTIES
    LateSubmitFails
    OwnerWrites
