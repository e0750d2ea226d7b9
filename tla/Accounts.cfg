CONSTANTS
    Req = {r1, r2, r3}
    Elder = elder
    Wallet = {w1}
    Email = {e1, e2}
    e1 = e1
    e2 = e2
    g1 = g1
    GoogleAccount <- Accounts2
    NoOne = NoOne
SPECIFICATION Spec
SYMMETRY Symmetry
CHECK_DEADLOCK FALSE
INVARIANTS
    NonceReuseOverlaps
    WalletGetsItsAccount
    KeyWorksUntilRevoked
PROPERTIES
    ChallengeSurvives
