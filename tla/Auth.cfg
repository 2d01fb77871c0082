SPECIFICATION MCSpec
CONSTANTS
    Email = {e1, e2}
    Worker = {w1, w2}
    Handle = {h1, h2}
    Code = {c1, c2}
    Token = {t1, t2, t3}
    Ops <- AuthOps
    None = None
    MaxAttempts = 2
    MaxFaults = 1
SYMMETRY Symmetric
INVARIANTS TokensOnlyVerified SingleUse LogoutEndsSession
