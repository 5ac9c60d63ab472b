\* Two requests under fairness; no symmetry, since it is unsound for liveness.
SPECIFICATION FairSpec
CONSTANTS
    r1 = r1
    r2 = r2
    r3 = r3
    r4 = r4
    u1 = u1
    e1 = e1
    e2 = e2
    None = None
    Request = {r1, r2}
    SeedUser = {u1}
    Email = {e1, e2}
    SeedEmail <- MCSeedEmail
    Ops = {"register", "login", "refresh", "logout"}
    TTL = 1
    MaxTime = 0
PROPERTIES
    EveryRequestAnswered
    DeactivationLocksOut
CHECK_DEADLOCK FALSE
