\* Three requests, all endpoints, two addresses of which one is seeded.
SPECIFICATION Spec
CONSTANTS
    r1 = r1
    r2 = r2
    r3 = r3
    r4 = r4
    u1 = u1
    e1 = e1
    e2 = e2
    None = None
    Request = {r1, r2, r3}
    SeedUser = {u1}
    Email = {e1, e2}
    SeedEmail <- MCSeedEmail
    Ops = {"register", "login", "refresh", "logout"}
    TTL = 1
    MaxTime = 0
SYMMETRY RequestSymmetry
INVARIANTS
    TypeOK
    RegisteredHasSession
    UniqueEmail
    RejectedLeavesNoTrace
CHECK_DEADLOCK FALSE
