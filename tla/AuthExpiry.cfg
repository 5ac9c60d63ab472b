\* Three requests and a clock that runs past the expiry of the tokens.
SPECIFICATION Spec
CONSTANTS
    r1 = r1
    r2 = r2
    r3 = r3
    r4 = r4
    u1 = u1
    e1 = e1
    e2 = e2
    None = None
    Request = {r1, r2, r3}
    SeedUser = {u1}
    Email = {e1}
    SeedEmail <- MCSeedEmail
    Ops = {"login", "refresh", "logout"}
    TTL = 2
    MaxTime = 4
SYMMETRY RequestSymmetry
INVARIANTS
    SessionOutlivesToken
PROPERTIES
    EndedSessionIsFinal
CHECK_DEADLOCK FALSE
