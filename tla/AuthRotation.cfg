\* Four requests over one seeded account, any mix of logins, refreshes and
\* logouts, with lost responses and crashes. The clock stands still.
SPECIFICATION Spec
CONSTANTS
    r1 = r1
    r2 = r2
    r3 = r3
    r4 = r4
    u1 = u1
    e1 = e1
    e2 = e2
    None = None
    Request = {r1, r2, r3, r4}
    SeedUser = {u1}
    Email = {e1}
    SeedEmail <- MCSeedEmail
    Ops = {"login", "refresh", "logout"}
    TTL = 1
    MaxTime = 0
SYMMETRY RequestSymmetry
INVARIANTS
    SingleUse
    SpentNeverCurrent
    UnspentIsCurrent
PROPERTIES
    OnlyLogoutRevokes
    ImplementsTokenChain
\* Clients may stop calling: a state where nothing is left to do is legal.
CHECK_DEADLOCK FALSE
