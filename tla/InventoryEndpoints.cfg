\* All endpoints across midnight, in any overlap.
SPECIFICATION Spec
CONSTANTS
    r1 = r1
    r2 = r2
    r3 = r3
    u1 = u1
    u2 = u2
    i1 = i1
    None = None
    Null = Null
    Request = {r1, r2}
    StoredItem = {i1}
    User = {u1, u2}
    Column <- TwoColumns
    Value = {0, 1}
    Body <- TwoColumnBody
    Within = {0, 1}
    Ops = {"list", "expiring", "create", "update", "deactivate"}
    MaxDay = 1
SYMMETRY RequestSymmetry
INVARIANTS
    ExpiringInWindow
PROPERTIES
    FreshPatchKeepsOmitted
    ImplementsInventoryStore
CHECK_DEADLOCK FALSE
