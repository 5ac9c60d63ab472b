SPECIFICATION Spec
CONSTANTS
    r1 = r1
    r2 = r2
    r3 = r3
    u1 = u1
    u2 = u2
    i1 = i1
    None = None
    Null = Null
    Request = {r1, r2}
    StoredItem = {i1}
    User = {u1}
    Column <- TwoColumns
    Value = {0, 1}
    Body <- TwoColumnBody
    Within = {0}
    Ops = {"update", "deactivate"}
    MaxDay = 0
PROPERTIES
    OmittedFieldsKept
CHECK_DEADLOCK FALSE
