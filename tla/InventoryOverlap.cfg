\* Three requests that change items of two accounts, in any overlap.
SPECIFICATION Spec
CONSTANTS
    r1 = r1
    r2 = r2
    r3 = r3
    u1 = u1
    u2 = u2
    i1 = i1
    None = None
    Null = Null
    Request = {r1, r2, r3}
    StoredItem = {i1}
    User = {u1, u2}
    Column <- OneColumn
    Value = {0, 1}
    Body <- OneColumnBody
    Within = {0}
    Ops = {"update", "deactivate"}
    MaxDay = 0
SYMMETRY RequestSymmetry
INVARIANTS
    TypeOK
PROPERTIES
    OwnerOnly
    QuietDeletionIsFinal
    OnlyRacedPatchReactivates
\* Clients may stop calling: a state where nothing is left to do is legal.
CHECK_DEADLOCK FALSE
