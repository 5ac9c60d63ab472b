SPECIFICATION Spec
CONSTANTS
    Null = Null
    Call = {c1}
    User = {u1}
    Restaurant <- MCRestaurant
    Label <- MCLabel
    Request <- MCRequest
    Catalog <- MCCatalog
    ExpiringCount = {0, 1, 4}
    WalkMinutes = {1, 4, 12}
    MaxInt4 = 1000
    TiesDown <- MCTiesDown
INVARIANTS
    TypeOK
    AlternativesFit
    AnsweredRunIsComplete
    NothingOutlivesItsAccount
    BetterRanksFirst
    ExpirationNeverExplains
