\* Two overlapping runs of the restaurant seed, one request; three runs of the recipe seed.
SPECIFICATION MCSpec
CONSTANTS
    s1 = s1
    s2 = s2
    s3 = s3
    c1 = c1
    None = None
    NoRow = NoRow
    NoRun = NoRun
    SeedRun = {s1, s2}
    RecipeRun = {s1, s2, s3}
    Call = {c1}
    Authored <- MCAuthored
    Text <- MCText
    Normal <- MCNormal
    Label <- MCLabel
    Demo <- MCDemo
    MaxEdits = 1
    Ask <- MCAsk
    Target <- MCTarget
    Instant <- MCInstant
    Matrix <- MCMatrix
    RouteMode <- MCRouteMode
INVARIANTS
    TypeOK
    EstimatesBelong
    AnswerBetween
    SeedIdempotent
PROPERTIES
    RequestAnswered
    PublishesAtomically
CHECK_DEADLOCK FALSE
