SPECIFICATION Spec
CONSTANTS
    Null = Null
    Feature <- MCFeature
    DayLength = 2
    MonthLength = 1
    MinUsers = 2
    User = {"u1", "u2"}
    Sender = {c1}
    Reader = {d1}
    EventId <- MCEventId
    Run <- MCRun
    UsageBody <- MCUsageBody
    EventBody <- MCEventBody
    MaxSkew = 1
    MaxAge = 2
    MaxDays = 2
    Window <- MCWindow
    MaxClock = 4
INVARIANTS
    TypeOK
    AcceptedIsStored
    UsesAreInteractions
    EventsOfTheOwner
    LowUseIsExact
    RateAtMostOne
    DemandAddsUp
PROPERTY
    SettledMonthIsFinal
