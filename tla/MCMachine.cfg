SPECIFICATION Spec
CONSTANTS
    \* The loop
    Family = {"affinity"}
    Pid = {p}
    Value = {all, one}
    Permitted = {all, one}
    Reach <- MCReach
    Candidates <- MCCandidates
    MinInterval = 2
    Minute = 1
    PerMinute = 1
    LogCapacity = 2
    Foresight = {0, 2}
    MaxOverruns = 1
    MaxFailures = 2
    MaxRegressions = 2
    WarmupTicks = 2
    DogPerMinute = 2
    ExploreOneIn = 2
    ActionLimit = 4
    MaxTime = 3
    MaxTicks = 4
    \* The engine
    Capacity = 2
    MaxStates = 2
    FitRows = 1
    TrailLength = 1
    EventCeiling = 1
    MaxPushes = 3
    MaxSeen = 3
    MaxFits = 2
    MaxEvents = 2
SYMMETRY Alike
\* The loop ends.
CHECK_DEADLOCK FALSE
INVARIANTS
    RateHolds
    AuditIsTrue
    FailuresStopTheLoop
    OnlyHeldOnEffects
    ReflectionsCounted
    SavedWhenClean
    RingLosesOnlyTheOldest
