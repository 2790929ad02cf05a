SPECIFICATION Spec
CONSTANTS
    Operation = {edit, build}
    Place = {here, there}
    MinAttempts = 2
    MinFailures = 1
    MinEachSide = 1
    Lift = 4
    Lookback = 1
    LookbackTime = 0
    ModeCeiling = 2
    PairCeiling = 1
    Slack = 0
    SessionHistory = 1
    Session = {s1}
    Agent = {claude}
    Unattributed = mcp
    Path = {drive}
    RetryWindow = 0
    AgentTimeout = 0
    RecentCeiling = 1
    MaxActions = 3
    MaxHellos = 1
    MaxTime = 1
    MaxFaults = 1
SYMMETRY Alike
INVARIANTS
    CountsNest
    RetriesAreBacked
    CleanIsStored
