SPECIFICATION Spec
CONSTANTS
    \* Theory
    s1 = s1  s2 = s2
    here = here  there = there  follows = follows
    State = {s1, s2}
    Claim = {here, there, follows}
    From <- FromOf
    To <- ToOf
    MinTrials = 2  MaxOpen = 2  GiveUpAfter = 2
    MaxTested = 6  MaxConjectured = 5
    \* Concepts
    Latent <- LatentIds
    Family = {f}
    Hold = Hold  NoFamily = NoFamily  NoConcept = NoConcept
    MinUtility = 2  RetireBelow = 1  MaxConcepts = 1
    MaxUtility = 3  MaxAbsent = 2  MaxClaims = 1
    Needed = 2  Unit = 1  Kept = 1  Budget = 6
    \* Atlas
    Place = {p, q}
    Act = {x}
    Enough = 2  EnoughToClaim = 2  EnoughAttempts = 2
    Threshold = 70
    MaxTries = 3  MaxAttempts = 2
    \* Lineage
    Cost = {0, 1, 3}
    MaxGenerations = 3  MaxUnits = 4
    \* Mirror; the shapes are those places, for the sake of the symmetry
    Shape = {p, q}
    NoShape = NoShape
    SensorRows = TRUE
    HistoryCapacity = 2
    MaxReflections = 3  MaxStarts = 2
    \* Layout
    WordRange = 1344
    ShapeOf <- Shapes
    MaxLayouts = 2
    \* Bench
    Process = {c1, c2}
    Cpu = {1, 2}
    Rounds = 2
    MaxCommands = 3
    \* Outcome
    MaxReports = 3
    \* Forecast
    Cell = {cell}
    Epochs = {1, 2}
    MaxObserved = 6
    \* Regimes
    Items = 4  Dimensions = 2
    Experiences <- MCExperiences
    Wanted = 3  Iterations = 25
    \* Reflector, with the discovery of the machine
    CpuNumber = {0, 1, 2}
    CoreId <- CoreIds
    Zone = {zone}
    NoZone = NoZone
    Sleeper = {"frequency"}
    Sensors <- SensorOrder
    MaxChanges = 2  MaxPasses = 2
\* The bounds of the parts end their behaviours.
CHECK_DEADLOCK FALSE
SYMMETRY Symmetric
INVARIANTS
    TrialsAccountedFor
    PreferencesAreCausal
    ChancesAddUp
    LossesAreAtTheSeams
    ReportsAreComparable
    ImprovementIsPaidFor
    OpenedIsSound
    NeverMadeBetter
    ForecastIsHonest
    StructureIsSound
    ReflectionIsHonest
