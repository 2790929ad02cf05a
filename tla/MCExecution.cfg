SPECIFICATION CooperativeSpec
CONSTANTS
    Target <- MCTarget
    Folder <- MCFolder
    Command <- MCCommand
    Covers <- MCCovers
    Forbidden <- MCForbidden
    PerHour = 2
    PerDay = 3
    StreakLimit = 2
    Hour = 1
    Day = 2
    Capability <- MCCapability
    Definition <- MCDefinition
    Operation <- MCOperation
    Waits = {"settle"}
    TargetsOf <- MCTargetsOf
    Output <- MCOutput
    PipeSize = 1
    Heirs = {"build"}
    MaxTime = 4
INVARIANTS
    WithinBudget
    StreakStops
    RunWithinPermissions
    RecordIsSound
PROPERTIES
    RunEnds
