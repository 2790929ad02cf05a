SPECIFICATION ReflectorSpec
CONSTANTS
    CpuNumber = {0, 1, 2}
    CoreId <- CoreIds
    Zone = {zone}
    NoZone = NoZone
    Sleeper = {"frequency"}
    Sensors <- SensorOrder
    MaxChanges = 1
    MaxPasses = 2
CHECK_DEADLOCK FALSE
INVARIANT RebuiltForAReason
