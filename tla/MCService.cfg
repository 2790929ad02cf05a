SPECIFICATION FairSpec
CONSTANTS
    Process = {s1, s2}
    Port = {p1}
    Thread = {store}
    MaxCrashes = 1
    MaxCalls = 2
CHECK_DEADLOCK FALSE
INVARIANTS
    Discoverable
    AliveMeansServed
PROPERTIES
    ClientsSettle
