SPECIFICATION FairSpec
CONSTANTS
    Reader = {r1}
    Buffered = {c1, c2}
    Single = {header, sensors}
    NoView = NoView
    Unsampled = Unsampled
    Torn = Torn
    MaxRetries = 2
    LoadsInOrder = TRUE
    MaxPublished = 3
INVARIANTS
    ViewIsWhole
PROPERTIES
    ImplementsSnapshot
    ReadEnds
