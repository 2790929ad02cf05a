SPECIFICATION RequestsSpec
CONSTANTS
    \* Lifecycle
    Capability = {c1}
    MaxUses = 0
    \* Exchange
    Asker = {}
    MaxMessages = 0
    \* Setup
    hooks = hooks  table = table
    File = {hooks, table}
    Format <- FormatOf
    Setting = {mine, namesake}
    Namesake = {}
    Caller = {r1}
    Idle = Idle
    MaxEdits = 0  MaxFailures = 0
CHECK_DEADLOCK FALSE
INVARIANT OthersKept
