SPECIFICATION RequestsSpec
CONSTANTS
    \* Lifecycle
    Capability = {c1, c2}
    MaxUses = 1
    \* Exchange
    Asker = {a1, a2}
    MaxMessages = 2
    \* Setup
    hooks = hooks  table = table
    File = {hooks, table}
    Format <- FormatOf
    Setting = {mine, namesake}
    Namesake = {namesake}
    Caller = {r1, r2}
    Idle = Idle
    MaxEdits = 2  MaxFailures = 1
\* Bridges end, and the owners of the files have had their edits.
CHECK_DEADLOCK FALSE
SYMMETRY Symmetric
INVARIANTS
    AnsweredIsStored
    GoneStaysGone
    ForgottenLeavesNoEvidence
    AnswersAreTrue
    LossHasACause
