SPECIFICATION MCSpec
CONSTANTS
    Session = {s1, s2}
    Operation = {"build"}
    Workspace = {"here", "there"}
    Last = 2
    Target <- MCTarget
    MinTrials = 2
    Budget = 6
    Unit = 10
    Kept = 9
    Ceiling = 1
    NoTrial = NoTrial
    MaxSuggested <- MCSuggested
    FewSuggested = 3
    MaxFailed = 1
SYMMETRY SessionSymmetry
INVARIANTS
    EvidenceIsBacked
    RandomisationIsPaid
    CausalClaimsAreRandomised
