SPECIFICATION FairSpec
CONSTANTS
    Secret = {"a", "b"}
    Versions <- Repaired
    Contents <- FullOrTorn
    MaxWrites = 3
INVARIANTS
    SameDigestSameData
    VerdictFitsSpec
PROPERTY ReadinessFollows
CHECK_DEADLOCK FALSE
