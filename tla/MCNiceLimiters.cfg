SPECIFICATION Spec
CONSTANTS
    Natives <- MCNatives
    Tiers <- MCTiers
    MaxInc = 2
INVARIANTS
    DegradedIsRecorded
    OriginalIsTrue
    NeverPromoted
