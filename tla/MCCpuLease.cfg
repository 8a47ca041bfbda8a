SPECIFICATION FairSpec
CONSTANTS
    Quotas <- MCQuotas
    Targets <- MCTargets
    NoLimit = 3
    MaxGen = 1
    MaxInv = 2
    MaxBoot = 2
INVARIANTS
    AppliedIsBacked
    RecordedIsArmed
PROPERTIES
    NoBlindOverwrite
    ImplementsUndoLog
    Lifted
