SPECIFICATION FairSpec
CONSTANTS
    MaxMembers = 2
    Batch = 2
    MaxBoot = 1
PROPERTIES
    Restored
    DebtRetires
