SPECIFICATION Spec
CONSTANTS
    MaxMembers = 3
    Batch = 1
    MaxBoot = 2
INVARIANTS
    BiasIsOwed
    CertifiedIsEmpty
PROPERTIES
    CertificateStays
    NoBiasWhileDraining
    ImplementsUndoLog
