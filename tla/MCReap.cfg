SPECIFICATION ReapSpec
CONSTANTS
    Pids = {1, 2}
    MaxBirths = 4
INVARIANTS
    ReapTypeOK
PROPERTIES
    SignalsAreDue
    ProfileIsDead
CHECK_DEADLOCK FALSE
