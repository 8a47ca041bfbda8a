SPECIFICATION Spec
CONSTANTS
    Files = {f1, f2}
    MaxEntries = 2
    Cleanups = {c1}
    Operators = {op}
SYMMETRY MCFiles
CHECK_DEADLOCK FALSE
INVARIANTS
    Kept
    ManifestMeansWhole
