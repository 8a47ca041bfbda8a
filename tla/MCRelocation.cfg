SPECIFICATION Spec
CONSTANTS
    a1 = a1
    a2 = a2
    Sources = {"a", "b"}
    FilesOf <- MCFilesOf
    Runs = {"guard", "operator", "guardB"}
    SourceOf <- MCSourceOf
    DestOf <- MCDestOf
    Recording = {"guard", "guardB"}
    MaxStarts <- MCStarts
    Entry <- MCEntry
    MaxApplies = 1
SYMMETRY MCFiles
CHECK_DEADLOCK FALSE
INVARIANTS
    CompleteCopy
    PathLeads
    MovesAreRecorded
