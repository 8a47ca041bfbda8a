SPECIFICATION FairSpec
CONSTANTS
    Full = 5
    Floor = 1
    Raw <- MCRaw
    Tasks = {t1, t2}
    MaxWrites = 1
    MaxResets = 1
INVARIANTS
    InOrder
PROPERTIES
    OthersMarkerKept
    SyncComesBack
