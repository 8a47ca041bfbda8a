SPECIFICATION ReportsSpec
CONSTANTS
    Repeat = 4
    Sustain = 3
    Window = 4
    MinGrowth = 2
    MaxHistory = 4
    MaxFootprint = 5
    MaxStarts = 2
INVARIANTS
    SustainedFirst
PROPERTIES
    NewsIsTold
    GrowthIsTrue
    GrowthIsTold
