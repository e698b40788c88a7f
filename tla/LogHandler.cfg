SPECIFICATION FairSpec
CONSTANTS
    MaxQueue = 2
    MaxBatch = 2
    MaxRecords = 7
    Coloured <- SecondIsColoured
INVARIANTS
    NothingVanishes
    OrderKept
    HealthyMeansServed
PROPERTY
    Drains
