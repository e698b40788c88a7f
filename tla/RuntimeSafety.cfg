SPECIFICATION Spec
CONSTANTS
    t1 = t1  t2 = t2  t3 = t3
    NoTask = NoTask
    Tasks <- ThreeTasks
    CancelPoints <- BusyBus
SYMMETRY Interchangeable
INVARIANTS
    TypeOK
    PhaseAgrees
    ClockRuns
    ErrorExplains
    HealthNeverRaises
PROPERTIES
    ResultsAreTrue
    ImplementsLifecycle
    OnlyPublicationAbandons
    InvalidOnlyIfAbandoned
