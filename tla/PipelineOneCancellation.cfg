SPECIFICATION Spec
CONSTANTS
    N = 3
    c1 = c1  c2 = c2
    NoOne = NoOne
    Callers <- TwoCallers
    CancelPoints <- BusyBus
SYMMETRY Interchangeable
INVARIANTS
    DependencyOrder
    RunningMeansAllUp
PROPERTIES
    ResultsAreTrue
    
    StopReachesAll
