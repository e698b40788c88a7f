SPECIFICATION Spec
CONSTANTS
    N = 2
    c1 = c1  c2 = c2
    NoOne = NoOne
    Callers <- OneCaller
    CancelPoints <- BusyBus
PROPERTY
    StartAbandonsNone
