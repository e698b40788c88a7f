SPECIFICATION FairSpec
CONSTANTS
    N = 2
    c1 = c1  c2 = c2
    NoOne = NoOne
    Callers <- TwoCallers
    CancelPoints <- Everything
PROPERTIES
    ServicesLive
    CallsReturn
