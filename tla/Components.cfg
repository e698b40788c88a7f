SPECIFICATION Spec
CONSTANTS
    c1 = c1  c2 = c2  i1 = i1  t1 = t1  a = a  b = b
    Connectors <- TwoConnectors
    Interfaces <- OneInterface
    Port <- Ports
    Callers <- OneCaller
    Names <- TwoNames
    Nobody = Nobody
    MaxChunks = 1
SYMMETRY Interchangeable
INVARIANTS
    ReportsAgree
    UpMeansOpen
PROPERTY
    StopClosesAll
