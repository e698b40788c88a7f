CONSTANTS
    Threads = {t1, t2}
    Writers = {t1}
    Names = {a, b}
    None = None
    MaxRegs = 1
    MaxNest = 2
    MaxBuilt = 2
SPECIFICATION Spec
SYMMETRY Symmetry
PROPERTY
    FailureLeavesNoTrace
