CONSTANTS
    Threads = {t1, t2}
    Writers = {t1, t2}
    Names = {a, b, c}
    None = None
    MaxRegs = 1
    MaxNest = 0
    MaxBuilt = 2
SPECIFICATION Spec
SYMMETRY Symmetry
INVARIANTS
    OneRole
    SingletonOnce
    GetIsTrue
    AliasesAcyclic
