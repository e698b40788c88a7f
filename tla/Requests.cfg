SPECIFICATION Spec
CONSTANT MaxOdd = 3
INVARIANT
    ValidateStandsIn
PROPERTIES
    ConstructorsSuffice
    RoundTripKeeps
