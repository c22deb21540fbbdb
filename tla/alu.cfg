SPECIFICATION Spec
CONSTANTS
    MAG = 10
    INT_MAX = 31
    Words <- MCWords
    Inputs <- MCInputs
INVARIANTS
    AluTypeOK
    ExactOrSaturated
    FlagsAgree
