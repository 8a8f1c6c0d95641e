\* The builder on every body of at most MaxInstrs instructions.
\* The body ends after its last instruction: the program stops there.
CONSTANTS
    n_locals <- MC_n_locals
    argc <- MC_argc
    MaxInstrs <- MC_MaxInstrs
    Statements <- MC_Statements
    Terminators <- MC_Terminators
SPECIFICATION BuildSpec
INVARIANT TypeOK
INVARIANT EdgeListsConsistent
INVARIANT BatchesAreInstructions
CHECK_DEADLOCK FALSE
