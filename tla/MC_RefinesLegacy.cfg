\* The rapx builder implements the legacy rap builder on their common bodies.
CONSTANTS
    n_locals <- MC_n_locals
    argc <- MC_argc
    Statements <- MC_Statements
    Terminators <- MC_Terminators
    MaxInstrs <- MC_MaxInstrs
SPECIFICATION BuildSpec
PROPERTY RefinesLegacy
CHECK_DEADLOCK FALSE
