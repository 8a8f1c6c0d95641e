\* Does collect_equivalent_locals only follow uses and borrows?
CONSTANTS
    n_locals <- MC_n_locals
    argc <- MC_argc
    MaxInstrs <- MC_MaxInstrs
    Statements <- MC_Statements
    Terminators <- MC_Terminators
    Queries <- MC_Queries
SPECIFICATION Spec
INVARIANT EquivalentLocalsValuePreserving
CHECK_DEADLOCK FALSE
