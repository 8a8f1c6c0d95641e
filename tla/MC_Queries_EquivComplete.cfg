\* Does collect_equivalent_locals return every slot its upside search accepts?
CONSTANTS
    n_locals <- MC_n_locals
    argc <- MC_argc
    MaxInstrs <- MC_MaxInstrs
    Statements <- MC_Statements
    Terminators <- MC_Terminators
    Queries <- MC_Queries
SPECIFICATION Spec
INVARIANT EquivalentLocalsComplete
CHECK_DEADLOCK FALSE
