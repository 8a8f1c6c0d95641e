\* Does collect_equivalent_locals always return a set holding the root?
CONSTANTS
    n_locals <- MC_n_locals
    argc <- MC_argc
    MaxInstrs <- MC_MaxInstrs
    Statements <- MC_Statements
    Terminators <- MC_Terminators
    Queries <- MC_Queries
SPECIFICATION Spec
INVARIANT EquivalentLocalsContainRoot
CHECK_DEADLOCK FALSE
