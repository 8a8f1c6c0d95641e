\* param_return_deps on the graph of a loop that increments a parameter.
CONSTANTS
    n_locals <- MC_n_locals
    argc <- MC_argc
    MaxInstrs <- MC_MaxInstrs
    Statements <- MC_Statements
    Terminators <- MC_Terminators
    Queries <- MC_Queries
SPECIFICATION Spec
INVARIANT RecursionBounded
CHECK_DEADLOCK FALSE
