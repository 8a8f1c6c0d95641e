\* Does param_return_deps report a parameter whose value reaches _0
\* through a pointer?
CONSTANTS
    n_locals <- MC_n_locals
    argc <- MC_argc
    MaxInstrs <- MC_MaxInstrs
    Statements <- MC_Statements
    Terminators <- MC_Terminators
    Queries <- MC_Queries
SPECIFICATION Spec
INVARIANT ParamReturnDepsComplete
CHECK_DEADLOCK FALSE
