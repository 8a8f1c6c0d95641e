\* The answers of is_connected, param_return_deps and
\* collect_equivalent_locals on every acyclic graph of the body model.
\* The program stops once the query has returned.
CONSTANTS
    n_locals <- MC_n_locals
    argc <- MC_argc
    MaxInstrs <- MC_MaxInstrs
    Statements <- MC_Statements
    Terminators <- MC_Terminators
    Queries <- MC_Queries
SPECIFICATION Spec
INVARIANT QueryTypeOK
 
INVARIANT ParamReturnDepsCorrect
INVARIANT EquivalentLocalsSound
CHECK_DEADLOCK FALSE
