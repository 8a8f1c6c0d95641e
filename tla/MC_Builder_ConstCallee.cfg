\* Does every visited Call record its arguments (or stop the analysis)?
CONSTANTS
    n_locals <- MC_n_locals
    argc <- MC_argc
    MaxInstrs <- MC_MaxInstrs
    Statements <- MC_Statements
    Terminators <- MC_Terminators
SPECIFICATION BuildSpec
INVARIANT CallRecordsArguments
CHECK_DEADLOCK FALSE
