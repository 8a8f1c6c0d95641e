\* Does a call with a projected destination write the resolved place?
CONSTANTS
    n_locals <- MC_n_locals
    argc <- MC_argc
    MaxInstrs <- MC_MaxInstrs
    Statements <- MC_Statements
    Terminators <- MC_Terminators
SPECIFICATION BuildSpec
INVARIANT CallWritesDestinationPlace
CHECK_DEADLOCK FALSE
