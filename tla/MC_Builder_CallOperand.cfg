\* Is the first in_edge of a CallOperand node the callee operand?
CONSTANTS
    n_locals <- MC_n_locals
    argc <- MC_argc
    MaxInstrs <- MC_MaxInstrs
    Statements <- MC_Statements
    Terminators <- MC_Terminators
SPECIFICATION BuildSpec
INVARIANT CallOperandFirstInEdgeIsFunc
CHECK_DEADLOCK FALSE
