SPECIFICATION Spec
CONSTANTS
    a = a  b = b  c = c  d = d
    None = None
    Server <- MCServer
    Client <- MCClient
    Max = 7
    Batch = 2
    Setups <- MCSetups
SYMMETRY Sym
CHECK_DEADLOCK FALSE
INVARIANTS Unique Increasing NoGap
