SPECIFICATION Spec
CONSTANTS
    a = a
    b = b
    Server = {a, b}
    Max = 6
    Steps = {2}
    Sizes = {1, 2}
    Increments = {1, 2}
    Offsets = {1, 3}
    Alters = 1
    Bases = {5}
SYMMETRY Symmetry
INVARIANTS TypeOK OnGrid
PROPERTIES Implements RebaseHonoured
