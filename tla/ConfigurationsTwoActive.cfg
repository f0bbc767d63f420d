SPECIFICATION Spec
CONSTANTS
    Sessions = {s1, s2}
    Names = {n1}
    NULL = NULL
    MaxVersion = 2
SYMMETRY Symmetry
INVARIANTS OneActive
