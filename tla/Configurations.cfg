SPECIFICATION Spec
CONSTANTS
    Sessions = {s1, s2}
    Names = {n1}
    NULL = NULL
    MaxVersion = 3
SYMMETRY Symmetry
INVARIANTS TypeOK VersionsContiguous OneActiveIfSerial ActiveIsLastAudited
PROPERTIES HandoverAtomic
