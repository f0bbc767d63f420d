SPECIFICATION Spec
CONSTANTS
    Sessions = {s1, s2, s3}
    Content = {a, b}
    Unhashed = {x}
    MaxSeq = 4
SYMMETRY Symmetry
INVARIANTS TypeOK PrevPersisted
