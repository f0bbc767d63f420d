SPECIFICATION Spec
CONSTANTS
    Sessions = {s1, s2}
    Content = {a, b}
    Unhashed = {x}
    MaxSeq = 3
INVARIANTS ChainIntact
