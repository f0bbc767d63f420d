SPECIFICATION Spec
CONSTANTS
    Sessions = {s1}
    plain = plain
    secret = secret
    a = a
    b = b
    c = c
    NULL = NULL
    Redacted = Redacted
    Params <- MCParams
    Values <- MCValues
    Allowed <- MCAllowed
    Initial <- MCInitial
    Sensitive <- MCSensitive
    MaxChanges = 3
SYMMETRY Symmetry
INVARIANTS AppliedWasPromoted
