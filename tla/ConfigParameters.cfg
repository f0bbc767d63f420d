SPECIFICATION Spec
CONSTANTS
    Sessions = {s1, s2}
    plain = plain
    secret = secret
    a = a
    b = b
    c = c
    NULL = NULL
    Redacted = Redacted
    Params <- MCParams
    Values <- MCValues
    Allowed <- MCAllowed
    Initial <- MCInitial
    Sensitive <- MCSensitive
    MaxChanges = 2
SYMMETRY Symmetry
INVARIANTS TypeOK Provenance AuditTrail StagedHasOpenRecord
PROPERTIES AuditedPromotion AllOrNothing
