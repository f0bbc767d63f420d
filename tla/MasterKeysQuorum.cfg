SPECIFICATION Spec
CONSTANTS
    Sessions = {s1, s2}
    k1 = k1
    Keys = {k1, k2}
    Seeded <- MCSeeded
    Custodians = {u1, u2}
    Required <- MCRequired
    NULL = NULL
    MaxCeremonies = 1
SYMMETRY Symmetry
INVARIANTS QuorumOfCustodians
\* The labels of the instance run out: every key retired or disabled.
CHECK_DEADLOCK FALSE
