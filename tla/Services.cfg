SPECIFICATION Spec
CONSTANTS
    Sessions = {s1, s2}
    NULL = NULL
    Users = {u1}
    MaxIssued = 3
    Emails = {e1}
    RoleNames = {r1}
    Permissions = {p1, p2}
    MaxRoles = 1
    MaxRows = 3
    Inbox = {n1, n2}
    Recipients = {c1, c2}
    RuleNames = {a1, a2}
    MaxTime = 2
    MaxRules = 2
    Slugs = {t1}
    Members = {m1}
    Alerts = {b1}
    MaxTenants = 2
    MaxRefs = 1
    Frameworks = {f1, f2}
    Domains = {d1, d2}
    MaxAssessments = 2
    MaxCompletions = 2
    KeyRows = {k1, k2}
    CertRows = {h1}
    SlotRows = {l1}
    ProviderRows = {q1}
    Expiries = {1, 63}
    ObjectCounts = {17, 19}
    CapacityMax = 20
    HistoryLimit = 1
    MaxNow = 5
    MaxRuns = 1
    TenantRows = {w1}
    Snapshots = {x1, x2}
    TakenAt = {0, 1}
    MaxHour = 26
SYMMETRY Symmetry
CHECK_DEADLOCK FALSE
INVARIANTS TypeOK RotationRevokes SingleUseIfSerial SessionsOfCurrentPasswordIfSerial
    PermissionsAsRequested ProvisioningInOrder TenantReferencesIntact
    ViewsAgree
PROPERTIES AccountsCreatedWhole StampedOnce
