SPECIFICATION Spec
CONSTANTS
    Sessions = {s1, s2}
    NULL = NULL
    Events = {e1, e2}
    MaxHistory = 3
    Kinds = {k1, k2}
    MaxEntries = 3
    EXPORT_MAX_ROWS = 2
    PageSize = 2
    None = None
    Processes = {p1, p2}
    MaxKeys = 3
    UsedTables = {"tenants", "users", "tenant_members", "compliance_assessments", "refresh_tokens"}
    MaxRuns = 2
    MaxAdded = 1
INVARIANTS TypeOK HistoryEndsInStatus HistoryChainsIfSerial ExportHonest ListingComplete
    SignaturesVerify SchemaSound SeedConverges
PROPERTIES RequestsEnd
CHECK_DEADLOCK FALSE
