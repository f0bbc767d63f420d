---------------------------- MODULE TenantPosture ----------------------------
(***************************************************************************)
(* The posture of tenants: the columns update_tenant changes, the score    *)
(* and the level derived from them (app/models/tenancy.py), and the        *)
(* currency of backups, which the overview computes in Python and the      *)
(* usage report in SQL (app/services/tenancy_service.py).  Time is in      *)
(* hours.                                                                  *)
(***************************************************************************)
EXTENDS Requests, Integers

CONSTANTS
    TenantRows,
    Snapshots,          \* rows of tenant_backup_snapshots
    TakenAt,            \* hours at which they were taken
    MaxHour             \* bound: the last hour

ASSUME TenantPostureAssumption ==
    /\ MaxHour \in Nat /\ TakenAt \subseteq Int /\ NULL \notin TakenAt
    /\ IsFiniteSet(TenantRows)

VARIABLES
    posture,        \* table tenants: status and the columns of the score
    snapshots,      \* table tenant_backup_snapshots
    hour            \* datetime.now()

tenantPostureTables == <<posture, snapshots, hour>>

-----------------------------------------------------------------------------
STALE_SNAPSHOT_AFTER_HOURS == 24

Fields == {"db_schema_valid", "network_shared", "encryption_valid"}

Columns == [Fields -> BOOLEAN]

TenantRow == [status : {"ACTIVE", "PROVISIONING", "SUSPENDED"}, columns : Columns]

TenantBackupSnapshot == [tenant : TenantRows, status : {"CURRENT", "STALE", "PENDING"},
                         taken_at : {NULL} \cup TakenAt]

-----------------------------------------------------------------------------
(* What is derived from the rows *)

isolation_score(t) ==
    LET c == posture[t].columns
    IN  (IF c["db_schema_valid"] THEN 40 ELSE 0)
        + (IF ~c["network_shared"] THEN 20 ELSE 0)
        + (IF c["encryption_valid"] THEN 40 ELSE 0)

isolation_level(t) ==
    LET c == posture[t].columns
    IN  IF posture[t].status = "PROVISIONING" THEN "pending"
        ELSE IF ~c["db_schema_valid"] \/ ~c["encryption_valid"] THEN "breach"
        ELSE IF c["network_shared"] THEN "partial" ELSE "strict"

isolation_summary(l) == Cardinality({t \in TenantRows : isolation_level(t) = l})

Stale_at_the_hour(x) ==
    IF snapshots[x].status = "PENDING" THEN "PENDING"
    ELSE IF snapshots[x].taken_at # NULL /\ hour - snapshots[x].taken_at >= STALE_SNAPSHOT_AFTER_HOURS
         THEN "STALE" ELSE "CURRENT"

effective_snapshot_status(x) ==
    IF snapshots[x].status = "PENDING" THEN "PENDING"
    ELSE IF snapshots[x].taken_at # NULL /\ hour - snapshots[x].taken_at > STALE_SNAPSHOT_AFTER_HOURS
         THEN "STALE" ELSE "CURRENT"

\* current_backup_snapshots of get_tenant_usage.
get_tenant_usage(t) ==
    LET stale_cutoff == hour - STALE_SNAPSHOT_AFTER_HOURS
    IN  Cardinality({x \in Snapshots : /\ snapshots[x].tenant = t
                                       /\ snapshots[x].status # "PENDING"
                                       /\ \/ snapshots[x].taken_at = NULL
                                          \/ snapshots[x].taken_at >= stale_cutoff})

-----------------------------------------------------------------------------
\* The payload names some fields (exclude_unset) and their new values; a field
\* set to null makes the UPDATE fail.  The UPDATE sets the columns that differ
\* from the loaded ones whatever they hold by then, so its effect is that of
\* one statement.
update_tenant(s, t, fields, values) ==
    /\ Instant(s)
    /\ posture' = [posture EXCEPT ![t].columns =
                     [f \in Fields |-> IF f \in fields THEN values[f] ELSE @[f]]]
    /\ UNCHANGED <<snapshots, hour>>

HourPasses ==
    /\ hour < MaxHour
    /\ hour' = hour + 1
    /\ UNCHANGED <<reqVars, posture, snapshots>>

TenantPostureInit ==
    /\ posture \in [TenantRows -> TenantRow]
    /\ snapshots \in [Snapshots -> TenantBackupSnapshot]
    /\ hour = STALE_SNAPSHOT_AFTER_HOURS - 1

TenantPostureNext ==
    \/ HourPasses
    \/ \E s \in Sessions, t \in TenantRows, fields \in SUBSET Fields, values \in Columns :
         fields # {} /\ update_tenant(s, t, fields, values)

-----------------------------------------------------------------------------
TenantPostureTypeOK ==
    /\ posture \in [TenantRows -> TenantRow]
    /\ snapshots \in [Snapshots -> TenantBackupSnapshot]
    /\ hour \in Int

(* "So the two endpoints never disagree about backup health"                 *)
(* (get_tenant_usage): at every hour, at the 24th too, a tenant's current    *)
(* backups in the usage report are those the overview shows as CURRENT.  The *)
(* isolation level of a tenant that is not being provisioned can be read off *)
(* its score, and the isolation summary counts every tenant once.            *)
TenantViewsAgree ==
    /\ \A t \in TenantRows :
         get_tenant_usage(t) = Cardinality({x \in Snapshots :
           snapshots[x].tenant = t /\ effective_snapshot_status(x) = "CURRENT"})
    /\ \A t \in TenantRows : posture[t].status # "PROVISIONING" =>
         isolation_level(t) = CASE isolation_score(t) = 100 -> "strict"
                                [] isolation_score(t) = 80 -> "partial"
                                [] isolation_score(t) <= 60 -> "breach"
    /\ isolation_summary("strict") + isolation_summary("partial") + isolation_summary("breach")
         + isolation_summary("pending") = Cardinality(TenantRows)

=============================================================================
