------------------------------ MODULE SeedData ------------------------------
(***************************************************************************)
(* The seed script (scripts/seed_data.py): a wipe and then one transaction *)
(* for each seed function, on a database that the service may be using.    *)
(* The script can crash or fail between any two transactions and be run    *)
(* again.                                                                  *)
(*                                                                         *)
(* A table holds so many copies of its demo rows (`rows') and possibly     *)
(* rows that the service added (`added').                                  *)
(***************************************************************************)
EXTENDS Migrations, FiniteSets

CONSTANTS
    UsedTables,     \* tables that the service adds rows to
    MaxRuns,        \* bound: runs of the script
    MaxAdded        \* bound: rows the service adds

\* The other objects of a schema are no tables.
ASSUME SeedAssumption ==
    /\ {MaxRuns, MaxAdded} \subseteq Nat
    /\ UsedTables \subseteq Names \ {"trg_audit_log_immutable", "oidc_status_fields",
                                    "bigint_sizes", "sequence_identity"}

VARIABLES
    step,           \* the step the running script is at; 0: not running
    runs,           \* runs of the script so far
    added,          \* rows of the service: their table, and the run they were added in
    admin,          \* the account admin@nexus exists
    tenantAudited,  \* an audit entry names a tenant in tenant_id
    appended        \* audit entries appended by the current run

seedVars == <<step, runs, added, admin, tenantAudited, appended>>

-----------------------------------------------------------------------------
(* The seed functions: the tables that get demo rows and the tables whose    *)
(* demo rows are looked up to make them.                                     *)

Fills(tables, reads) == [fills |-> tables, reads |-> reads]

\* main() calls it only when there is no admin@nexus.
seed_user == Fills({}, {})

seed_engine ==
    Fills({"engine_instances", "etcd_nodes", "system_metric_samples", "api_endpoint_stats"}, {})

seed_tenants == Fills({"tenants"}, {})

seed_anomalies == Fills({"anomaly_events", "behavioral_baselines", "incidents"}, {"tenants"})

seed_compliance ==
    Fills({"compliance_frameworks", "control_mappings", "compliance_violations",
           "schema_validation_results"}, {})

\* It empties its table before it fills it.
seed_score_snapshots == Fills({"compliance_score_snapshots"}, {"compliance_frameworks"})

seed_config == Fills({"config_parameters", "config_changes"}, {})

seed_configurations == Fills({"configurations"}, {})

seed_hsm ==
    Fills({"hsm_slots", "master_keys", "key_ceremonies", "key_custodian_approvals",
           "certificates", "crypto_algorithms", "attestation_runs"}, {})

\* Key operations are linked to the master keys found by label, or to none.
seed_security == Fills({"security_providers", "security_operations"}, {"master_keys"})

seed_tenancy_extras ==
    Fills({"breach_alerts", "tenant_provisioning_jobs", "tenant_schema_validations",
           "tenant_backup_snapshots"}, {"tenants"})

\* It deletes all accounts but the admin's before it makes the demo accounts.
seed_rbac == Fills({"users", "permissions", "roles", "role_permissions", "user_roles"}, {})

seed_notifications == Fills({"notifications", "alert_rules"}, {})

seed_operations == Fills({"background_jobs", "application_errors"}, {})

\* Six append_entry calls, each with its own commit, without a tenant_id.
seed_audit_log == 6

Security_before_hsm ==
    <<"wipe", seed_user, seed_engine, seed_tenants, seed_anomalies, seed_compliance,
      seed_score_snapshots, seed_config, seed_configurations, seed_security, seed_hsm,
      seed_tenancy_extras, seed_rbac, seed_notifications, seed_operations>>

\* The steps before seed_audit_log.
main ==
    <<"wipe", seed_user, seed_engine, seed_tenants, seed_anomalies, seed_compliance,
      seed_score_snapshots, seed_config, seed_configurations, seed_hsm, seed_security,
      seed_tenancy_extras, seed_rbac, seed_notifications, seed_operations>>

SeedSteps == {k \in DOMAIN main : k > 1}

DemoTables == UNION {main[k].fills : k \in SeedSteps}

-----------------------------------------------------------------------------
(* The wipe *)

Wipe_forgets_notifications ==
    {"user_roles", "role_permissions", "roles", "permissions", "alert_rules",
     "background_jobs", "application_errors", "tenant_backup_snapshots",
     "tenant_schema_validations", "tenant_provisioning_jobs", "breach_alerts",
     "key_custodian_approvals", "key_ceremonies", "security_operations", "master_keys",
     "hsm_slots", "certificates", "crypto_algorithms", "attestation_runs",
     "security_providers", "configurations", "config_changes", "config_parameters",
     "schema_validation_results", "compliance_score_snapshots", "compliance_violations",
     "control_mappings", "compliance_frameworks", "incidents", "anomaly_events",
     "behavioral_baselines", "api_endpoint_stats", "system_metric_samples", "etcd_nodes",
     "engine_instances", "tenants"}

\* The tables that _wipe_domain_tables deletes from.
wipe_domain_tables ==
    {"user_roles", "role_permissions", "roles", "permissions", "notifications", "alert_rules",
     "background_jobs", "application_errors", "tenant_backup_snapshots",
     "tenant_schema_validations", "tenant_provisioning_jobs", "breach_alerts",
     "key_custodian_approvals", "key_ceremonies", "security_operations", "master_keys",
     "hsm_slots", "certificates", "crypto_algorithms", "attestation_runs",
     "security_providers", "configurations", "config_changes", "config_parameters",
     "schema_validation_results", "compliance_score_snapshots", "compliance_violations",
     "control_mappings", "compliance_frameworks", "incidents", "anomaly_events",
     "behavioral_baselines", "api_endpoint_stats", "system_metric_samples", "etcd_nodes",
     "engine_instances", "tenants"}

\* ON DELETE CASCADE empties the tables that hang on them too.
Emptied == wipe_domain_tables \cup
           {n \in schema : \E d \in wipe_domain_tables : CascadeTo(d) \in References[n]}

\* ON DELETE SET NULL updates the audit entries that name a tenant, which the
\* trigger refuses.
WipeRefused == tenantAudited /\ "trg_audit_log_immutable" \in schema

Wipe ==
    /\ step = 1 /\ ~WipeRefused
    /\ rows' = [n \in DOMAIN rows |-> IF n \in Emptied THEN 0 ELSE rows[n]]
    /\ added' = {a \in added : a.table \notin Emptied}
    /\ tenantAudited' = FALSE
    /\ step' = 2
    /\ UNCHANGED <<revision, schema, runs, admin, appended>>

\* The wipe is rolled back and the script ends with the error.
WipeFails ==
    /\ step = 1 /\ WipeRefused
    /\ step' = 0
    /\ UNCHANGED <<schemaVars, runs, added, admin, tenantAudited, appended>>

-----------------------------------------------------------------------------
(* A run *)

Start ==
    /\ step = 0 /\ runs < MaxRuns
    /\ get_migration_status
    /\ step' = 1 /\ runs' = runs + 1 /\ appended' = 0
    /\ UNCHANGED <<schemaVars, added, admin, tenantAudited>>

\* The demo rows after a seed function: the two functions that delete first
\* replace, the others add.
Copies(n) == IF n \in {"compliance_score_snapshots", "users"} THEN 1 ELSE rows[n] + 1

\* The accounts that the service added are deleted, and what hangs on one of
\* them; what hangs on the admin's account stays.
AccountsDeleted ==
    \E stays \in SUBSET {a \in added : CascadeTo("users") \in References[a.table]} :
        added' = stays \cup {a \in added : /\ a.table # "users"
                                          /\ CascadeTo("users") \notin References[a.table]}

Seed ==
    /\ step \in SeedSteps
    /\ rows' = [n \in DOMAIN rows |-> IF n \in main[step].fills THEN Copies(n) ELSE rows[n]]
    /\ IF main[step] = seed_rbac THEN AccountsDeleted ELSE UNCHANGED added
    /\ admin' = (admin \/ main[step] = seed_user)
    /\ step' = step + 1
    /\ UNCHANGED <<revision, schema, runs, tenantAudited, appended>>

AppendEntry ==
    /\ step = Len(main) + 1 /\ appended < seed_audit_log
    /\ appended' = appended + 1
    /\ UNCHANGED <<schemaVars, step, runs, added, admin, tenantAudited>>

Completed == step = Len(main) + 1 /\ appended = seed_audit_log

\* The script returns, or it crashes or fails: an unfinished transaction is
\* rolled back, the finished ones stay.
Exit ==
    /\ step # 0
    /\ step' = 0
    /\ UNCHANGED <<schemaVars, runs, added, admin, tenantAudited, appended>>

-----------------------------------------------------------------------------
(* The service and the operators *)

\* The service adds a row to a table, also while the script runs.
Use(n) ==
    /\ n \in schema /\ Cardinality(added) < MaxAdded
    /\ added' = added \cup {[table |-> n, run |-> IF step = 0 THEN 0 ELSE runs]}
    /\ UNCHANGED <<schemaVars, step, runs, admin, tenantAudited, appended>>

\* The status of a demo anomaly is changed: the audit entry names its tenant.
AuditDemoAnomaly ==
    /\ rows["anomaly_events"] > 0
    /\ tenantAudited' = TRUE
    /\ UNCHANGED <<schemaVars, step, runs, added, admin, appended>>

\* Operators run alembic while the script does not run.
Migrate ==
    /\ step = 0
    /\ upgrade \/ downgrade
    /\ added' = {a \in added : a.table \in schema'}
    /\ admin' = (admin /\ "users" \in schema')
    /\ tenantAudited' = (tenantAudited /\ "audit_log_entries" \in schema')
    /\ UNCHANGED <<step, runs, appended>>

SeedInit ==
    /\ MigrationsInit
    /\ step = 0 /\ runs = 0 /\ appended = 0
    /\ added = {} /\ admin = FALSE /\ tenantAudited = FALSE

SeedNext ==
    \/ Start \/ Wipe \/ WipeFails \/ Seed \/ AppendEntry \/ Exit \/ Migrate \/ AuditDemoAnomaly
    \/ \E n \in UsedTables : Use(n)

SeedSpec == SeedInit /\ [][SeedNext]_<<schemaVars, seedVars>>

-----------------------------------------------------------------------------
SeedTypeOK ==
    /\ step \in 0..(Len(main) + 1) /\ runs \in Nat /\ appended \in 0..seed_audit_log
    /\ added \subseteq [table : DOMAIN rows, run : Nat]
    /\ {admin, tenantAudited} \subseteq BOOLEAN

\* Audit entries are never deleted, and the admin's tokens go with no account.
Lasting == {"audit_log_entries", "refresh_tokens", "password_reset_tokens"}

(* A run that completes leaves exactly one copy of the demo rows in every    *)
(* table, the admin account, and no row that the service added before the    *)
(* run began but audit entries and tokens, whatever earlier runs left behind *)
(* when they crashed and whatever migrations came in between; and each seed  *)
(* function finds exactly the rows it looks up.                              *)
SeedConverges ==
    /\ Completed => /\ \A n \in DemoTables : rows[n] = 1
                    /\ admin
                    /\ \A a \in added : a.table \in Lasting \/ a.run = runs
    /\ step \in SeedSteps => \A n \in main[step].reads : rows[n] = 1

(* What SeedConverges needs of a run under way: it is at the head, the       *)
(* functions before `step' have filled their tables once and the others have *)
(* not, and of the rows older than the run only accounts are left, until     *)
(* seed_rbac deletes them.                                                   *)
SeedInv ==
    /\ step # 0 => get_migration_status
    /\ \A a \in added : a.table \in UsedTables
    /\ step > 1 =>
        /\ \A k \in SeedSteps : \A n \in main[k].fills :
              /\ k < step => rows[n] = 1
              /\ k >= step /\ n # "users" => rows[n] = 0
        /\ step > 2 => admin
        /\ \A a \in added : \/ a.table \in Lasting \/ a.run = runs
                            \/ /\ a.table = "users"
                               /\ \E k \in SeedSteps : k >= step /\ main[k] = seed_rbac

=============================================================================
