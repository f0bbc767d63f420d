----------------------------- MODULE Migrations -----------------------------
(***************************************************************************)
(* The database schema and the commands that move it (alembic/env.py and   *)
(* alembic/versions).  A schema is a set of objects: tables with their     *)
(* foreign keys, and the column changes and the trigger that later         *)
(* revisions add.  A command runs all its revisions in one transaction, so *)
(* it takes effect as a whole or not at all.                               *)
(***************************************************************************)
EXTENDS Naturals, SequencesExt

VARIABLES
    revision,       \* alembic_version: how many revisions are applied
    schema,         \* the names of the objects in the database
    rows            \* per object: how many copies of its demo rows it holds

schemaVars == <<revision, schema, rows>>

-----------------------------------------------------------------------------
\* A table and its foreign keys <<parent, what ON DELETE does>>.
Table(name, refs) == [name |-> name, refs |-> refs]

Plain(names) == [i \in DOMAIN names |-> Table(names[i], {})]

CascadeTo(parent) == <<parent, "CASCADE">>

SetNullTo(parent) == <<parent, "SET NULL">>

\* 570702d1f582: the tables without foreign keys ...
initial_schema_parents ==
    Plain(<<"behavioral_baselines", "certificates", "compliance_frameworks",
            "config_parameters", "crypto_algorithms", "engine_instances", "hsm_slots",
            "incidents", "schema_validation_results", "tenants", "users">>)

\* ... and the ones that refer to them ...
initial_schema_children ==
    <<Table("anomaly_events", {SetNullTo("tenants")}),
      Table("api_endpoint_stats", {CascadeTo("engine_instances")}),
      Table("audit_log_entries", {SetNullTo("tenants")}),
      Table("breach_alerts", {SetNullTo("tenants")}),
      Table("compliance_violations", {CascadeTo("compliance_frameworks"), SetNullTo("tenants")}),
      Table("config_changes", {CascadeTo("config_parameters")}),
      Table("control_mappings", {CascadeTo("compliance_frameworks")}),
      Table("etcd_nodes", {CascadeTo("engine_instances")})>>

initial_schema_grandchildren ==
    <<Table("master_keys", {SetNullTo("hsm_slots"), SetNullTo("master_keys")}),
      Table("system_metric_samples", {CascadeTo("engine_instances")}),
      Table("tenant_backup_snapshots", {CascadeTo("tenants")}),
      Table("tenant_provisioning_jobs", {CascadeTo("tenants")}),
      Table("tenant_schema_validations", {CascadeTo("tenants")}),
      Table("incident_anomaly_links", {CascadeTo("anomaly_events"), CascadeTo("incidents")}),
      Table("key_ceremonies", {CascadeTo("master_keys")}),
      Table("key_custodian_approvals", {CascadeTo("key_ceremonies")})>>

Drops_parent_first ==
    <<"key_ceremonies", "key_custodian_approvals", "incident_anomaly_links",
      "tenant_schema_validations", "tenant_provisioning_jobs", "tenant_backup_snapshots",
      "system_metric_samples", "master_keys", "etcd_nodes", "control_mappings",
      "config_changes", "compliance_violations", "breach_alerts", "audit_log_entries",
      "api_endpoint_stats", "anomaly_events", "users", "tenants",
      "schema_validation_results", "incidents", "hsm_slots", "engine_instances",
      "crypto_algorithms", "config_parameters", "compliance_frameworks", "certificates",
      "behavioral_baselines">>

\* ... which its downgrade drops in this order.
initial_schema_downgrade ==
    <<"key_custodian_approvals", "key_ceremonies", "incident_anomaly_links",
      "tenant_schema_validations", "tenant_provisioning_jobs", "tenant_backup_snapshots",
      "system_metric_samples", "master_keys", "etcd_nodes", "control_mappings",
      "config_changes", "compliance_violations", "breach_alerts", "audit_log_entries",
      "api_endpoint_stats", "anomaly_events", "users", "tenants",
      "schema_validation_results", "incidents", "hsm_slots", "engine_instances",
      "crypto_algorithms", "config_parameters", "compliance_frameworks", "certificates",
      "behavioral_baselines">>

initial_schema ==
    [up   |-> initial_schema_parents \o initial_schema_children \o initial_schema_grandchildren,
     down |-> initial_schema_downgrade]

\* A revision whose downgrade drops what it made, last first.
Revision(objects) ==
    [up |-> objects, down |-> Reverse([i \in DOMAIN objects |-> objects[i].name])]

audit_log_immutability_trigger == Revision(Plain(<<"trg_audit_log_immutable">>))

\* NOT NULL columns without a default: refused while engine_instances has rows.
add_oidc_status_fields_to_engine == Revision(Plain(<<"oidc_status_fields">>))

add_attestation_runs == Revision(Plain(<<"attestation_runs">>))

\* INTEGER to BIGINT; the way back is refused by values that need the width.
widen_byte_size_columns_to_bigint == Revision(Plain(<<"bigint_sizes">>))

audit_log_sequence_as_identity_column == Revision(Plain(<<"sequence_identity">>))

add_refresh_tokens == Revision(<<Table("refresh_tokens", {CascadeTo("users")})>>)

add_tenant_members_and_password_reset_tokens ==
    Revision(<<Table("password_reset_tokens", {CascadeTo("users")}),
               Table("tenant_members", {CascadeTo("tenants"), CascadeTo("users")})>>)

add_compliance_assessments ==
    Revision(<<Table("compliance_assessments", {CascadeTo("compliance_frameworks")})>>)

add_compliance_score_snapshots ==
    Revision(<<Table("compliance_score_snapshots", {CascadeTo("compliance_frameworks")})>>)

add_security_providers_and_operations ==
    Revision(<<Table("security_providers", {}),
               Table("security_operations", {SetNullTo("master_keys")})>>)

add_configurations == Revision(Plain(<<"configurations">>))

add_rbac_tables ==
    Revision(<<Table("roles", {}), Table("permissions", {}),
               Table("user_roles", {CascadeTo("users"), CascadeTo("roles")}),
               Table("role_permissions", {CascadeTo("roles"), CascadeTo("permissions")})>>)

add_notifications_and_alert_rules ==
    Revision(<<Table("notifications", {CascadeTo("users")}), Table("alert_rules", {})>>)

add_operations_tables == Revision(Plain(<<"background_jobs", "application_errors">>))

\* The chain that the down_revision of each file spells.
versions ==
    <<initial_schema, audit_log_immutability_trigger, add_oidc_status_fields_to_engine,
      add_attestation_runs, widen_byte_size_columns_to_bigint,
      audit_log_sequence_as_identity_column, add_refresh_tokens,
      add_tenant_members_and_password_reset_tokens, add_compliance_assessments,
      add_compliance_score_snapshots, add_security_providers_and_operations,
      add_configurations, add_rbac_tables, add_notifications_and_alert_rules,
      add_operations_tables>>

-----------------------------------------------------------------------------
(* Running revisions.  A command is refused if one of its statements is, on   *)
(* the objects that the statements before it have left.                      *)

Objects == UNION {ToSet(versions[k].up) : k \in DOMAIN versions}

Names == {o.name : o \in Objects}

References == [n \in Names |-> UNION {o.refs : o \in {p \in Objects : p.name = n}}]

Referrers == [n \in Names |-> {m \in Names \ {n} : \E r \in References[m] : r[1] = n}]

EngineHasRows == rows["engine_instances"] > 0

Create(objects, o) ==
    /\ o.name \notin objects
    /\ \A r \in o.refs : r[1] \in objects \cup {o.name}
    /\ o.name = "oidc_status_fields" => ~EngineHasRows

Drop(objects, n) ==
    /\ n \in objects
    /\ \A m \in Referrers[n] : m \notin objects
    /\ n = "bigint_sizes" => ~EngineHasRows

\* The objects that a revision makes, and those that its downgrade removes.
Created == [m \in DOMAIN versions |-> {o.name : o \in ToSet(versions[m].up)}]

Removed == [m \in DOMAIN versions |-> ToSet(versions[m].down)]

\* The objects after the revisions from the current one up to k ...
Upgraded(k) == schema \cup UNION {Created[m] : m \in (revision + 1)..k}

UpgradeAccepted(k) ==
    \A m \in (revision + 1)..k : \A i \in DOMAIN versions[m].up :
        Create(Upgraded(m - 1) \cup {versions[m].up[j].name : j \in 1..(i - 1)},
               versions[m].up[i])

\* ... or after taking them back down to k.
Downgraded(k) == schema \ UNION {Removed[m] : m \in (k + 1)..revision}

DowngradeAccepted(k) ==
    \A m \in (k + 1)..revision : \A i \in DOMAIN versions[m].down :
        Drop(Downgraded(m) \ {versions[m].down[j] : j \in 1..(i - 1)}, versions[m].down[i])

head == Len(versions)

\* do_run_migrations: the transaction commits only if every statement succeeds;
\* the rows of a dropped table are gone.
do_run_migrations(k, objects) ==
    /\ schema' = objects
    /\ revision' = k
    /\ rows' = [n \in DOMAIN rows |-> IF n \in objects THEN rows[n] ELSE 0]

\* alembic upgrade, to the head at every start of the container.
upgrade ==
    \E k \in {n \in (revision + 1)..head : UpgradeAccepted(n)} :
        do_run_migrations(k, Upgraded(k))

downgrade ==
    \E k \in {n \in 0..(revision - 1) : DowngradeAccepted(n)} :
        do_run_migrations(k, Downgraded(k))

\* get_migration_status: is_up_to_date.
get_migration_status == revision > 0 /\ revision = head

MigrationsInit ==
    /\ revision = 0
    /\ schema = {}
    /\ rows = [n \in Names |-> 0]

-----------------------------------------------------------------------------
MigrationsTypeOK ==
    /\ revision \in 0..head
    /\ schema \subseteq Names
    /\ rows \in [Names -> Nat]

(* Whatever upgrades, downgrades and seeding came before: the schema is the  *)
(* one its revision stands for, every foreign key has its table, and the     *)
(* head can be reached (docker-entrypoint.sh starts the service only after   *)
(* alembic upgrade head): the one upgrade that refuses existing rows cannot  *)
(* meet any, because the downgrade before it refuses the same rows.          *)
SchemaSound ==
    /\ schema = UNION {Created[k] : k \in 1..revision}
    /\ \A n \in schema : \A r \in References[n] : r[1] \in schema
    /\ UpgradeAccepted(head)
    /\ ~EngineHasRows => DowngradeAccepted(0)

(* What every command and the seed script preserve, and what SchemaSound     *)
(* follows from: engine rows exist only while the sizes are wide.            *)
SchemaInv ==
    /\ MigrationsTypeOK
    /\ schema = UNION {Created[k] : k \in 1..revision}
    /\ EngineHasRows => "bigint_sizes" \in schema

=============================================================================
