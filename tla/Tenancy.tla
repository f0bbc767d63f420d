------------------------------- MODULE Tenancy -------------------------------
(***************************************************************************)
(* Tenants, their provisioning jobs, members and breach alerts             *)
(* (app/services/tenancy_service.py), with the foreign keys of             *)
(* app/models and the append-only trigger on audit_log_entries, which      *)
(* decide what deleting a tenant does.                                     *)
(*                                                                         *)
(* Requests whose effect is that of one statement are one step; advancing  *)
(* a job writes what it computed from the job it has loaded.               *)
(***************************************************************************)
EXTENDS Requests, Sequences, FiniteSetsExt

CONSTANTS
    Slugs,          \* slug and org_id of a tenant
    Members,        \* users that can be members
    Alerts,         \* seeded breach alerts
    MaxTenants,     \* bound: tenants created
    MaxRefs         \* bound: audit entries that name a tenant

ASSUME TenancyAssumption == MaxTenants \in Nat \ {0} /\ MaxRefs \in Nat

VARIABLES
    tenants,        \* table tenants, NULL for no row
    created,        \* tenant ids handed out
    jobs,           \* table tenant_provisioning_jobs, by tenant
    members,        \* table tenant_members
    alerts,         \* table breach_alerts
    auditRefs       \* tenant_id of the audit entries that were written with one

tenancyTables == <<tenants, created, jobs, members, alerts, auditRefs>>

-----------------------------------------------------------------------------
TenantIds == 1..MaxTenants

TenantStatus == {"ACTIVE", "PROVISIONING", "SUSPENDED"}

Tenant == [slug : Slugs, status : TenantStatus]

PROVISIONING_STEPS ==
    <<"org_namespace_created", "network_policy_applied", "schema_migration",
      "dek_generation", "isolation_validation", "initial_snapshot">>

Steps == {PROVISIONING_STEPS[i] : i \in 1..Len(PROVISIONING_STEPS)}

TenantProvisioningJob == [status : {"RUNNING", "COMPLETE"},
                          completed_steps : Seq(Steps),
                          current_step : {NULL} \cup Steps]

TenantMember == [tenant : TenantIds, user : Members]

BreachAlert == [tenant : {NULL} \cup TenantIds, dismissed : BOOLEAN]

\* History: `written' is the tenant_id the entry was appended with.
AuditRef == [tenant_id : {NULL} \cup TenantIds, written : TenantIds]

TenancyRequest ==
    [op : {"advance"}, tenant : TenantIds, job : TenantProvisioningJob, status : TenantStatus]

ASSUME TenancyNoRow ==
    /\ NULL \notin Tenant
    /\ NULL \notin TenantProvisioningJob
    /\ NULL \notin TenantIds

Exists(t) == tenants[t] # NULL

-----------------------------------------------------------------------------
(* Provisioning *)

\* The positions of the steps that are not completed; the first of them is due.
Remaining(done) ==
    {i \in 1..Len(PROVISIONING_STEPS) :
       \A k \in 1..Len(done) : done[k] # PROVISIONING_STEPS[i]}

Due(left) == PROVISIONING_STEPS[Min(left)]

\* create_tenant: the tenant and its job in one commit; 409 when the slug or
\* the org_id is taken.
create_tenant(s, slug) ==
    /\ created < MaxTenants
    /\ \A t \in TenantIds : Exists(t) => tenants[t].slug # slug
    /\ Instant(s)
    /\ created' = created + 1
    /\ tenants' = [tenants EXCEPT ![created + 1] = [slug |-> slug, status |-> "PROVISIONING"]]
    /\ jobs' = [jobs EXCEPT ![created + 1] = [status |-> "RUNNING", completed_steps |-> << >>,
                                              current_step |-> PROVISIONING_STEPS[1]]]
    /\ UNCHANGED <<members, alerts, auditRefs>>

\* advance_provisioning_job loads the job with its tenant; nothing to do when
\* no step remains.
advance_provisioning_job(s, t) ==
    /\ Exists(t)
    /\ Remaining(jobs[t].completed_steps) # {}
    /\ Begin(s, [op |-> "advance", tenant |-> t, job |-> jobs[t], status |-> tenants[t].status])
    /\ UNCHANGED tenancyTables

\* The job as the request computes it from the one it loaded.
Advanced(j) ==
    LET done == Append(j.completed_steps, Due(Remaining(j.completed_steps)))
        left == Remaining(done)
    IN  [j EXCEPT !.completed_steps = done,
                  !.current_step = IF left = {} THEN NULL ELSE Due(left)]

Completes_early(j) == Cardinality(Remaining(j.completed_steps)) <= 1

\* After the last step the job is COMPLETE and its tenant ACTIVE.
Completes(j) == Remaining(j.completed_steps) = {}

\* The commit writes the attributes that changed: the steps always, the status
\* of job and tenant after the last step, the tenant's only if it was loaded
\* with another one.  It fails when the rows have been deleted.
AdvanceCommit(s) ==
    LET t   == req[s].tenant
        new == Advanced(req[s].job)
    IN  /\ req[s].op = "advance"
        /\ Exists(t)
        /\ jobs' = [jobs EXCEPT ![t].completed_steps = new.completed_steps,
                                ![t].current_step = new.current_step,
                                ![t].status = IF Completes(new) THEN "COMPLETE" ELSE @]
        /\ tenants' = IF Completes(new) /\ req[s].status # "ACTIVE"
                      THEN [tenants EXCEPT ![t].status = "ACTIVE"] ELSE tenants
        /\ Finish(s)
        /\ UNCHANGED <<created, members, alerts, auditRefs>>

-----------------------------------------------------------------------------
(* The other operations *)

\* set_tenant_status, from the activate and deactivate endpoints.
set_tenant_status(s, t, v) ==
    /\ Exists(t)
    /\ Instant(s)
    /\ tenants' = [tenants EXCEPT ![t].status = v]
    /\ UNCHANGED <<created, jobs, members, alerts, auditRefs>>

\* ON DELETE SET NULL of audit_log_entries.tenant_id.
SetNull(t) == [i \in 1..Len(auditRefs) |->
                 [auditRefs[i] EXCEPT !.tenant_id = IF @ = t THEN NULL ELSE @]]

No_trigger(refs) == TRUE

\* The trigger raises, and so rolls back, when a statement changes an entry.
reject_audit_log_mutation(refs) == refs = auditRefs

\* delete_tenant: jobs and members go with the tenant (ORM and foreign key
\* cascade), alerts and audit entries lose their reference.
delete_tenant(s, t) ==
    /\ Exists(t)
    /\ reject_audit_log_mutation(SetNull(t))
    /\ Instant(s)
    /\ tenants' = [tenants EXCEPT ![t] = NULL]
    /\ jobs' = [jobs EXCEPT ![t] = NULL]
    /\ members' = {m \in members : m.tenant # t}
    /\ alerts' = [a \in Alerts |-> [alerts[a] EXCEPT !.tenant = IF @ = t THEN NULL ELSE @]]
    /\ auditRefs' = SetNull(t)
    /\ UNCHANGED created

\* add_tenant_member: 409 on the unique (tenant, user).
add_tenant_member(s, t, u) ==
    /\ Exists(t)
    /\ [tenant |-> t, user |-> u] \notin members
    /\ Instant(s)
    /\ members' = members \cup {[tenant |-> t, user |-> u]}
    /\ UNCHANGED <<tenants, created, jobs, alerts, auditRefs>>

remove_tenant_member(s, m) ==
    /\ Instant(s)
    /\ members' = members \ {m}
    /\ UNCHANGED <<tenants, created, jobs, alerts, auditRefs>>

dismiss_breach_alert(s, a) ==
    /\ Instant(s)
    /\ alerts' = [alerts EXCEPT ![a].dismissed = TRUE]
    /\ UNCHANGED <<tenants, created, jobs, members, auditRefs>>

\* create_anomaly_event with a tenant_id, whose audit entry names the tenant;
\* the foreign key wants the tenant to exist.
AuditNamesTenant(s, t) ==
    /\ Exists(t)
    /\ Len(auditRefs) < MaxRefs
    /\ Instant(s)
    /\ auditRefs' = Append(auditRefs, [tenant_id |-> t, written |-> t])
    /\ UNCHANGED <<tenants, created, jobs, members, alerts>>

-----------------------------------------------------------------------------
\* The seeded tenant whose provisioning is under way, and its alerts.
TenancyInit ==
    /\ \E g \in Slugs : tenants = [[t \in TenantIds |-> NULL] EXCEPT
                                     ![1] = [slug |-> g, status |-> "PROVISIONING"]]
    /\ created = 1
    /\ jobs = [[t \in TenantIds |-> NULL] EXCEPT
                 ![1] = [status |-> "RUNNING", current_step |-> "schema_migration",
                         completed_steps |-> <<"org_namespace_created",
                                               "network_policy_applied">>]]
    /\ members = {}
    /\ alerts = [a \in Alerts |-> [tenant |-> 1, dismissed |-> FALSE]]
    /\ auditRefs = << >>

TenancyNext ==
    \/ \E s \in Sessions, g \in Slugs : create_tenant(s, g)
    \/ \E s \in Sessions, t \in TenantIds :
         \/ advance_provisioning_job(s, t)
         \/ delete_tenant(s, t)
         \/ AuditNamesTenant(s, t)
         \/ \E v \in {"ACTIVE", "SUSPENDED"} : set_tenant_status(s, t, v)
         \/ \E u \in Members : add_tenant_member(s, t, u)
    \/ \E s \in Sessions : \E m \in members : remove_tenant_member(s, m)
    \/ \E s \in Sessions, a \in Alerts : dismiss_breach_alert(s, a)
    \/ \E s \in Sessions : \/ AdvanceCommit(s)
                           \/ Abort(s) /\ UNCHANGED tenancyTables

-----------------------------------------------------------------------------
TenancyTypeOK ==
    /\ tenants \in [TenantIds -> {NULL} \cup Tenant]
    /\ created \in 0..MaxTenants
    /\ jobs \in [TenantIds -> {NULL} \cup TenantProvisioningJob]
    /\ members \subseteq TenantMember
    /\ alerts \in [Alerts -> BreachAlert]
    /\ auditRefs \in Seq(AuditRef)

\* The first steps are completed and the next one is the current one.
StepsInOrder(j) ==
    LET n == Len(j.completed_steps)
    IN  /\ n <= Len(PROVISIONING_STEPS)
        /\ j.completed_steps = SubSeq(PROVISIONING_STEPS, 1, n)
        /\ j.current_step = IF n = Len(PROVISIONING_STEPS) THEN NULL
                            ELSE PROVISIONING_STEPS[n + 1]

(* Whatever requests overlap (advance_provisioning_job,                      *)
(* provisioning_job_to_read): the completed steps are the first ones, in     *)
(* order and without repetition, the current step is the next one, a job     *)
(* with all its steps is COMPLETE, and the tenant of a COMPLETE job has left *)
(* PROVISIONING.  As long as requests do not overlap a COMPLETE job has all  *)
(* its steps.  (A stale advance that commits last takes steps back and       *)
(* leaves COMPLETE.)                                                         *)
ProvisioningInOrder ==
    \A t \in TenantIds : Exists(t) =>
      LET j == jobs[t]
          n == Len(j.completed_steps)
      IN  /\ StepsInOrder(j)
          /\ n = Len(PROVISIONING_STEPS) => j.status = "COMPLETE"
          /\ j.status = "COMPLETE" => tenants[t].status # "PROVISIONING"
          /\ ~overlapped /\ j.status = "COMPLETE" => n = Len(PROVISIONING_STEPS)

(* The audit trail keeps naming the tenant it was written for, and that      *)
(* tenant keeps existing: no sequence of requests, a delete_tenant included, *)
(* clears or dangles the tenant_id of an audit entry, because the trigger    *)
(* makes the delete fail as a whole.  The other rows that refer to a tenant  *)
(* go with it or are detached.                                               *)
TenantReferencesIntact ==
    /\ \A i \in 1..Len(auditRefs) : /\ auditRefs[i].tenant_id = auditRefs[i].written
                                    /\ Exists(auditRefs[i].written)
    /\ \A m \in members : Exists(m.tenant)
    /\ \A a \in Alerts : alerts[a].tenant # NULL => Exists(alerts[a].tenant)
    /\ \A t \in TenantIds : Exists(t) <=> jobs[t] # NULL

-----------------------------------------------------------------------------
TenancySpec == RequestsInit /\ TenancyInit /\ [][TenancyNext]_<<reqVars, tenancyTables>>

\* What an advance under way has loaded: a job with a step left, of a tenant
\* whose id is not handed out again; if the tenant was ACTIVE it does not go
\* back to PROVISIONING.  Until requests overlap the job is as it was loaded.
AdvanceLoaded(s) ==
    LET t == req[s].tenant
    IN  /\ StepsInOrder(req[s].job)
        /\ Len(req[s].job.completed_steps) < Len(PROVISIONING_STEPS)
        /\ t <= created
        /\ req[s].status = "ACTIVE" /\ Exists(t) => tenants[t].status # "PROVISIONING"
        /\ ~overlapped => Exists(t) /\ req[s].job = jobs[t]

\* Inductive strengthening of ProvisioningInOrder and TenantReferencesIntact.
TenancyInv ==
    /\ TenancyTypeOK /\ RequestsOf(TenancyRequest) /\ OneRequest
    /\ \A t \in TenantIds : Exists(t) => t <= created
    /\ \A s \in Sessions : req[s] # Idle => AdvanceLoaded(s)
    /\ ProvisioningInOrder
    /\ TenantReferencesIntact

=============================================================================
