----------------------------- MODULE MCServices -----------------------------
(***************************************************************************)
(* Model-checking instance of the smaller services: tokens and passwords,  *)
(* administration of roles, notifications, tenancy, compliance and the     *)
(* posture reports.  A behaviour exercises one of them and leaves the      *)
(* tables of the others alone: no module reads a column that another one   *)
(* writes, so what can be reached is their union.                          *)
(***************************************************************************)
EXTENDS AuthTokens, Rbac, Notifications, Tenancy, Compliance, SecurityPosture, TenantPosture, TLC

VARIABLE service    \* the service a behaviour is about

administrationTables == <<authTables, rbacTables, notesTables, tenancyTables>>

reportTables == <<complianceTables, postureTables, tenantPostureTables>>

vars == <<service, reqVars, administrationTables, reportTables>>

\* A service that is not exercised starts in one of its initial states only.
Init ==
    /\ service \in {"auth", "rbac", "notifications", "tenancy",
                    "compliance", "security", "posture"}
    /\ RequestsInit /\ AuthInit /\ RbacInit /\ TenancyInit
    /\ service # "notifications" => notes = CHOOSE f \in [Inbox -> Unread] : TRUE
    /\ NotesInit
    /\ service # "compliance" => mappings = [f \in Frameworks |-> [d \in Domains |-> NULL]]
    /\ ComplianceInit
    /\ service # "security" =>
         /\ keys = [k \in KeyRows |-> CHOOSE x \in MasterKey : TRUE]
         /\ certs = [c \in CertRows |-> CHOOSE x \in Expiries : TRUE]
         /\ slots = [l \in SlotRows |-> CHOOSE x \in ObjectCounts : TRUE]
         /\ providers = [p \in ProviderRows |-> CHOOSE x \in SecurityProvider : TRUE]
         /\ runs = << >>
    /\ PostureInit
    /\ service # "posture" =>
         /\ posture = [t \in TenantRows |-> CHOOSE x \in TenantRow : TRUE]
         /\ snapshots = [x \in Snapshots |-> CHOOSE y \in TenantBackupSnapshot : TRUE]
    /\ TenantPostureInit

AdministrationNext ==
    \/ /\ service = "auth" /\ AuthNext
       /\ UNCHANGED <<rbacTables, notesTables, tenancyTables>>
    \/ /\ service = "rbac" /\ RbacNext
       /\ UNCHANGED <<authTables, notesTables, tenancyTables>>
    \/ /\ service = "notifications" /\ NotesNext
       /\ UNCHANGED <<authTables, rbacTables, tenancyTables>>
    \/ /\ service = "tenancy" /\ TenancyNext
       /\ UNCHANGED <<authTables, rbacTables, notesTables>>

ReportsNext ==
    \/ /\ service = "compliance" /\ ComplianceNext
       /\ UNCHANGED <<postureTables, tenantPostureTables>>
    \/ /\ service = "security" /\ PostureNext
       /\ UNCHANGED <<complianceTables, tenantPostureTables>>
    \/ /\ service = "posture" /\ TenantPostureNext
       /\ UNCHANGED <<complianceTables, postureTables>>

Next ==
    /\ UNCHANGED service
    /\ \/ AdministrationNext /\ UNCHANGED reportTables
       \/ ReportsNext /\ UNCHANGED administrationTables

Spec == Init /\ [][Next]_vars

(* Type invariant of the services and of the requests in flight. *)
TypeOK ==
    /\ AuthTypeOK /\ RbacTypeOK /\ NotesTypeOK /\ TenancyTypeOK
    /\ ComplianceTypeOK /\ PostureTypeOK /\ TenantPostureTypeOK
    /\ \A s \in Sessions : \/ req[s] = Idle
                           \/ req[s] \in CASE service = "auth" -> AuthRequest
                                           [] service = "rbac" -> RbacRequest
                                           [] service = "notifications" -> NotesRequest
                                           [] service = "tenancy" -> TenancyRequest
                                           [] service = "compliance" -> ComplianceRequest
    /\ overlapped \in BOOLEAN

(* Endpoints that report the same facts agree, whatever was written and      *)
(* whatever the time: compliance overview, summary, gaps and assessments;    *)
(* HSM overview, summary and health; tenancy overview and tenant usage.      *)
ViewsAgree ==
    /\ service = "compliance" => ComplianceViewsAgree
    /\ service = "security" => SecurityViewsAgree
    /\ service = "posture" => TenantViewsAgree

(* What is stamped with a time is stamped once, whatever request comes later *)
(* and as long as requests do not overlap: the reading of a notification and *)
(* the completion of an assessment.                                          *)
StampedOnce == [][ReadOnce /\ CompletedOnce]_<<notes, assessments, reqVars>>

-----------------------------------------------------------------------------
(* Inductive strengthening: the service that is exercised keeps its own       *)
(* invariant, the tables of the others stay as they are, and attestation and  *)
(* the update of a tenant are requests of one step.                           *)
ServicesInv ==
    /\ service \in {"auth", "rbac", "notifications", "tenancy",
                    "compliance", "security", "posture"}
    /\ AuthTypeOK /\ RbacTypeOK /\ NotesTypeOK /\ ReadAtSet /\ TenancyTypeOK
    /\ ComplianceTypeOK /\ PostureTypeOK /\ TenantPostureTypeOK
    /\ service = "auth" => RotationInv
    /\ service = "rbac" => RbacInv
    /\ service = "notifications" => NotesInv
    /\ service = "tenancy" => TenancyInv
    /\ service = "compliance" => ComplianceInv
    /\ service \in {"security", "posture"} => RequestsOf({}) /\ OneRequest

Symmetry == Permutations(Sessions) \cup Permutations(Permissions)

=============================================================================
