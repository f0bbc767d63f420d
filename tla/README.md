# TLA+ verification of the Vixa system-config backend

The program is a FastAPI service over PostgreSQL: engine configuration, a
hash-chained audit log, HSM key management, tenants, users, anomalies,
compliance. It has no background threads of its own. What makes it hard is that
every HTTP request is a coroutine with one SQLAlchemy session, that is one
READ COMMITTED transaction, and that many requests, in one worker process or in
several, interleave at every `await db.execute`. The repository's tests share a
single session (`tests/conftest.py`), so no test has ever run two requests at
once. The models here are about what happens when they do, and about long
sequences of calls when they do not.

## How a request is modelled

All modules follow `app/db/session.py:15-25` (`expire_on_commit=False`,
`autoflush=False`, one session per request) and PostgreSQL's READ COMMITTED:

* a SELECT sees what is committed at that moment plus the session's own rows;
* what was loaded stays as loaded: guards and new values are computed from it,
  and a row loaded twice keeps the attributes of the first load;
* a flush UPDATEs only the columns whose value differs from the loaded one;
* a flushed row is locked, and an INSERT reserves its unique key, until the
  transaction ends;
* a request may fail at any point (an early return with 404, 409 or 422, an
  `IntegrityError`, a lost connection, a deadlock PostgreSQL breaks); then
  nothing it wrote remains. This is `Rollback` in every module.

A handler is split into one action per database round trip after which another
request can make a difference. Where the flush comes right before the commit the
two are one step, because in between nobody else can see or write the rows. A
request whose whole effect is that of one statement is one step as well.

`Requests` states this once for the smaller services: `Begin`, `Continue`,
`Finish`, `Abort` and `Instant` are the life of a request, `overlapped` is a
history variable that turns TRUE when two requests are under way at once. The
four older models (audit log, parameters, documents, keys) have the same
discipline written out, with the row locks and unique keys they need.

## Inventory

| Component | State | Operations that change it | Hard behaviour | Module |
|---|---|---|---|---|
| Audit log (`audit_service`, `models/audit`, `core/crypto`) | `audit_log_entries`, identity `sequence` | `append_entry_in_transaction`, `append_entry` | tail read and insert are separate; sequence order is not commit order; rollbacks | `AuditLog`, `AuditLedger`, `AuditLogProofs` |
| Audit readers | none | none (`export_entries`, `list_entries`; `verify_chain` is in `AuditLog`) | count and rows read at different moments, a cap, pages that move | `AuditReaders`, `LifecycleProofs` |
| Signing key (`core/crypto`) | key file, key in memory | `get_signing_key`, `sign_hex_digest` | several processes at first boot, crashes, a file truncated before it is filled | `SigningKey`, `LifecycleProofs` |
| Audit immutability trigger (a migration) | none | refuses UPDATE and DELETE on the audit table | `ON DELETE SET NULL` is an UPDATE | in `Tenancy`, `SeedData`, `Migrations` |
| Engine parameters (`config_service`, first half) | `config_parameters`, `config_changes` | stage, revert, apply | stale loads, lost updates, several change records per parameter, all-or-nothing apply | `ConfigParameters`, `ConfigParametersProofs` |
| Configuration documents (second half) | `configurations` | create, successor, import, activate, archive, rollback, soft delete | version numbering race, one ACTIVE version | `Configurations`, `ConfigurationsProofs` |
| Master keys and ceremonies (`hsm_service`) | `master_keys`, `key_ceremonies`, `key_custodian_approvals` | create/rotate/disable key, create/approve/complete ceremony | check-then-act on approvals, ceremonies and key status | `MasterKeys`, `MasterKeysProofs` |
| HSM reports (`hsm_service`) | `attestation_runs` | `run_attestation` | statuses computed from the clock at their thresholds, in several endpoints | `SecurityPosture`, `ServicesProofs` |
| Authentication (`auth_service`) | `users`, `refresh_tokens`, `password_reset_tokens` | login, refresh, logout, password change, forgotten password, reset, account switch | single-use tokens redeemed twice, revocation racing a refresh, a crash between two commits | `AuthTokens`, `AuthTokensProofs` |
| Tenancy (`tenancy_service`) | `tenants`, provisioning jobs, members, alerts | create, update, set status, delete, advance job, members, dismiss | stale advance; delete against foreign keys and the audit trigger; two definitions of a current backup | `Tenancy`, `TenantPosture`, `ServicesProofs` |
| Anomalies (`anomaly_service`) | `anomaly_events` and their audit entries | create, status update, bulk update | previous status recorded from a stale load; bulk updates deadlock | `Anomalies`, `LifecycleProofs` |
| RBAC (`rbac_service`) | `users`, `roles`, `role_permissions`, `user_roles` | users, roles, permission sets, assignments | rows deleted by the ids that were loaded; 404 after a partial insert | `Rbac`, `ServicesProofs` |
| Notifications (`notification_service`) | `notifications`, `alert_rules` | mark read, mark all read, rules | a mark and a mark-all meet | `Notifications`, `ServicesProofs` |
| Compliance (`compliance_service`) | `compliance_assessments` | start, complete | four reports derived from one table; completing twice | `Compliance`, `ServicesProofs` |
| Migrations (`alembic`) | the schema | 15 revisions up and down | order of foreign keys, refusals by existing rows | `Migrations`, `LifecycleProofs` |
| Seed script (`scripts/seed_data.py`) | all demo tables | wipe and 15 seed functions | crash between transactions, rerun, rows of the running service | `SeedData`, `LifecycleProofs` |
| Operations | none | none (`get_migration_status` is in `Migrations`) | none | partly |
| Engine, dashboard, system | none | none | none: read-only aggregation | not modelled |
| HTTP layer, schemas | none | none | none | not modelled |

Components interact through calls inside one transaction: `apply_pending_changes`,
`activate_configuration`, `rollback_configuration` and every key or ceremony
operation call `append_entry_in_transaction`, and their own commit commits the
audit entry with the change. `AuditLog` therefore models a transaction that
appends any number of entries; the other modules record in their own state
(`audit`, `lastAudited`, `history`, `auditRefs`) only what their properties need
of those entries. `Tenancy` and `SeedData` meet the trigger that the migrations
install: a delete that would clear `tenant_id` in an audit entry fails as a
whole. `SeedData` extends `Migrations`, because the tables it empties, the
cascades and the trigger are those of the schema it runs on.

## Modules

### AuditLog and AuditLedger

`rows` are the committed entries, `pending[s]` the entries session `s` has
inserted and not committed, `prev[s]` the `prev_hash` local between the SELECT
of the tail and the INSERT, `nextSeq` the identity column. A digest is the
sequence of contents it commits to, which makes SHA-256 injective and nothing
else; a signature is the digest it was made from. `ReadTail` and `Insert` are
the two halves of `append_entry_in_transaction`; `InsertDuplicate`, the
"waiting" state and `InsertResumes` are the unique index on `entry_hash`;
`Commit` and `Rollback` end the transaction. `verify_chain` is an operator with
the fields of the code's result. As in the code, the hash a row should extend
is the one stored in the row before it. `unhashed` are the columns that go into
no hash (id, tenant_id, signing_key_id, created_at). `VerifyChainVerdict` states
what `verify_chain` says when one row was tampered with, the cases it does not
notice included.

`AuditLedger` is the promise to readers: one sequence that transactions extend.
`ImplementsLedger` maps it to the root hash of the committed rows.

* `PrevPersisted` (any interleaving): no committed entry points at an entry that
  is not committed before it. An entry that was rolled back was never extended.
* `ChainIntact` (writers that do not overlap): `verify_chain` accepts the log.
* `VerifyChainVerdict`: in an intact log a row whose hashed columns, link, hash or
  signature were overwritten is the first break reported; a column outside the
  hash can be overwritten unnoticed, unless a new sequence moves the row past
  another; a removed row shows at the row after it, and the newest not at all.
* `BreaksEveryLaterRow` (violated) is what the docs claim of an altered or deleted
  row, that every row after it fails; the walk goes on from the stored hash, and
  of the columns only ten are hashed.
* `ImplementsLedger` (writers that do not overlap).

### ConfigParameters

`params`, `changes` and `audit` are the committed tables (of the audit log only
the PARAMETER_UPDATED entries), `req[s]` holds the ORM objects and locals of a
request. `ApplySelect` lets `.first()` return any PENDING record since the query
has no ORDER BY. `ApplyFlush` is one turn of the loop, with the row locks it
takes; `ApplyCommit` is the single commit. `Allowed` stands for
`_validate_value`, `audit_value` for the redaction of sensitive values.

* Any interleaving: `Provenance`, `AuditedPromotion`, `AllOrNothing`.
* As long as no two requests overlapped: `AuditTrail`, `StagedHasOpenRecord`.

### Configurations

`rows` are the committed versions, soft-deleted ones included; `req[s].mine` the
rows inserted and not committed. `LoadConfiguration` is `_get_configuration_orm`
with the early returns (`Accepts`), `ReadVersion` is `_next_version`,
`ReadCurrent` is `_active_configuration`, `Insert` the flush of a new row
guarded by the unique constraint (`Taken`). Payloads and checksums are left out:
no row's payload ever changes.

* Any interleaving: `VersionsContiguous`, `HandoverAtomic`.
  `HandoverAtomic` takes the column status as it is: an ACTIVE version that is
  soft-deleted counts as ACTIVE.
* As long as no two requests overlapped: `OneActiveIfSerial`, `ActiveIsLastAudited`.
* Violated when they do: `OneActive`.

### MasterKeys

`keys` maps a label to its row, `ceremonies` holds the ceremonies with each
custodian's approval rows, TRUE when `approved_at` is set. `approval_count` counts
those, as the code does. The endpoints insert a row only with its time, but the
seed script leaves a pending ceremony in which some of the invited custodians have
a row without one: `Init` has that ceremony, with any choice of rows
(`Seeded_ceremony`; `invited` remembers who had one), or none. An approval updates
the custodian's row if there is one and inserts one if there is none
(`ApproveLoadRelated`, `CommitApprove`). Each operation is its loads followed by
its commit. `complete_ceremony` does not look at the status of the key, and
neither does `CommitComplete`. The ceremony the seed script leaves completed, and
the keys it leaves retired, are not in `Init`: no handler acts on them again.

* Any interleaving: `ActivationNeedsQuorum`; and `QuorumOfInvited`, one half of
  `ApproversCountedOnce` (a ceremony that only custodians with a row from the
  start approved has as many different approvers as it requires: overlapping
  approvals of one update the same row).
* Violated when requests overlap: `QuorumOfCustodians` (a custodian without a row
  gets two).
* As long as no two requests overlapped: `RetiredHasSuccessor`,
  `QuorumIfSerial`, `PendingCeremonyIsCurrent`.

### AuthTokens

`users`, `tokens` and `resets` are the tables; `hashes` numbers the password
hashes, which are salted and so never repeat. A refresh is four steps
(`refresh`, `RedeemLoadUser`, `RedeemCommit`, `issue_refresh_token`) in two
transactions. `parent` and `era` of a token, and `uses` of a reset token, are
history. `Expire` is `expires_at` passing.

* Any interleaving and any crash: `RotationRevokes`.
* Until requests overlap: `SingleUseIfSerial`, `SessionsOfCurrentPasswordIfSerial`.

### Rbac

Links between roles, permissions and users have ids, and what a request deletes
are the ids it loaded (`ReplacedLinks`), so a removal can miss rows that an
overlapping request inserted. `requested` remembers what updates asked for.
`create_user` flushes the account, SELECTs the requested roles (`SelectRoles`,
which keeps what it `found` and goes on only if that is all of them) and commits
account and grants together. Permissions are seeded: `create_permission` has no
endpoint. A PATCH of a role is enumerated with its name and switch, or with its
permissions.

* `PermissionsAsRequested`: any interleaving for the permissions that must be
  there, until requests overlap for those that must not.
* Any interleaving: `AccountsCreatedWhole` (an account appears with exactly the
  roles that were asked for, or not at all).

### Notifications

Reading a notification loads and then commits; `mark_all_read` is one UPDATE.
Alert rules have a unique name, stale updates and deletes.

* `ReadOnce`, checked as part of `StampedOnce`: read notifications stay read and
  counts never grow; until requests overlap the time of reading stays.

### Tenancy and TenantPosture

`Tenancy` has tenants with their jobs, members and alerts, and of the audit log
the `tenant_id` of entries. `advance_provisioning_job` computes from the loaded
job; `delete_tenant` runs every foreign key's action and then the trigger.
`TenantPosture` has the columns `update_tenant` writes, the score and level
derived from them, and the backups as two endpoints see them.

* Any interleaving: `ProvisioningInOrder` (its last conjunct until requests
  overlap), `TenantReferencesIntact`.
* At every hour: `TenantViewsAgree` ("the two endpoints never disagree"), part
  of `ViewsAgree`.

### Compliance

The seeded mappings are any assignment of statuses to framework and domain.
`control_coverage`, `get_compliance_summary`, `get_gaps` and `Assessed` are what
four endpoints compute from them, with the rounding of the code (`round()` takes a
tie to the even neighbour).

* `ComplianceViewsAgree`, part of `ViewsAgree`; `CompletedOnce`, part of `StampedOnce`.

### SecurityPosture

Keys, certificates, slots and providers are any rows that `MasterKeys` and the
seed script can leave. Time is in half days, because `timedelta.days` rounds
down and the thresholds are in days. Every attestation run passes all its checks
in the code, so no run of the model fails.

* `SecurityViewsAgree`, part of `ViewsAgree`: list, overview, summary and health
  agree on what expires, what is critical and what was attested.

### Anomalies

A request loads rows, then flushes one and appends its audit entry at a time
(`append_anomaly_audit`), then commits (`UpdateCommit`). The flush of a changed
row takes its lock; `WaitsFor` says whose lock stops it, `DeadlockAbort` is
PostgreSQL's deadlock detector. `bulk_update_anomaly_status` takes its rows in
any order, since its SELECT has none. `Init` has no anomalies: the ones the seed
script inserts (`seed_data.py:357-374`) have no creation entry in the audit log, so
their history is not one the properties speak of.

* Any interleaving, abort or deadlock: `HistoryEndsInStatus`.
* Until requests overlap: `HistoryChainsIfSerial`.
* Under fairness: `RequestsEnd`.

### AuditReaders

Writers insert (taking the sequence number) and commit in any order. The export
counts in one statement and selects in the next; a client lists page after page,
newest first, until a page is not full.

* Any interleaving: `ListingComplete`, and the first half of `ExportHonest`
  (`truncated` is never set without something missing).
* While commits keep the order of the sequence numbers: the second half (an
  export that is not marked has everything that was counted).

### SigningKey

`keyFile` is missing, truncated or holds a key; each process is at a place of
`get_signing_key` and keeps its key in memory. Any process crashes at any point
and starts again.

* `SignaturesVerify`: unless two processes were making a key at once, every
  entry ever signed verifies in every process, now and after any restart. A
  process that crashes between truncating and filling the file leaves a file no
  later process can load; then nothing was signed and nothing will be.

### Migrations and SeedData

A revision is what its `upgrade` creates and what its `downgrade` drops, in
order; `Create` and `Drop` refuse what PostgreSQL refuses (a missing or a still
referenced table, a NOT NULL column without default while rows exist, a value
too wide for the old type). A command is one transaction: it is accepted if every
statement is, each on the objects that the statements before it leave
(`UpgradeAccepted`, `DowngradeAccepted`). `SeedData` adds the script: `Wipe` with
the cascades of the schema, one transaction per seed function, `Exit` at any
point, reruns, `Use` by the running service, `Migrate` in between. `seed_rbac`
deletes every account but the admin's, with what cascades from those accounts
(`AccountsDeleted`): which rows those are depends on who owned them, so the model
lets any rows of the cascading tables go. What the running service deletes during
a run is not modelled (`Use` only adds rows).

* `SchemaSound`: whatever commands came before, the schema is that of its
  revision, the head can be reached, and an empty database can be downgraded.
* `SeedConverges`: a run that completes leaves one copy of the demo rows and
  nothing older but audit entries and the admin's tokens (`Lasting`), whatever
  crashed before.

`AuditDemoAnomaly` names a tenant in an audit entry, as a status change of a demo
anomaly does. From then on the wipe is refused (`WipeFails`): clearing
`tenant_id` would update an audit entry. The script's docstring (`seed_data.py:5`)
says that "re-running clears and repopulates the domain tables".

The modules of requests, except `AuditLog`, carry the history variable
`overlapped`. It lets one run check what holds for
every interleaving and what holds only until requests overlap. `AuditLog` has a
separate specification, `SerialSpec`, because implementing the ledger is a claim
about whole behaviours in which writers never overlap.

## Runs

| Run | Question | Answer |
|---|---|---|
| `audit_concurrent` | 3 sessions, 4 sequence values, any order of reads, inserts, commits, rollbacks | `PrevPersisted` holds |
| `audit_serial` | writers one at a time, 5 entries | `ChainIntact`, `VerifyChainVerdict`, `ImplementsLedger` hold |
| `audit_fork` | `ChainIntact` with 2 overlapping writers | violated: both extend the same tail |
| `audit_cascade` | `BreaksEveryLaterRow`: does every row after an altered or deleted one fail? | violated: only the altered row, or the next, does |
| `params` | 2 requests, a plain and a sensitive parameter, 2 staged changes | all hold |
| `params_change_record` | one request at a time, 3 staged changes: is the record marked APPLIED the one of the promoted value? | violated: `.first()` may close a replaced one |
| `configurations` | 2 requests on one name, 3 versions | all hold |
| `configurations_two_active` | `OneActive` with 2 overlapping requests | violated: two activations, two ACTIVE versions |
| `keys` | 2 requests, 2 labels, 2 ceremonies (the first seeded or not), 2 custodians, 2 approvals required | all hold |
| `keys_quorum` | `QuorumOfCustodians` with overlapping approvals | violated: one custodian counted twice |
| `services` | 2 overlapping requests of one of seven smaller services, time passing | all hold |
| `lifecycle` | anomalies (2 requests, 2 rows), readers of a growing log, 2 processes and the key file, migrations with 2 runs of the seed script | all hold, and every anomaly request ends |

The five violations are disagreements between the code and what its docs,
docstrings or tests say; `PROJECT.json` quotes the lines under `findings`.

**Races that have no run of their own.** A property guarded by `~overlapped` (or by
`~raced` of the signing key) says that the code is right until requests overlap; it
does not catch the race. Six claims are named definitions, true until then and
false afterwards. TLC shows each race when the definition is the INVARIANT of the
component's configuration:

| Definition | Claim | What happens |
|---|---|---|
| `ActiveKept` (`Configurations`) | "Cannot delete an active configuration" (`config_service.py:453`) | activated after delete looked, then soft-deleted |
| `OnePendingCeremony` (`MasterKeys`) | "A pending ceremony already exists for this key" (`hsm_service.py:274`) | two requests find none and insert one each |
| `RefreshSingleUse` (`AuthTokens`) | "the presented token is revoked (single use)" (`auth_service.py:54`) | two redemptions, two successors |
| `ResetSingleUse` (`AuthTokens`) | "a single-use password reset token" (`auth_service.py:116`) | two resets, two passwords |
| `SessionsOfCurrentPassword` (`AuthTokens`) | "the user must re-authenticate everywhere" (`auth_service.py:90`) | a token is issued after the change revoked those it found |
| `SignedWithFile` (`SigningKey`) | "generated on first boot and persisted to disk" (`core/crypto.py:3`) | two processes sign with two keys, the file holds one |

In the same way two overlapping replacements of a role's permissions leave both
sets, so the second half of `PermissionsAsRequested` needs its guard ("replaces the
role's permission set wholesale", `schemas/rbac.py:55`). For the remaining races
(stage against revert, a stale completion against a rotation, two status changes,
two marks or completions) nothing in the repository says which request should win.
The notes of the hazards in `PROJECT.json` say what holds under every interleaving.

**Bounds.** Two requests are enough for every race here: each is between one
reader and one writer. The audit log gets a third session, so that a rollback, a
late commit and an append that depends on neither can meet. Three versions allow
an ACTIVE one, the one that replaces it and a third created by a rollback; two
changes allow a parameter to be staged twice or both parameters to be staged
before an apply; two ceremonies allow a key to have two pending ones. The value
`c` is refused for the sensitive parameter, so `_validate_value` matters.
Sessions (and labels, custodians or contents that no constant names) are
interchangeable, hence the symmetry sets; every property in a run with symmetry
is an invariant or an action property. The `keys` runs switch deadlock checking
off: when all labels of the instance are used and all keys retired or disabled,
nothing is left to do.

`services` and `lifecycle` put several modules in one instance. `Init` chooses
the service (or subject), the tables of the others stay as they are: each module
holds the columns its own properties are about and none writes those of another,
so what can be reached is the union of what each reaches alone. Deadlock
checking is off because the instance's ids, hashes and times run out; the one
place where requests wait for one another, the row locks of anomalies, has
`RequestsEnd`. Bounds: three issued tokens, reset tokens and passwords together
are enough for a login, its refresh and a second refresh or a new password; six
provisioning steps are those of the code, and a seeded tenant starts at its
third; expiries of 1 and 63 half days cross both thresholds (0 and 30 days)
within five half days; slots of 17 and 19 objects in 20 sit exactly on 85% and
95%; the attestation page shows one run instead of seven, since the reports only
ask whether it is empty; snapshots taken at hours 0 and 1 cross the 24th hour one after the
other; an export cap and a page size of 2 for three entries overflow both; three
generated keys allow a race and a crash; two runs of the seed script allow a
crash at any step and a rerun, with rows of the service in a table that is wiped
(`compliance_assessments`, `tenants`), in the accounts, in tables that cascade
from the one or the other (`tenant_members`) and in one that may outlast a run
(`refresh_tokens`). Three audit entries, checked when a request
begins, let a bulk update of two anomalies meet another one. The `services` run
uses symmetry over sessions and permissions, `lifecycle` none since it checks
liveness.

**Fairness.** Requests come from clients and no operator has to act, so no
action that starts something is fair. `RequestsEnd` assumes, for an anomaly
update that has begun: strong fairness of `append_anomaly_audit` (a lock that is
released again and again goes to a waiter, PostgreSQL queues them), weak
fairness of `UpdateCommit` (the coroutine goes on) and of `DeadlockAbort` (the
deadlock detector runs after `deadlock_timeout`). Without the last, two bulk
updates that lock the same rows in opposite orders would wait for ever. A client
that goes away (`Abort`) is possible but not assumed. No other handler waits for
anything.

## Proofs

`AuditLogProofs` proves, for every set of sessions and contents and every bound:

* `AuditTypeCorrect`: `Spec => []TypeOK`.
* `NoDanglingPrevHash`: `Spec => []PrevPersisted`. `PrevPersisted` alone is not
  inductive: a commit publishes rows it says nothing about. `LinkInv` adds that
  the identity is ahead of every row a session sees (`SequenceBound`), that
  uncommitted rows are linked to rows their session sees (`PendingLinked`), and
  that the tail held between SELECT and INSERT is still visible (`TailSeen`).
  Committed rows are never removed, so links only become more persistent.
* `SerialChainIntact`: `SerialSpec => []ChainIntact`. `SerialInv` says that one
  transaction is open at a time (`OneWriter`, `IdleOwnsNothing`), that what its
  session sees is an intact chain extending the committed one (`ViewIntact`,
  `ViewExtendsLog`), and that the tail it holds is the current tail
  (`TailFresh`), which is exactly what fails when writers overlap.
* `SerialImplementsLedger`: `SerialSpec => ImplementsLedger`, step by step from
  `SerialInv`: a commit maps to `Publish` or a stutter, every other action to a
  stutter.
* `VerdictIsExact`: `Spec => []VerifyChainVerdict`, from `SequenceUnique`: the
  identity hands a sequence out once, among committed and uncommitted rows alike.
  So a row that is altered keeps its place, the rows before it still verify, it
  fails itself whichever hashed column was overwritten (the row after it fails as
  well when that was `entry_hash`), and it is the first break. A column outside
  the hash changes no comparison, nor does a sequence that leaves the row where it
  comes. When the row passes another, one of the rows that now meet fails: a digest
  commits to more than the one it extends (`MoveNoticed`). Removing a row changes
  what one row is compared with, the next one.

The only assumption on constants is `MaxSeq \in Nat`. That `get_tail` of a
non-empty set is its newest row uses that the natural numbers are well ordered.

`ConfigurationsProofs` proves, for every set of sessions and names:

* `ConfigurationsTypeCorrect`: `Spec => []TypeOK`.
* `VersionNumbering`: `Spec => []VersionsContiguous`. Committing rows needs more
  than the property says, so `NumberingInv` adds what a request holds
  (`RequestShape`, `VersionBound`), that the key of an uncommitted row belongs to
  no other row (`MineFresh`, the unique constraint), and that the version before
  an uncommitted row, or before the number a request is about to insert, is one
  its session sees (`MineLinked`, `NumberLinked`). UPDATEs keep keys and no row is
  ever removed, so a version that has a predecessor keeps it.
* `OneActiveUntilOverlap`: `Spec => []OneActiveIfSerial`. `SerialInv` says that
  until requests overlap one is under way (`OneBusy`), the row it loaded is still
  the committed one (`LoadedFresh`), and the version it is about to archive is the
  ACTIVE one of its name, if there is one (`CurrentFresh`). It needs that ACTIVE rows are not
  soft-deleted (`ActiveKept`), because `_active_configuration` skips deleted
  rows, and that a rollback has inserted exactly its own DRAFT (`MineDraft`,
  `RollbackRow`). The proof shows that `activate` and `rollback` meet the same
  condition: one new ACTIVE row of the name, and otherwise only superseded rows.
* `HandoverIsOneCommit`: `Spec => HandoverAtomic`, under any interleaving. The row
  that turns ACTIVE must exist and be of the name whose version is archived:
  `HandoverInv` says that the key a request loaded stays in the table
  (`LoadedStored`) and that the version it archives is of its own name
  (`CurrentNamed`), even when both were loaded long ago.
* `ActiveVersionIsAudited`: `Spec => []ActiveIsLastAudited`, which is inductive
  together with `SerialInv` and `HandoverInv`.

`ConfigParametersProofs`, for every set of parameters, values and sessions:

* `ParametersTypeCorrect`, `EveryValueIsRecorded` (`Provenance`),
  `PromotionsAreAudited` (`AuditedPromotion`) and `ApplyIsAtomic`
  (`AllOrNothing`), under any interleaving, from `ParametersInv`: every row a
  request has loaded, however stale, was validated and recorded (`Explained`),
  and change records are never deleted; an apply has flushed each row it loaded
  once or still has it to do (`ApplySound`), so that at its commit the entries it
  adds are in one-to-one correspondence with those rows.
* `StagedValuesAreOpen` and `AuditTrailIsHistory`, until requests overlap, from
  `SerialInv`: what the one request has loaded is what is stored.

`MasterKeysProofs`, for every set of sessions, labels and custodians:

* `MasterKeysTypeCorrect`, and `ActivationByQuorum` (`ActivationNeedsQuorum`)
  under any interleaving, from `CeremonyInv`: keys are never deleted and never go
  back to PENDING, approvals are only given, so a quorum that was met when
  `complete_ceremony` looked is still met at its commit.
* `QuorumOfDifferentCustodians` (`ApproversCountedOnce`), from two theorems.
  `InvitedQuorum` (`QuorumOfInvited`) is under any interleaving: `CeremonyInv` also
  says that an invited custodian has exactly one row, since a request that found it
  updates it, so counting rows counts custodians. `SerialQuorumOfCustodians`
  (`QuorumIfSerial`) is until requests overlap.
* So are `RetiredKeysAreSuperseded` and `PendingCeremoniesAreCurrent`. `SerialInv`
  adds that a custodian has at most one row in a ceremony (so the number of
  approved rows is the number of approvers), that a key has one pending ceremony,
  and that the predecessor of a pending ceremony has none (`PredecessorsSettled`): without it
  completing a rotation could retire a key whose own ceremony is open.

`RequestsProofs` has the lemmas about the life of a request that the next three
modules share (no theorem of its own is listed). The theorems are about the
component's specification (`AuthSpec`, `RbacSpec`, `TenancySpec`,
`AnomaliesSpec`, `KeySpec`, `ReadersSpec`, `SeedSpec`): the disjunct of the
`services` and `lifecycle` runs in which that component is exercised.
`ServicesTypeCorrect`, `EndpointsAgree`, `TimesStampedOnce` and
`LifecycleTypeCorrect` are about the `Spec` of the whole instance.

`AuthTokensProofs`:

* `RotationAlwaysRevokes`, under any interleaving and with a crash between the two
  commits: `RotationInv` says that the token a request is about to issue a
  successor for is revoked already.
* `TokensAreSingleUse` and `PasswordChangeEndsSessions`, until requests overlap:
  `SingleUseInv` says that what a request has read of its token, of the password
  and of the tokens it will revoke is still so (`RequestFresh`).

`LifecycleProofs`:

* `SignedEntriesVerify` (`SignaturesVerify`): as long as no two processes have
  been making a key at once, the one that does found no file and every process
  that is ready holds the key in the file (`KeyInv`).
* `TruncationIsTold` (`ExportHonest`) and `PagingMissesNothing`
  (`ListingComplete`), by counting: sequence numbers are handed out once, what was
  counted precedes what was committed since while commits keep the order
  (`CountedFirst`), and an entry the client has not seen has at least as many
  newer entries as the client has skipped (`UnseenAhead`).
* `StatusIsEndOfHistory` (`HistoryEndsInStatus`), under any interleaving, failure
  or deadlock. A flushed transition holds the lock of its row, so no two requests
  hold uncommitted transitions of one row (`LocksExclude`), and its entry is later
  than every committed one of that row (`FlushedLast`).
* `SerialHistoryIsTheLife` (`HistoryChainsIfSerial`), until requests overlap. The
  property is about the history sorted by sequence; `LifeInv` says the same of the
  entries as a set (each continues the one right before it), which a commit
  preserves, and that the request under way loaded the rows as they still are.
  That the k-th element of the sorted history is the entry with k - 1 entries
  before it (`Rank`) is the lemma between the two.
* `HeadIsAlwaysReachable` (`SchemaSound`), for any mixture of upgrades, downgrades,
  seeding and use. `SchemaInv`: the schema is that of its revision, and rows with
  sizes exist only where the revision that widens the sizes is applied. A statement
  is refused only for an object that is missing, present or referenced, and each of
  these compares where two statements stand in the list of revisions (`Place`,
  `DropPlace`).
* `SeedingConverges` (`SeedConverges`), with crashes, reruns, rows of the service
  and migrations in between. `SeedInv`: a run under way is at the head, the seed
  functions before its step have filled their tables once and the later ones have
  not, and of the older rows only accounts are left, until `seed_rbac` deletes
  them.
* `LifecycleTypeCorrect`: the type invariant of the whole instance, from the
  invariants above together.

`ServicesProofs`:

* `UpdatesReplacePermissions` (`PermissionsAsRequested`) and `NewAccountsComplete`
  (`AccountsCreatedWhole`), the second under any interleaving. `RbacInv` adds the
  foreign keys and the unique constraint of `user_roles` (an e-mail without an
  account has no grants), that an update deletes links of its own role only, and
  that a request which got past the check of its roles found all of them.
* `ProvisioningFollowsSteps` (`ProvisioningInOrder`) and `TenantReferencesStay`
  (`TenantReferencesIntact`), under any interleaving. `AdvanceLoaded` says that a
  stale job is in order too and has a step left, and that a tenant loaded as
  ACTIVE cannot be PROVISIONING again, ids not being handed out twice. That
  `delete_tenant` spares the references follows from the trigger: setting a
  reference to NULL would change an entry.
* `EndpointsAgree` (`ViewsAgree`) at every time and for any rows. For compliance it
  needs that an outcome is what the mappings of its framework say, in a stored
  assessment and in the hands of a request (`OutcomesRecorded`,
  `CompletionLoaded`), and then arithmetic: a weighted sum reaches its maximum only
  if no control is a gap, and rounding does not hide a gap below the bounds of
  `ComplianceAssumption`. For certificates, slots, keys and backups it compares
  thresholds that the code computes in different units.
* `TimesStampedOnce` (`StampedOnce`), an action property: `NotesInv` says that the
  notification a request is about to mark is still unread until requests overlap
  (`MarkLoaded`) and that a read one has its time (`ReadAtSet`); `ComplianceInv`
  says the same of an assessment about to be completed.
* `ServicesTypeCorrect`: the type invariant of the whole instance. `ServicesInv`
  keeps the invariant of the service that is exercised and the types of the tables
  of the others.

**Assumptions.** Bounds are natural numbers (`MaxTenants`, the page size and the
export cap positive), the sets that are counted are finite (`Custodians`,
`Events`, `Inbox`, the rows of the posture reports), initial parameter values are
allowed ones, and `NULL` is no row, name, id, value or time (`NoRow`,
`NullAssumption`, `AnomaliesNoRow`, `TenancyNoRow`, `RbacAssumption`,
`ComplianceNoRow`, `PostureAssumption`, `TenantPostureAssumption`). `UsedTables`
are tables of the schema. There are fewer than 100 frameworks and fewer than 1000
control domains: with more, one gap would round away in a coverage percentage or a
score. `FrameworkCode` has four members and only the seed script writes control
mappings, of seven domains. TLC evaluates them in the runs. The inductive invariants were
checked with TLC on the runs' instances before they were proved.

**Only model-checked.** `RequestsEnd`: liveness under fairness is out of the
prover's reach. Every other invariant and action property of a passing run is
stated by a theorem. The properties of the five runs that expect a violation are
false of the code, and TLC shows the behaviour that breaks each.

## Plan

1. Done: `AuditLog` with its ledger and proofs, `Configurations` with its
   proofs, `ConfigParameters`, `MasterKeys`.
2. Done: the smaller services on `Requests`, the readers, the signing key, the
   anomalies with liveness, migrations and the seed script.
3. Done: theorems for every invariant and action property of `params`,
   `configurations` and `keys`, and for all of tokens, roles, tenants, anomalies'
   status, readers and the signing key.
4. Done: theorems for the rest: `VerifyChainVerdict`, `ViewsAgree`, `StampedOnce`,
   `HistoryChainsIfSerial`, `SchemaSound`, `SeedConverges` and the type invariants
   of the two composed instances.
5. Left: two hazards of `MasterKeys` and one of the seed script without a property
   (`PROJECT.json` says why), and the read-only components below.

## Not modelled

* Engine, dashboard and system endpoints, the listings of operations, score
  trends, statistics, comparisons and exports of configurations: they read rows
  and change nothing, and no other report says the same thing another way.
* The HTTP layer and schemas: routing, validation and serialisation without
  state. Guards that a schema enforces are in the inputs the models enumerate.
* JWTs, password hashing, SHA-256 and ECDSA beyond what they identify; rate
  limits; wording, payloads and most timestamps.
* Of the schema: column types, defaults, indexes, and the identity sequence of
  the audit table, which starts anew when its revision is taken back and applied
  again.
* PostgreSQL itself beyond visibility, locks, unique indexes, foreign keys and
  the trigger; connection pooling.
