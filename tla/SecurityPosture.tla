--------------------------- MODULE SecurityPosture ---------------------------
(***************************************************************************)
(* What the HSM endpoints report of keys, certificates, slots, providers   *)
(* and attestation runs as time passes (app/services/hsm_service.py).      *)
(* Statuses are computed from the rows and the clock, "no background job   *)
(* has to flip a status column".  Keys change in module MasterKeys; here   *)
(* the rows are any the seed script or that module can leave, and only     *)
(* run_attestation writes.                                                 *)
(*                                                                         *)
(* Time is in half days, since timedelta.days rounds towards the past; a   *)
(* step of it exceeds the hour after which a provider's check is stale.    *)
(***************************************************************************)
EXTENDS Requests, Integers, Sequences

CONSTANTS
    KeyRows, CertRows, SlotRows, ProviderRows,
    Expiries,           \* expires_at of keys and certificates
    ObjectCounts,       \* object_count of slots of CapacityMax objects
    CapacityMax,
    HistoryLimit,       \* attestation runs a page shows: 7 in the code
    MaxNow,             \* bound: half days that pass
    MaxRuns             \* bound: attestation runs

ASSUME PostureAssumption ==
    /\ {CapacityMax, HistoryLimit} \subseteq Nat \ {0}
    /\ {MaxNow, MaxRuns} \subseteq Nat
    /\ Expiries \subseteq Int /\ ObjectCounts \subseteq Nat
    /\ \A rows \in {KeyRows, CertRows, SlotRows, ProviderRows} : IsFiniteSet(rows)
    /\ NULL \notin Int /\ NULL \notin BOOLEAN

VARIABLES
    keys,           \* table master_keys: status, activated_at, expires_at
    certs,          \* table certificates: expires_at
    slots,          \* table hsm_slots: object_count
    providers,      \* table security_providers
    runs,           \* table attestation_runs: ran_at, in the order they ran
    now             \* datetime.now()

postureTables == <<keys, certs, slots, providers, runs, now>>

-----------------------------------------------------------------------------
EXPIRING_WITHIN_DAYS == 30

NEAR_CAPACITY_PERCENT == 850        \* in tenths, as capacity_percent

CAPACITY_CRITICAL_PERCENT == 950

\* PENDING keys have no dates; a key that was disabled while PENDING neither.
MasterKey ==
    [status : {"ACTIVE", "EXPIRING", "RETIRED", "DISABLED"}, activated_at : {0}, expires_at : Expiries]
    \cup [status : {"PENDING", "DISABLED"}, activated_at : {NULL}, expires_at : {NULL}]

SecurityProvider == [is_active : BOOLEAN, last_health_check_at : {NULL, 0}, degraded : BOOLEAN]

days(span) == span \div 2

Percent10(part, whole) == IF part >= whole THEN 1000
                          ELSE (2000 * part + whole) \div (2 * whole)

LastRuns(n) == SubSeq(runs, IF Len(runs) > n THEN Len(runs) - n + 1 ELSE 1, Len(runs))

-----------------------------------------------------------------------------
(* Computed statuses *)

Expires_late(k) ==
    IF keys[k].status \in {"RETIRED", "PENDING", "DISABLED"} THEN keys[k].status
    ELSE IF keys[k].expires_at # NULL /\ days(keys[k].expires_at - now) < EXPIRING_WITHIN_DAYS
         THEN "EXPIRING" ELSE "ACTIVE"

effective_key_status(k) ==
    IF keys[k].status \in {"RETIRED", "PENDING", "DISABLED"} THEN keys[k].status
    ELSE IF keys[k].expires_at # NULL /\ days(keys[k].expires_at - now) <= EXPIRING_WITHIN_DAYS
         THEN "EXPIRING" ELSE "ACTIVE"

rotation_percent(k) ==
    IF keys[k].activated_at = NULL \/ keys[k].expires_at = NULL THEN 0
    ELSE LET total == keys[k].expires_at - keys[k].activated_at
         IN  IF total <= 0 THEN 1000 ELSE Percent10(now - keys[k].activated_at, total)

certificate_status(c) ==
    IF certs[c] <= now THEN "expired"
    ELSE IF days(certs[c] - now) <= EXPIRING_WITHIN_DAYS THEN "expiring" ELSE "valid"

days_left(c) == IF days(certs[c] - now) < 0 THEN 0 ELSE days(certs[c] - now)

capacity_percent(l) == Percent10(slots[l], CapacityMax)

\* `degraded': errors in the last day, or a pool that is 90% in use.
provider_status(p) ==
    IF ~providers[p].is_active THEN "offline"
    ELSE IF /\ providers[p].last_health_check_at # NULL
            /\ now > providers[p].last_health_check_at THEN "stale"
    ELSE IF providers[p].degraded THEN "degraded" ELSE "online"

-----------------------------------------------------------------------------
(* The reports *)

CertsIn(states) == {c \in CertRows : certificate_status(c) \in states}

Critical == {l \in SlotRows : capacity_percent(l) >= CAPACITY_CRITICAL_PERCENT}

\* get_hsm_overview: the newest run of the last two days.
latest_attestation ==
    LET recent == {i \in 1..Len(runs) : runs[i] >= now - 4}
    IN  IF recent = {} THEN NULL ELSE runs[CHOOSE i \in recent : \A j \in recent : j <= i]

\* rotation_candidates and next_rotation_days of get_security_summary.
rotation_candidates ==
    {days(keys[k].expires_at - now) :
       k \in {x \in KeyRows : keys[x].status \in {"ACTIVE", "EXPIRING"} /\ keys[x].expires_at # NULL}}

next_rotation_days ==
    IF rotation_candidates = {} THEN NULL
    ELSE LET m == CHOOSE d \in rotation_candidates : \A e \in rotation_candidates : d <= e
         IN  IF m < 0 THEN 0 ELSE m

\* Every run passes all its checks (run_attestation and the seed script), so
\* the latest run has not failed and the pass rate is 100.
get_security_summary ==
    [overall_status |-> IF \/ \E p \in ProviderRows : ~providers[p].is_active
                           \/ Critical # {}
                           \/ \E k \in KeyRows : keys[k].status = "DISABLED"
                        THEN "attention" ELSE "healthy",
     active_provider_count |-> Cardinality({p \in ProviderRows : providers[p].is_active}),
     near_capacity_slots |-> Cardinality({l \in SlotRows :
                                            capacity_percent(l) >= NEAR_CAPACITY_PERCENT}),
     expiring_certificates |-> Cardinality(CertsIn({"expiring", "expired"})),
     next_rotation_days |-> next_rotation_days,
     latest_attestation_passed |-> IF LastRuns(HistoryLimit) = << >> THEN NULL ELSE TRUE]

\* get_security_health with the database reachable: the checks that pass.
get_security_health ==
    {"database"}
    \cup (IF \E p \in ProviderRows : providers[p].is_active THEN {"providers"} ELSE {})
    \cup (IF LastRuns(1) # << >> THEN {"attestation"} ELSE {})
    \cup (IF Critical = {} THEN {"slot_capacity"} ELSE {})
    \cup (IF CertsIn({"expired"}) = {} THEN {"certificates"} ELSE {})

-----------------------------------------------------------------------------
\* run_attestation, with its operation record and audit entry in one commit.
run_attestation(s) ==
    /\ Len(runs) < MaxRuns
    /\ Instant(s)
    /\ runs' = Append(runs, now)
    /\ UNCHANGED <<keys, certs, slots, providers, now>>

TimePasses ==
    /\ now < MaxNow
    /\ now' = now + 1
    /\ UNCHANGED <<reqVars, keys, certs, slots, providers, runs>>

PostureInit ==
    /\ keys \in [KeyRows -> MasterKey]
    /\ certs \in [CertRows -> Expiries]
    /\ slots \in [SlotRows -> ObjectCounts]
    /\ providers \in [ProviderRows -> SecurityProvider]
    /\ runs \in {<< >>, <<0>>}
    /\ now = 0

PostureNext == TimePasses \/ \E s \in Sessions : run_attestation(s)

-----------------------------------------------------------------------------
PostureTypeOK ==
    /\ keys \in [KeyRows -> MasterKey]
    /\ certs \in [CertRows -> Expiries]
    /\ slots \in [SlotRows -> ObjectCounts]
    /\ providers \in [ProviderRows -> SecurityProvider]
    /\ runs \in Seq(0..MaxNow)
    /\ now \in 0..MaxNow

(* Whatever the time, the reports agree: some key is listed as expiring      *)
(* exactly when the summary's next rotation is at most 30 days away, a key   *)
(* past its expiry is fully rotated, the summary's expiring certificates are *)
(* those the certificate list gives 30 days or less and include every one    *)
(* that fails the health check, the attestation of the overview is known to  *)
(* summary and health alike, and a summary that is healthy leaves the health *)
(* report no failing check but for an expired certificate, for no            *)
(* attestation at all, or for no provider at all.                            *)
SecurityViewsAgree ==
    LET summary == get_security_summary
        health  == get_security_health
    IN  /\ (\E k \in KeyRows : effective_key_status(k) = "EXPIRING") <=>
             summary.next_rotation_days # NULL /\ summary.next_rotation_days <= EXPIRING_WITHIN_DAYS
        /\ \A k \in KeyRows : keys[k].expires_at # NULL =>
             (now >= keys[k].expires_at => rotation_percent(k) = 1000)
        /\ summary.expiring_certificates =
             Cardinality({c \in CertRows : days_left(c) <= EXPIRING_WITHIN_DAYS})
        /\ "certificates" \notin health => summary.expiring_certificates > 0
        /\ latest_attestation # NULL => summary.latest_attestation_passed = TRUE
        /\ "attestation" \in health <=> summary.latest_attestation_passed = TRUE
        /\ "providers" \notin health <=>
             \A p \in ProviderRows : provider_status(p) = "offline"
        /\ "slot_capacity" \notin health => summary.near_capacity_slots > 0
        /\ summary.overall_status = "healthy" /\ runs # << >> /\ ProviderRows # {} =>
             {"database", "providers", "attestation", "slot_capacity"} \subseteq health

=============================================================================
