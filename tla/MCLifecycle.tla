---------------------------- MODULE MCLifecycle ----------------------------
(***************************************************************************)
(* Model-checking instance of what outlives a request: the life of an      *)
(* anomaly, the readers of the audit log, the signing key across restarts, *)
(* migrations and the seed script.  A behaviour is about one of these      *)
(* subjects; the variables of the others do not change.                    *)
(***************************************************************************)
EXTENDS Anomalies, AuditReaders, SigningKey, SeedData

VARIABLE subject    \* what a behaviour is about

anomalyVars == <<reqVars, anomalyTables>>

deployVars == <<schemaVars, seedVars>>

vars == <<subject, anomalyVars, readerVars, keyVars, deployVars>>

Init ==
    /\ subject \in {"anomalies", "readers", "key", "deployment"}
    /\ RequestsInit /\ AnomaliesInit /\ ReadersInit /\ KeyInit /\ SeedInit
    /\ subject # "readers" => listing.filter = None

Next ==
    /\ UNCHANGED subject
    /\ \/ /\ subject = "anomalies" /\ AnomaliesNext
          /\ UNCHANGED <<readerVars, keyVars, deployVars>>
       \/ /\ subject = "readers" /\ ReadersNext
          /\ UNCHANGED <<anomalyVars, keyVars, deployVars>>
       \/ /\ subject = "key" /\ KeyNext
          /\ UNCHANGED <<anomalyVars, readerVars, deployVars>>
       \/ /\ subject = "deployment" /\ SeedNext
          /\ UNCHANGED <<anomalyVars, readerVars, keyVars>>

Spec == Init /\ [][Next]_vars /\ (subject = "anomalies" => AnomaliesFairness)

(* Type invariant of the four subjects. *)
TypeOK ==
    /\ AnomaliesTypeOK /\ ReadersTypeOK /\ KeyTypeOK /\ MigrationsTypeOK /\ SeedTypeOK
    /\ \A s \in Sessions : req[s] = Idle \/ req[s] \in AnomalyRequest

=============================================================================
