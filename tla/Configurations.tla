--------------------------- MODULE Configurations ---------------------------
(***************************************************************************)
(* Versioned configuration documents (app/services/config_service.py,      *)
(* second half): create, PATCH to a successor version, activate, archive,  *)
(* roll back, soft-delete and bulk import, by concurrent requests.         *)
(*                                                                         *)
(* A request is one READ COMMITTED transaction.  Rows it loads are not     *)
(* re-read, and its UPDATEs write what was computed from them.  The        *)
(* UPDATEs of a request are flushed together just before its commit, so    *)
(* flush and commit are one step here: in between the rows are locked and  *)
(* nobody else can see or write them.  An INSERT flushed earlier reserves  *)
(* its (name, version).                                                    *)
(***************************************************************************)
EXTENDS Naturals, FiniteSetsExt

CONSTANTS
    Sessions,       \* requests in flight
    Names,          \* configuration names
    NULL,
    MaxVersion      \* bound: versions per name

ASSUME ConfigurationsAssumption ==
    /\ MaxVersion \in Nat
    /\ NULL \notin Names

VARIABLES
    rows,           \* committed rows of `configurations', soft-deleted included
    lastAudited,    \* per name: version in the newest CONFIGURATION_ACTIVATED or
                    \* CONFIGURATION_ROLLED_BACK audit entry, 0 when there is none
    req,            \* per session: the request's locals and uncommitted rows
    overlapped      \* history: two requests have been under way at once

vars == <<rows, lastAudited, req, overlapped>>

-----------------------------------------------------------------------------
\* archived and deleted say whether archived_at and deleted_at are set.
Configuration == [name : Names, version : Nat \ {0},
                  status : {"DRAFT", "ACTIVE", "ARCHIVED"},
                  archived : BOOLEAN, deleted : BOOLEAN]

ASSUME NullAssumption == NULL \notin Configuration

Ops == {"create", "successor", "import", "activate", "archive", "rollback", "delete"}

Request == [op      : Ops \cup {"none"},
            at      : {"start", "loaded", "numbered", "inserted", "ready"},
            config  : Configuration \cup {NULL},   \* the row _get_configuration_orm returned
            name    : Names \cup {NULL},
            version : Nat,                         \* what _next_version returned
            current : Configuration \cup {NULL},   \* what _active_configuration returned
            mine    : SUBSET Configuration]        \* rows INSERTed, not committed

NoRequest == [op |-> "none", at |-> "start", config |-> NULL, name |-> NULL,
              version |-> 0, current |-> NULL, mine |-> {}]

Key(r) == <<r.name, r.version>>

Visible(s) == rows \cup req[s].mine

Draft(n, v) == [name |-> n, version |-> v, status |-> "DRAFT",
                archived |-> FALSE, deleted |-> FALSE]

\* A request starts; it overlaps the ones that are under way.
Begins(s) == overlapped' = (overlapped \/ \E t \in Sessions \ {s} : req[t] # NoRequest)

Finish(s) == req' = [req EXCEPT ![s] = NoRequest] /\ UNCHANGED overlapped

Is(s, op, at) == req[s].op = op /\ req[s].at = at

-----------------------------------------------------------------------------
(* Reads *)

\* create_configuration: 409 when any row, deleted or not, has the name.
CreateLoad(s, n) ==
    /\ req[s] = NoRequest
    /\ Begins(s)
    /\ \A r \in rows : r.name # n
    /\ req' = [req EXCEPT ![s].op = "create", ![s].at = "numbered",
                          ![s].name = n, ![s].version = 1]
    /\ UNCHANGED <<rows, lastAudited>>

\* import_configurations starts; items whose payload is invalid are skipped
\* without a trace in the database.
ImportStart(s) ==
    /\ req[s] = NoRequest
    /\ Begins(s)
    /\ req' = [req EXCEPT ![s].op = "import", ![s].at = "loaded"]
    /\ UNCHANGED <<rows, lastAudited>>

\* The operations on a stored version.
LoadOps == Ops \ {"create", "import"}

\* Early returns (409) that follow _get_configuration_orm.
Accepts(op, r) ==
    CASE op = "delete"   -> r.status # "ACTIVE"
      [] op = "activate" -> r.status # "ACTIVE"
      [] op = "archive"  -> r.status # "ARCHIVED"
      [] OTHER           -> TRUE

\* _get_configuration_orm: 404 for a deleted row.
LoadConfiguration(s, op, r) ==
    /\ req[s] = NoRequest
    /\ Begins(s)
    /\ ~r.deleted
    /\ Accepts(op, r)
    /\ req' = [req EXCEPT ![s].op = op, ![s].config = r, ![s].name = r.name,
                          ![s].at = IF op \in {"delete", "archive"} THEN "ready" ELSE "loaded"]
    /\ UNCHANGED <<rows, lastAudited>>

Forgets_increment(s, n) ==
    Max({0} \cup {r.version : r \in {q \in Visible(s) : q.name = n}})

next_version(s, n) ==
    Max({0} \cup {r.version : r \in {q \in Visible(s) : q.name = n}}) + 1

\* The SELECT max(version) of a successor, a rollback or an import item.
ReadVersion(s, n) ==
    /\ \/ req[s].op \in {"successor", "rollback"} /\ n = req[s].name
       \/ req[s].op = "import"
    /\ req[s].at = "loaded"
    /\ req' = [req EXCEPT ![s].at = "numbered", ![s].name = n,
                          ![s].version = next_version(s, n)]
    /\ UNCHANGED <<rows, lastAudited, overlapped>>

\* _active_configuration: the ACTIVE, undeleted row with the highest version,
\* NULL when there is none or when it is the row `own' the request activates.
\* A row the session has loaded already (the base of a rollback) comes back as
\* the object loaded then, with the attributes it had.
active_configuration(s, own) ==
    LET actives == {r \in Visible(s) : /\ r.name = own[1]
                                       /\ r.status = "ACTIVE"
                                       /\ ~r.deleted}
        newest  == CHOOSE r \in actives : \A q \in actives : q.version <= r.version
    IN  IF actives = {} \/ Key(newest) = own THEN NULL
        ELSE IF Key(newest) = Key(req[s].config) THEN req[s].config
        ELSE newest

ReadCurrent(s) ==
    /\ Is(s, "activate", "loaded") \/ Is(s, "rollback", "inserted")
    /\ req' = [req EXCEPT ![s].at = "ready",
                          ![s].current = active_configuration(s,
                             IF req[s].op = "activate" THEN Key(req[s].config)
                             ELSE <<req[s].name, req[s].version>>)]
    /\ UNCHANGED <<rows, lastAudited, overlapped>>

-----------------------------------------------------------------------------
(* Writes *)

Ignores_unique_constraint(s, k) == FALSE

\* Another row has the (name, version): a committed one makes the INSERT fail,
\* an uncommitted one makes it wait for the other transaction.
Taken(s, k) ==
    \/ \E r \in Visible(s) : Key(r) = k
    \/ \E t \in Sessions \ {s} : \E r \in req[t].mine : Key(r) = k

\* The flush of db.add(Configuration(...)).  A create or a successor has
\* nothing left to do but commit; a failed INSERT is left to Rollback.
Insert(s) ==
    /\ req[s].at = "numbered"
    /\ req[s].version <= MaxVersion
    /\ ~Taken(s, <<req[s].name, req[s].version>>)
    /\ req' = [req EXCEPT ![s].mine = @ \cup {Draft(req[s].name, req[s].version)},
                          ![s].at = CASE req[s].op = "import"   -> "loaded"
                                      [] req[s].op = "rollback" -> "inserted"
                                      [] OTHER                  -> "ready"]
    /\ UNCHANGED <<rows, lastAudited, overlapped>>

\* Commit of a create, a successor or an import: the new DRAFT rows.
CommitDrafts(s) ==
    /\ \/ req[s].op \in {"create", "successor"} /\ req[s].at = "ready"
       \/ Is(s, "import", "loaded") /\ req[s].mine # {}
    /\ rows' = Visible(s)
    /\ Finish(s)
    /\ UNCHANGED lastAudited

CommitDelete(s) ==
    /\ Is(s, "delete", "ready")
    /\ rows' = {IF Key(r) = Key(req[s].config) THEN [r EXCEPT !.deleted = TRUE] ELSE r :
                r \in rows}
    /\ Finish(s)
    /\ UNCHANGED lastAudited

Archived(r) == [r EXCEPT !.status = "ARCHIVED", !.archived = TRUE]

CommitArchive(s) ==
    /\ Is(s, "archive", "ready")
    /\ rows' = {IF Key(r) = Key(req[s].config) THEN Archived(r) ELSE r : r \in rows}
    /\ Finish(s)
    /\ UNCHANGED lastAudited

Keeps_current(s, r) == r

\* Row r when the request archives `current'.  The flush leaves out the status
\* when the object says ARCHIVED already.
Superseded(s, r) ==
    IF req[s].current = NULL \/ Key(r) # Key(req[s].current) THEN r
    ELSE IF req[s].current.status = "ARCHIVED" THEN [r EXCEPT !.archived = TRUE]
    ELSE Archived(r)

Keeps_archived_at(r, loaded) == [r EXCEPT !.status = "ACTIVE"]

\* archived_at is set to None; the column is not written when it was None in
\* the row as loaded.
Activated(r, loaded) ==
    [r EXCEPT !.status = "ACTIVE", !.archived = IF loaded.archived THEN FALSE ELSE @]

\* activate_configuration: both rows, the audit entry, one commit.
CommitActivate(s) ==
    /\ Is(s, "activate", "ready")
    /\ rows' = {IF Key(r) = Key(req[s].config) THEN Activated(r, req[s].config)
                ELSE Superseded(s, r) : r \in rows}
    /\ lastAudited' = [lastAudited EXCEPT ![req[s].name] = req[s].config.version]
    /\ Finish(s)

Rollback_stays_draft(s) ==
    /\ Is(s, "rollback", "ready")
    /\ rows' = {Superseded(s, r) : r \in rows} \cup req[s].mine
    /\ lastAudited' = [lastAudited EXCEPT ![req[s].name] = req[s].version]
    /\ Finish(s)

\* rollback_configuration: the new version turns ACTIVE, the current one
\* ARCHIVED, with the audit entry, in one commit.
CommitRollback(s) ==
    /\ Is(s, "rollback", "ready")
    /\ rows' = {Superseded(s, r) : r \in rows}
               \cup {[r EXCEPT !.status = "ACTIVE"] : r \in req[s].mine}
    /\ lastAudited' = [lastAudited EXCEPT ![req[s].name] = req[s].version]
    /\ Finish(s)

\* The request fails anywhere (409 and 422 after a read, IntegrityError of an
\* INSERT, lost connection): nothing it wrote stays.
Rollback(s) ==
    /\ req[s] # NoRequest
    /\ Finish(s)
    /\ UNCHANGED <<rows, lastAudited>>

-----------------------------------------------------------------------------
Init ==
    /\ rows = {}
    /\ lastAudited = [n \in Names |-> 0]
    /\ req = [s \in Sessions |-> NoRequest]
    /\ overlapped = FALSE

Step(s) ==
    \/ \E n \in Names : CreateLoad(s, n) \/ ReadVersion(s, n)
    \/ ImportStart(s)
    \/ \E op \in LoadOps, r \in rows : LoadConfiguration(s, op, r)
    \/ ReadCurrent(s)
    \/ Insert(s)
    \/ CommitDrafts(s)
    \/ CommitDelete(s)
    \/ CommitArchive(s)
    \/ CommitActivate(s)
    \/ CommitRollback(s)
    \/ Rollback(s)

Next == \E s \in Sessions : Step(s)

Spec == Init /\ [][Next]_vars

-----------------------------------------------------------------------------
(* Type invariant. *)
TypeOK ==
    /\ rows \subseteq Configuration
    /\ lastAudited \in [Names -> Nat]
    /\ req \in [Sessions -> Request]
    /\ overlapped \in BOOLEAN

(* Whatever requests overlap, fail or roll back, the versions of a name are  *)
(* numbered without duplicates and without gaps, soft-deleted ones included. *)
VersionsContiguous ==
    \A r \in rows :
      /\ \A q \in rows : Key(q) = Key(r) => q = r
      /\ r.version > 1 => \E q \in rows : q.name = r.name /\ q.version = r.version - 1

\* Inductive strengthening of VersionsContiguous: what a request has loaded or
\* numbered is well formed, versions stay within the bound, the key of an
\* uncommitted row is its own, and the version before an uncommitted row, or
\* before the number a request holds, is one its session sees.
RequestShape ==
    \A s \in Sessions :
      /\ req[s].op \in LoadOps => /\ req[s].config \in Configuration
                                  /\ req[s].name = req[s].config.name
      /\ req[s].at = "numbered" => /\ req[s].name \in Names /\ req[s].version > 0
                                  /\ req[s].op # "activate"

VersionBound ==
    /\ \A r \in rows : r.version <= MaxVersion
    /\ \A s \in Sessions : \A r \in req[s].mine : r.version <= MaxVersion

MineFresh ==
    \A s \in Sessions : \A r \in req[s].mine :
      /\ \A q \in rows : Key(q) # Key(r)
      /\ \A q \in req[s].mine : Key(q) = Key(r) => q = r
      /\ \A t \in Sessions \ {s} : \A q \in req[t].mine : Key(q) # Key(r)

Precedes(S, n, v) == v > 1 => \E q \in S : q.name = n /\ q.version = v - 1

MineLinked ==
    \A s \in Sessions : \A r \in req[s].mine : Precedes(Visible(s), r.name, r.version)

NumberLinked ==
    \A s \in Sessions :
      req[s].at = "numbered" => Precedes(Visible(s), req[s].name, req[s].version)

NumberingInv ==
    /\ RequestShape /\ VersionBound /\ MineFresh
    /\ MineLinked /\ NumberLinked /\ VersionsContiguous

ActiveRows(S, n) == {r \in S : r.name = n /\ r.status = "ACTIVE"}

(* Activating or rolling back hands over from one version to the next in one *)
(* commit: whatever overlaps, a name that has an ACTIVE version is left      *)
(* without one only by the commit of an archive request.                     *)
HandoverAtomic ==
    [][\A n \in Names :
         ActiveRows(rows, n) # {} /\ ActiveRows(rows', n) = {} =>
           \E s \in Sessions : /\ req[s].op = "archive" /\ req[s].name = n
                               /\ req'[s] = NoRequest]_vars

(* Only one version per name is ACTIVE at a time (docstring of the           *)
(* Configuration model).                                                     *)
OneActive == \A n \in Names : Cardinality(ActiveRows(rows, n)) <= 1

(* As long as requests do not overlap that holds: activate and rollback      *)
(* archive the version they replace.                                         *)
OneActiveIfSerial == ~overlapped => OneActive

(* "Cannot delete an active configuration; archive it first" (the 409 of     *)
(* delete_configuration): no ACTIVE version is soft-deleted.                 *)
ActiveKept == \A r \in rows : r.status = "ACTIVE" => ~r.deleted

(* As long as requests do not overlap the ACTIVE version is the one the      *)
(* newest audit entry of its name activated, it is not soft-deleted, and its *)
(* archived_at is cleared.                                                   *)
ActiveIsLastAudited ==
    ~overlapped => \A r \in rows :
      r.status = "ACTIVE" =>
        /\ lastAudited[r.name] = r.version
        /\ ~r.deleted
        /\ ~r.archived

\* Inductive strengthening of OneActiveIfSerial: until requests overlap one is
\* under way, the row it loaded is still the committed one, and the version it
\* is about to archive is the only ACTIVE one.
MineDraft == \A s \in Sessions : \A r \in req[s].mine : r.status = "DRAFT"

RollbackRow ==
    \A s \in Sessions :
      req[s].op = "rollback" =>
        req[s].mine = IF req[s].at \in {"inserted", "ready"}
                      THEN {Draft(req[s].name, req[s].version)} ELSE {}

OneBusy ==
    \A s, t \in Sessions : s # t => req[s] = NoRequest \/ req[t] = NoRequest

LoadedFresh ==
    \A s \in Sessions :
      req[s].op \in LoadOps => /\ req[s].config \in rows
                               /\ ~req[s].config.deleted
                               /\ Accepts(req[s].op, req[s].config)

CurrentFresh ==
    \A s \in Sessions :
      Is(s, "activate", "ready") \/ Is(s, "rollback", "ready") =>
        \A r \in ActiveRows(rows, req[s].name) :
          /\ req[s].current # NULL
          /\ Key(req[s].current) = Key(r)
          /\ req[s].current.status # "ARCHIVED"

ActiveUnique ==
    \A r, q \in rows :
      r.status = "ACTIVE" /\ q.status = "ACTIVE" /\ r.name = q.name => r = q

SerialInv ==
    /\ MineDraft /\ RollbackRow
    /\ ~overlapped => OneBusy /\ LoadedFresh /\ CurrentFresh /\ ActiveUnique /\ ActiveKept

\* What HandoverAtomic rests on, whatever overlaps: the row a request loaded
\* still has its key in the table, and the row it archives is one of its name.
LoadedStored ==
    \A s \in Sessions :
      req[s].op \in LoadOps => \E q \in rows : Key(q) = Key(req[s].config)

CurrentNamed ==
    \A s \in Sessions :
      req[s].op \in {"activate", "rollback"} /\ req[s].current # NULL =>
        req[s].current.name = req[s].name

HandoverInv == LoadedStored /\ CurrentNamed

=============================================================================
