-------------------------- MODULE ConfigParameters --------------------------
(***************************************************************************)
(* Staging, reverting and applying engine configuration parameters         *)
(* (app/services/config_service.py, first half) by concurrent requests.    *)
(*                                                                         *)
(* A request is one READ COMMITTED transaction of an SQLAlchemy session    *)
(* with autoflush and expire_on_commit off: what it loads it keeps, it     *)
(* computes new values from what it loaded, and a flush UPDATEs only the   *)
(* columns whose value differs from the loaded one.  A flushed row stays   *)
(* locked until the transaction ends.                                      *)
(***************************************************************************)
EXTENDS Naturals, Sequences, FiniteSets, Functions

CONSTANTS
    Sessions,       \* requests in flight
    Params,         \* config_parameters rows
    Values,         \* parameter values
    Allowed,        \* [Params -> SUBSET Values]: what _validate_value accepts
    Initial,        \* [Params -> Values]: active values at the start
    Sensitive,      \* parameters whose values are redacted in the audit log
    NULL,           \* SQL NULL, also "nothing" in a request's locals
    Redacted,       \* _REDACTED_CONFIG_VALUE
    MaxChanges      \* bound: config_changes rows that are staged

ASSUME ConfigAssumption ==
    /\ Allowed \in [Params -> SUBSET Values]
    /\ Initial \in [Params -> Values]
    /\ \A p \in Params : Initial[p] \in Allowed[p]
    /\ Sensitive \subseteq Params
    /\ NULL \notin Values \cup Params
    /\ Redacted \notin Values
    /\ MaxChanges \in Nat

VARIABLES
    params,         \* [Params -> ConfigParameter], committed
    changes,        \* committed config_changes rows, in insertion order
    audit,          \* PARAMETER_UPDATED audit entries, in commit order
    req,            \* per session: the request's ORM objects and locals
    overlapped      \* history: two requests have been under way at once

vars == <<params, changes, audit, req, overlapped>>

-----------------------------------------------------------------------------
ConfigParameter == [active : Values, pending : Values \cup {NULL}]

ASSUME NoRow == NULL \notin ConfigParameter

ConfigChange == [param : Params, previous : Values, new : Values,
                 status : {"PENDING", "APPLIED", "REVERTED"}]

AuditEntry == [param    : Params,
               previous : Values \cup {Redacted},
               new      : Values \cup {Redacted}]

\* One iteration of apply's loop after its flush: the row as it was loaded and
\* the change record it closes, if any.
Flushed == [param : Params, loaded : ConfigParameter, closes : SUBSET Nat]

Request == [op      : {"none", "stage", "revert", "apply"},
            loaded  : [Params -> ConfigParameter \cup {NULL}],
            todo    : SUBSET Params,      \* loaded rows not flushed yet
            value   : Values \cup {NULL}, \* payload.value of a stage
            current : Params \cup {NULL}, \* parameter whose changes were SELECTed
            chosen  : SUBSET Nat,         \* the change rows that SELECT returned
            flushed : Seq(Flushed)]

NoRequest == [op |-> "none", loaded |-> [p \in Params |-> NULL], todo |-> {},
              value |-> NULL, current |-> NULL, chosen |-> {}, flushed |-> <<>>]

\* A request starts; it overlaps the ones that are under way.
Begins(s) == overlapped' = (overlapped \/ \E t \in Sessions \ {s} : req[t] # NoRequest)

Finish(s) == req' = [req EXCEPT ![s] = NoRequest] /\ UNCHANGED overlapped

PendingChanges(p) ==
    {i \in DOMAIN changes : changes[i].param = p /\ changes[i].status = "PENDING"}

\* Row locks: an UPDATE waits while another transaction has flushed the row.
ParamFree(s, p) ==
    \A t \in Sessions \ {s} : \A w \in Range(req[t].flushed) : w.param # p

ChangesFree(s, ids) ==
    \A t \in Sessions \ {s} : \A w \in Range(req[t].flushed) : w.closes \cap ids = {}

\* The pending_value column after a flush that set it to v: not part of the
\* UPDATE when the loaded value was v already.
FlushPending(p, loaded, v) == IF v = loaded.pending THEN params[p].pending ELSE v

-----------------------------------------------------------------------------
(* stage_config_change *)

Stage_without_validation(s, p, v) ==
    /\ req[s] = NoRequest
    /\ Begins(s)
    /\ Len(changes) < MaxChanges
    /\ req' = [req EXCEPT ![s].op = "stage", ![s].loaded[p] = params[p],
                          ![s].todo = {p}, ![s].value = v]
    /\ UNCHANGED <<params, changes, audit>>

\* db.get and _validate_value; an unknown parameter (404) or a value that is
\* not allowed (422) ends the request with nothing changed.
StageLoad(s, p, v) ==
    /\ req[s] = NoRequest
    /\ Begins(s)
    /\ v \in Allowed[p]
    /\ Len(changes) < MaxChanges
    /\ req' = [req EXCEPT ![s].op = "stage", ![s].loaded[p] = params[p],
                          ![s].todo = {p}, ![s].value = v]
    /\ UNCHANGED <<params, changes, audit>>

Restages_without_record(s) ==
    /\ req[s].op = "stage"
    /\ \E p \in req[s].todo :
         LET loaded == req[s].loaded[p]
         IN  /\ params' = [params EXCEPT ![p].pending = req[s].value]
             /\ changes' = IF loaded.pending # NULL THEN changes
                           ELSE Append(changes, [param |-> p, previous |-> loaded.active,
                                                 new |-> req[s].value, status |-> "PENDING"])
    /\ Finish(s)
    /\ UNCHANGED audit

\* Staging the active value withdraws the pending one and records nothing;
\* anything else becomes the pending value with a PENDING change record.
StageCommit(s) ==
    /\ req[s].op = "stage"
    /\ \E p \in req[s].todo :
         LET loaded == req[s].loaded[p]
             v      == req[s].value
             staged == IF v = loaded.active THEN NULL ELSE v
         IN  /\ staged # loaded.pending => ParamFree(s, p)
             /\ params' = [params EXCEPT ![p].pending = FlushPending(p, loaded, staged)]
             /\ changes' = IF v = loaded.active THEN changes
                           ELSE Append(changes, [param |-> p, previous |-> loaded.active,
                                                 new |-> v, status |-> "PENDING"])
    /\ Finish(s)
    /\ UNCHANGED audit

-----------------------------------------------------------------------------
(* revert_config_change *)

RevertLoad(s, p) ==
    /\ req[s] = NoRequest
    /\ Begins(s)
    /\ req' = [req EXCEPT ![s].op = "revert", ![s].loaded[p] = params[p],
                          ![s].todo = {p}]
    /\ UNCHANGED <<params, changes, audit>>

\* The SELECT of the parameter's PENDING change records.
RevertSelect(s) ==
    /\ req[s].op = "revert"
    /\ req[s].current = NULL
    /\ \E p \in req[s].todo :
         req' = [req EXCEPT ![s].current = p, ![s].chosen = PendingChanges(p)]
    /\ UNCHANGED <<params, changes, audit, overlapped>>

Revert_keeps_value(s) ==
    /\ req[s].op = "revert"
    /\ req[s].current # NULL
    /\ changes' = [i \in DOMAIN changes |->
                     IF i \in req[s].chosen
                     THEN [changes[i] EXCEPT !.status = "REVERTED"]
                     ELSE changes[i]]
    /\ Finish(s)
    /\ UNCHANGED <<params, audit>>

RevertCommit(s) ==
    /\ req[s].op = "revert"
    /\ req[s].current # NULL
    /\ LET p      == req[s].current
           loaded == req[s].loaded[p]
       IN  /\ loaded.pending # NULL => ParamFree(s, p)
           /\ ChangesFree(s, req[s].chosen)
           /\ params' = [params EXCEPT ![p].pending = FlushPending(p, loaded, NULL)]
           /\ changes' = [i \in DOMAIN changes |->
                            IF i \in req[s].chosen
                            THEN [changes[i] EXCEPT !.status = "REVERTED"]
                            ELSE changes[i]]
    /\ Finish(s)
    /\ UNCHANGED audit

-----------------------------------------------------------------------------
(* apply_pending_changes *)

\* SELECT of every parameter with a pending value; with none the request
\* commits an empty transaction.
ApplyLoad(s) ==
    LET staged == {p \in Params : params[p].pending # NULL} IN
    /\ req[s] = NoRequest
    /\ Begins(s)
    /\ staged # {}
    /\ req' = [req EXCEPT ![s].op = "apply", ![s].todo = staged,
                          ![s].loaded = [p \in Params |->
                                           IF p \in staged THEN params[p] ELSE NULL]]
    /\ UNCHANGED <<params, changes, audit>>

\* Top of the loop: .scalars().first() of the parameter's PENDING change
\* records.  The query has no ORDER BY, so any of them may come first.
ApplySelect(s) ==
    /\ req[s].op = "apply"
    /\ req[s].current = NULL
    /\ \E p \in req[s].todo :
         \/ /\ PendingChanges(p) = {}
            /\ req' = [req EXCEPT ![s].current = p]
         \/ \E i \in PendingChanges(p) :
              req' = [req EXCEPT ![s].current = p, ![s].chosen = {i}]
    /\ UNCHANGED <<params, changes, audit, overlapped>>

\* Rest of the loop: the row and the change record are assigned, and the flush
\* inside append_entry_in_transaction writes them with the audit entry.
ApplyFlush(s) ==
    LET p == req[s].current IN
    /\ req[s].op = "apply"
    /\ p # NULL
    /\ ParamFree(s, p)
    /\ ChangesFree(s, req[s].chosen)
    /\ req' = [req EXCEPT ![s].flushed = Append(@, [param  |-> p,
                                                    loaded |-> req[s].loaded[p],
                                                    closes |-> req[s].chosen]),
                          ![s].todo = @ \ {p},
                          ![s].current = NULL,
                          ![s].chosen = {}]
    /\ UNCHANGED <<params, changes, audit, overlapped>>

audit_value(p, v) == IF p \in Sensitive THEN Redacted ELSE v

Promotes_stored_value(p, row, W) ==
    IF row.pending # NULL /\ \E w \in W : w.param = p
    THEN [active |-> row.pending, pending |-> NULL]
    ELSE row

Promoted(p, row, W) ==
    LET mine == {w \in W : w.param = p} IN
    IF mine = {} THEN row
    ELSE LET w == CHOOSE x \in mine : TRUE IN
         [active  |-> IF w.loaded.pending = w.loaded.active THEN row.active
                      ELSE w.loaded.pending,
          pending |-> NULL]

Reads_previous_late(s) ==
    LET W      == Range(req[s].flushed)
        closed == UNION {w.closes : w \in W}
    IN  /\ params' = [p \in Params |-> Promoted(p, params[p], W)]
        /\ changes' = [i \in DOMAIN changes |->
                         IF i \in closed THEN [changes[i] EXCEPT !.status = "APPLIED"]
                         ELSE changes[i]]
        /\ audit' = audit \o [k \in DOMAIN req[s].flushed |->
                      LET w == req[s].flushed[k]
                      IN  [param    |-> w.param,
                           previous |-> audit_value(w.param, w.loaded.pending),
                           new      |-> audit_value(w.param, w.loaded.pending)]]
        /\ Finish(s)

ApplyPublish(s) ==
    LET W      == Range(req[s].flushed)
        closed == UNION {w.closes : w \in W}
    IN  /\ params' = [p \in Params |-> Promoted(p, params[p], W)]
        /\ changes' = [i \in DOMAIN changes |->
                         IF i \in closed THEN [changes[i] EXCEPT !.status = "APPLIED"]
                         ELSE changes[i]]
        /\ audit' = audit \o [k \in DOMAIN req[s].flushed |->
                      LET w == req[s].flushed[k]
                      IN  [param    |-> w.param,
                           previous |-> audit_value(w.param, w.loaded.active),
                           new      |-> audit_value(w.param, w.loaded.pending)]]
        /\ Finish(s)

Commits_each_item(s) ==
    /\ req[s].op = "apply"
    /\ req[s].flushed # <<>>
    /\ req[s].current = NULL
    /\ ApplyPublish(s)

\* The single commit after the loop: values, change records and audit entries.
ApplyCommit(s) ==
    /\ req[s].op = "apply"
    /\ req[s].todo = {}
    /\ ApplyPublish(s)

\* except: db.rollback(), or the connection is lost, or PostgreSQL breaks a
\* deadlock between two applies that lock the same rows in opposite order.
Rollback(s) ==
    /\ req[s] # NoRequest
    /\ Finish(s)
    /\ UNCHANGED <<params, changes, audit>>

-----------------------------------------------------------------------------
Init ==
    /\ params = [p \in Params |-> [active |-> Initial[p], pending |-> NULL]]
    /\ changes = <<>>
    /\ audit = <<>>
    /\ req = [s \in Sessions |-> NoRequest]
    /\ overlapped = FALSE

Step(s) ==
    \/ \E p \in Params, v \in Values : StageLoad(s, p, v)
    \/ StageCommit(s)
    \/ \E p \in Params : RevertLoad(s, p)
    \/ RevertSelect(s)
    \/ RevertCommit(s)
    \/ ApplyLoad(s)
    \/ ApplySelect(s)
    \/ ApplyFlush(s)
    \/ ApplyCommit(s)
    \/ Rollback(s)

Next == \E s \in Sessions : Step(s)

Spec == Init /\ [][Next]_vars

-----------------------------------------------------------------------------
(* Type invariant; an active or pending value is one _validate_value accepts. *)
TypeOK ==
    /\ params \in [Params -> ConfigParameter]
    /\ \A p \in Params : /\ params[p].active \in Allowed[p]
                         /\ params[p].pending \in Allowed[p] \cup {NULL}
    /\ changes \in Seq(ConfigChange)
    /\ audit \in Seq(AuditEntry)
    /\ req \in [Sessions -> Request]
    /\ overlapped \in BOOLEAN

\* A change record of p carries the value v.
Recorded(p, v) == \E i \in DOMAIN changes : changes[i].param = p /\ changes[i].new = v

(* However stages, reverts and applies interleave, no value becomes pending  *)
(* or active without a change record that introduced it: the config diff     *)
(* view can explain every value of every parameter.                          *)
Provenance ==
    \A p \in Params :
      /\ params[p].pending # NULL => Recorded(p, params[p].pending)
      /\ params[p].active # Initial[p] => Recorded(p, params[p].active)

\* Audit entries the step adds.
NewEntries == {audit'[i] : i \in Len(audit) + 1 .. Len(audit')}

PromotionAudited ==
    \A p \in Params :
      params'[p].active # params[p].active =>
        \E e \in NewEntries : e.param = p /\ e.new = audit_value(p, params'[p].active)

(* A step that changes an active value commits, in the same transaction, an  *)
(* audit entry that names the parameter and its new value.                   *)
AuditedPromotion == [][PromotionAudited]_vars

AppliedWhole ==
    audit' # audit =>
      \E s \in Sessions :
        LET loaded == {p \in Params : req[s].loaded[p] # NULL}
        IN  /\ {e.param : e \in NewEntries} = loaded
            /\ Len(audit') = Len(audit) + Cardinality(loaded)
            /\ \A p \in loaded : params'[p].pending = NULL

(* Apply is all-or-nothing: a commit that writes audit entries writes one    *)
(* for every parameter the apply loaded as pending, and leaves each of them  *)
(* with no pending value.                                                    *)
AllOrNothing == [][AppliedWhole]_vars

\* The first n audit entries leave parameter p at the value v.
LeaveAt(p, n, v) ==
    \/ /\ \A i \in 1..n : audit[i].param # p
       /\ v = Initial[p]
    \/ \E i \in 1..n : /\ audit[i].param = p /\ audit[i].new = v
                       /\ \A j \in i + 1 .. n : audit[j].param # p

TrailLeads ==
    \A p \in Params \ Sensitive :
      /\ LeaveAt(p, Len(audit), params[p].active)
      /\ \A i \in 1..Len(audit) : audit[i].param = p =>
           LeaveAt(p, i - 1, audit[i].previous) /\ audit[i].new # audit[i].previous

(* As long as requests do not overlap the audit entries of a parameter are   *)
(* its history: they lead from the initial to the active value, each from    *)
(* the value the one before it set, and none of them records a non-change.   *)
AuditTrail == ~overlapped => TrailLeads

StagedOpen ==
    \A p \in Params :
      params[p].pending # NULL =>
        /\ params[p].pending # params[p].active
        /\ \E i \in PendingChanges(p) : changes[i].new = params[p].pending

(* As long as requests do not overlap every staged value has an open change  *)
(* record, and only values that differ from the active one are staged.       *)
StagedHasOpenRecord == ~overlapped => StagedOpen

(* apply_pending_changes closes out the change record of the value it        *)
(* promotes: a record marked APPLIED names a value that was promoted.        *)
AppliedWasPromoted ==
    \A i \in DOMAIN changes :
      changes[i].status = "APPLIED" =>
        \E k \in DOMAIN audit :
          /\ audit[k].param = changes[i].param
          /\ audit[k].new = audit_value(changes[i].param, changes[i].new)

-----------------------------------------------------------------------------
(* The inductive invariants of the proofs.  What a request loaded was        *)
(* validated and recorded, and stays recorded: change records are never      *)
(* deleted.                                                                  *)

RecordsOf(p) == {i \in DOMAIN changes : changes[i].param = p}

Explained(p, row) ==
    /\ row.active \in Allowed[p] /\ row.pending \in Allowed[p] \cup {NULL}
    /\ row.pending # NULL => Recorded(p, row.pending)
    /\ row.active # Initial[p] => Recorded(p, row.active)

\* An apply has flushed or has still to flush each of the rows it loaded.
ApplySound(s) ==
    LET done == req[s].flushed IN
    /\ \A p \in Params : req[s].loaded[p] # NULL =>
         /\ req[s].loaded[p].pending # NULL
         /\ p \in req[s].todo \/ \E k \in DOMAIN done : done[k].param = p
    /\ \A k \in DOMAIN done :
         /\ done[k].param \notin req[s].todo
         /\ req[s].loaded[done[k].param] # NULL
         /\ done[k].loaded = req[s].loaded[done[k].param]
         /\ done[k].closes \subseteq RecordsOf(done[k].param)
    /\ \A i, k \in DOMAIN done : done[i].param = done[k].param => i = k

RequestSound(s) ==
    /\ \A p \in Params : req[s].loaded[p] # NULL => Explained(p, req[s].loaded[p])
    /\ \A p \in req[s].todo : req[s].loaded[p] # NULL
    /\ req[s].op = "stage" => \A p \in req[s].todo : req[s].value \in Allowed[p]
    /\ req[s].current # NULL => req[s].current \in req[s].todo
    /\ req[s].chosen \subseteq RecordsOf(req[s].current)
    /\ IF req[s].op = "apply" THEN ApplySound(s) ELSE req[s].flushed = <<>>

ParametersInv ==
    /\ TypeOK
    /\ \A p \in Params : Explained(p, params[p])
    /\ \A s \in Sessions : RequestSound(s)

(* Until requests overlap what the one request has loaded is still so. *)

OneRequest == \A s, t \in Sessions : req[s] # NoRequest /\ req[t] # NoRequest => s = t

RequestFresh(s) ==
    \A p \in Params : req[s].loaded[p] # NULL => req[s].loaded[p] = params[p]

SerialInv ==
    ~overlapped =>
      /\ OneRequest /\ \A s \in Sessions : RequestFresh(s)
      /\ StagedOpen /\ TrailLeads

=============================================================================
