----------------------------- MODULE Anomalies -----------------------------
(***************************************************************************)
(* The lifecycle of anomalies and the history that is rebuilt from their   *)
(* audit entries (app/services/anomaly_service.py).                        *)
(*                                                                         *)
(* An update loads the rows, then flushes one row and appends one audit    *)
(* entry at a time and commits them together.  A flush that changes a row  *)
(* keeps its row lock until the transaction ends, and waits for the lock   *)
(* of another; the entry takes its sequence number at its INSERT.          *)
(***************************************************************************)
EXTENDS Requests, SequencesExt

CONSTANTS
    Events,         \* ids of anomalies
    MaxHistory      \* bound: audit entries, checked when a request begins

ASSUME AnomaliesAssumption == MaxHistory \in Nat /\ IsFiniteSet(Events)

VARIABLES
    events,         \* table anomaly_events, NULL for no row
    history,        \* committed ANOMALY_DETECTED entries of audit_log_entries
    sequence        \* last value of the sequence of audit_log_entries

anomalyTables == <<events, history, sequence>>

-----------------------------------------------------------------------------
AnomalyStatus == {"OPEN", "INVESTIGATING", "RESOLVED", "DISMISSED"}

\* `resolved': resolved_at is set.
AnomalyEvent == [status : AnomalyStatus, resolved : BOOLEAN]

ASSUME AnomaliesNoRow == NULL \notin AnomalyEvent /\ NULL \notin AnomalyStatus

\* The metadata of an audit entry that get_anomaly_history reads.
AnomalyHistoryEntry == [sequence : Nat, event : Events,
                        previous : {NULL} \cup AnomalyStatus, new : AnomalyStatus]

\* `todo' are the rows to flush, in the order the SELECT returned them; `mine'
\* the entries flushed and not committed.
AnomalyRequest == [op : {"update"}, status : AnomalyStatus, todo : Seq(Events),
                   loaded : [Events -> {NULL} \cup AnomalyEvent],
                   mine : SUBSET AnomalyHistoryEntry]

-----------------------------------------------------------------------------
(* What a request writes *)

Keeps_resolved_at(row, status) ==
    [status |-> status, resolved |-> status = "RESOLVED" \/ row.resolved]

\* The attributes assigned to a row that was loaded as `row'.
Assigned(row, status) ==
    [status   |-> status,
     resolved |-> status = "RESOLVED" \/ (row.resolved /\ status # "OPEN")]

\* The flush has something to write: resolved_at always gets a new time.
Dirty(row, status) == status = "RESOLVED" \/ Assigned(row, status) # row

\* A column after the UPDATE: only columns that changed are written.
Column(current, loaded, assigned) == IF assigned = loaded THEN current ELSE assigned

Nulls_unchanged_status(current, row, status) ==
    [status   |-> IF status = row.status THEN NULL ELSE status,
     resolved |-> Assigned(row, status).resolved]

\* The row after the UPDATE.
Updated(current, row, status) ==
    [status   |-> Column(current.status, row.status, status),
     resolved |-> IF status = "RESOLVED" THEN TRUE
                  ELSE Column(current.resolved, row.resolved, Assigned(row, status).resolved)]

Records_assigned_status(s, e) ==
    [sequence |-> sequence + 1, event |-> e,
     previous |-> req[s].status, new |-> req[s].status]

\* _audit_metadata: previous_status was taken from the row before assigning.
audit_metadata(s, e) ==
    [sequence |-> sequence + 1, event |-> e,
     previous |-> req[s].loaded[e].status, new |-> req[s].status]

\* Rows that a request has flushed, and the ones among them it has locked.
Flushed(s) == IF req[s] = Idle THEN {} ELSE {h.event : h \in req[s].mine}

Locked(s) == {e \in Flushed(s) : Dirty(req[s].loaded[e], req[s].status)}

\* The sessions whose locks the next flush of s has to wait for.
WaitsFor(s) ==
    IF req[s] = Idle \/ req[s].todo = << >> THEN {}
    ELSE {t \in Sessions \ {s} : /\ Head(req[s].todo) \in Locked(t)
                                 /\ Dirty(req[s].loaded[Head(req[s].todo)], req[s].status)}

-----------------------------------------------------------------------------
(* Operations *)

\* create_anomaly_event: the row and its entry in one commit, nothing of which
\* another request can see before.
create_anomaly_event(s, e) ==
    /\ events[e] = NULL
    /\ sequence < MaxHistory
    /\ Instant(s)
    /\ events' = [events EXCEPT ![e] = [status |-> "OPEN", resolved |-> FALSE]]
    /\ sequence' = sequence + 1
    /\ history' = history \cup {[sequence |-> sequence + 1, event |-> e,
                                 previous |-> NULL, new |-> "OPEN"]}

\* update_anomaly_status: acknowledge, resolve, dismiss and reopen.
update_anomaly_status(s, e, v) ==
    /\ events[e] # NULL
    /\ sequence < MaxHistory
    /\ Begin(s, [op |-> "update", status |-> v, todo |-> <<e>>, loaded |-> events, mine |-> {}])
    /\ UNCHANGED anomalyTables

\* bulk_update_anomaly_status: acknowledge and resolve; unknown ids are left out.
bulk_update_anomaly_status(s, E, v) ==
    /\ sequence < MaxHistory
    /\ \E q \in SetToSeqs({e \in E : events[e] # NULL}) :
         Begin(s, [op |-> "update", status |-> v, todo |-> q, loaded |-> events, mine |-> {}])
    /\ UNCHANGED anomalyTables

\* db.flush() and _append_anomaly_audit for the next row.
append_anomaly_audit(s) ==
    /\ req[s] # Idle /\ req[s].todo # << >>
    /\ WaitsFor(s) = {}
    /\ sequence' = sequence + 1
    /\ Continue(s, [req[s] EXCEPT !.todo = Tail(@),
                                  !.mine = @ \cup {audit_metadata(s, Head(req[s].todo))}])
    /\ UNCHANGED <<events, history>>

Commits_when_alone(s) ==
    /\ req[s] # Idle /\ req[s].todo = << >>
    /\ \A t \in Sessions \ {s} : req[t] = Idle
    /\ events' = [e \in Events |->
                    IF e \in Locked(s)
                    THEN Updated(events[e], req[s].loaded[e], req[s].status) ELSE events[e]]
    /\ history' = history \cup req[s].mine
    /\ Finish(s)
    /\ UNCHANGED sequence

\* The commit makes the rows and their entries visible at once.
UpdateCommit(s) ==
    /\ req[s] # Idle /\ req[s].todo = << >>
    /\ events' = [e \in Events |->
                    IF e \in Locked(s)
                    THEN Updated(events[e], req[s].loaded[e], req[s].status) ELSE events[e]]
    /\ history' = history \cup req[s].mine
    /\ Finish(s)
    /\ UNCHANGED sequence

\* The database aborts a request that waits in a cycle of lock waits.
DeadlockAbort(s) ==
    /\ \E D \in SUBSET Sessions :
         s \in D /\ \A t \in D : WaitsFor(t) \cap D # {}
    /\ Finish(s)
    /\ UNCHANGED anomalyTables

-----------------------------------------------------------------------------
Entries(e) == {h \in history : h.event = e}

\* How many of the entries come before h.
Rank(entries, h) == Cardinality({k \in entries : k.sequence < h.sequence})

BySequence(entries) ==
    [i \in 1..Cardinality(entries) |-> CHOOSE h \in entries : Rank(entries, h) = i - 1]

\* get_anomaly_history: the entries of an anomaly, ORDER BY sequence.
get_anomaly_history(e) == BySequence(Entries(e))

AnomaliesInit ==
    /\ events = [e \in Events |-> NULL]
    /\ history = {}
    /\ sequence = 0

AnomaliesNext ==
    \/ \E s \in Sessions, e \in Events : create_anomaly_event(s, e)
    \/ \E s \in Sessions, e \in Events, v \in AnomalyStatus : update_anomaly_status(s, e, v)
    \/ \E s \in Sessions, E \in SUBSET Events, v \in {"INVESTIGATING", "RESOLVED"} :
         bulk_update_anomaly_status(s, E, v)
    \/ \E s \in Sessions : \/ append_anomaly_audit(s) \/ UpdateCommit(s) \/ DeadlockAbort(s)
                           \/ Abort(s) /\ UNCHANGED anomalyTables

\* A request's coroutine goes on; a waiter gets its lock when it is free again
\* and again (lock queues); the deadlock detector runs.
AnomaliesFairness ==
    \A s \in Sessions : /\ SF_<<reqVars, anomalyTables>>(append_anomaly_audit(s))
                        /\ WF_<<reqVars, anomalyTables>>(UpdateCommit(s))
                        /\ WF_<<reqVars, anomalyTables>>(DeadlockAbort(s))

-----------------------------------------------------------------------------
AnomaliesTypeOK ==
    /\ events \in [Events -> {NULL} \cup AnomalyEvent]
    /\ history \subseteq AnomalyHistoryEntry
    /\ sequence \in Nat

(* Whatever overlaps, aborts or deadlocks: the status of an anomaly is the   *)
(* one that the last transition of its history (the entry with the greatest  *)
(* sequence that names two different statuses, the creation included) ended  *)
(* in, because the row lock is held while the entry takes its sequence       *)
(* number (get_anomaly_history).                                             *)
HistoryEndsInStatus ==
    \A e \in Events : events[e] # NULL =>
      LET T == {h \in history : h.event = e /\ h.previous # h.new}
      IN  \E h \in T : /\ \A k \in T : k.sequence <= h.sequence
                       /\ h.new = events[e].status

(* As long as requests do not overlap the history is the whole life of the   *)
(* anomaly: it starts with the creation, every entry starts from the status  *)
(* the one before it ended in, and resolved_at is set for a RESOLVED anomaly *)
(* and cleared for an OPEN one.                                              *)
HistoryChainsIfSerial ==
    ~overlapped => \A e \in Events : events[e] # NULL =>
      LET q == get_anomaly_history(e)
      IN  /\ q # << >> /\ q[1].previous = NULL
          /\ \A i \in 1..(Len(q) - 1) : q[i + 1].previous = q[i].new
          /\ q[Len(q)].new = events[e].status
          /\ events[e].status = "RESOLVED" => events[e].resolved
          /\ events[e].status = "OPEN" => ~events[e].resolved

(* A request that has begun ends, by its commit or by an abort: updates in   *)
(* bulk that lock the same rows in different orders do not wait for each     *)
(* other for ever.                                                           *)
RequestsEnd == \A s \in Sessions : req[s] # Idle ~> req[s] = Idle

-----------------------------------------------------------------------------
(* What the proof of HistoryEndsInStatus rests on: an entry that records a   *)
(* transition was flushed with its row locked, so until it is committed no   *)
(* other transition of that row is recorded.                                 *)

Moves(h) == h.previous # h.new

\* The entries flushed are of the rows loaded, one for each row done.
RequestRecords(s) ==
    LET r == req[s] IN
    r # Idle =>
      /\ \A e \in Events : r.loaded[e] # NULL => events[e] # NULL
      /\ \A i \in 1..Len(r.todo) :
           /\ r.loaded[r.todo[i]] # NULL
           /\ \A h \in r.mine : h.event # r.todo[i]
           /\ \A j \in 1..Len(r.todo) : r.todo[i] = r.todo[j] => i = j
      /\ \A h \in r.mine :
           /\ r.loaded[h.event] # NULL
           /\ h.previous = r.loaded[h.event].status /\ h.new = r.status
           /\ h.sequence <= sequence
           /\ \A k \in r.mine : k.event = h.event => k = h

LocksExclude ==
    \A s, t \in Sessions : s # t /\ req[s] # Idle /\ req[t] # Idle =>
      \A h \in req[s].mine, k \in req[t].mine : Moves(h) /\ Moves(k) => h.event # k.event

FlushedLast ==
    \A s \in Sessions : req[s] # Idle =>
      \A h \in req[s].mine, k \in history :
        Moves(h) /\ Moves(k) /\ k.event = h.event => k.sequence < h.sequence

AnomaliesInv ==
    /\ AnomaliesTypeOK /\ req \in [Sessions -> AnomalyRequest \cup {Idle}]
    /\ \A h \in history : h.sequence <= sequence
    /\ \A s \in Sessions : RequestRecords(s)
    /\ LocksExclude /\ FlushedLast /\ HistoryEndsInStatus

(* What the proof of HistoryChainsIfSerial rests on.                         *)

\* The entries of an anomaly tell its life up to the state of its row.
Life(entries, row) ==
    IF row = NULL THEN entries = {}
    ELSE /\ IsFiniteSet(entries)
         /\ \A h, k \in entries : h.sequence = k.sequence => h = k
         /\ \E h \in entries : h.previous = NULL /\ \A k \in entries : h.sequence <= k.sequence
         /\ \E h \in entries : h.new = row.status /\ \A k \in entries : k.sequence <= h.sequence
         /\ \A h, k \in entries :
              \/ h.sequence >= k.sequence
              \/ \E x \in entries : h.sequence < x.sequence /\ x.sequence < k.sequence
              \/ k.previous = h.new
         /\ row.status = "RESOLVED" => row.resolved
         /\ row.status = "OPEN" => ~row.resolved

\* The one request under way loaded the rows as they still are.
LifeInv ==
    /\ RequestsOf(AnomalyRequest) /\ OneRequest
    /\ ~overlapped =>
         /\ \A e \in Events : Life(Entries(e), events[e])
         /\ \A s \in Sessions : req[s] # Idle =>
              /\ req[s].loaded = events
              /\ \A h \in req[s].mine, k \in history : k.sequence < h.sequence

AnomaliesSpec == RequestsInit /\ AnomaliesInit /\ [][AnomaliesNext]_<<reqVars, anomalyTables>>

=============================================================================
