----------------------------- MODULE MasterKeys -----------------------------
(***************************************************************************)
(* Master-key lifecycle and custodian ceremonies                           *)
(* (app/services/hsm_service.py) under concurrent requests.                *)
(*                                                                         *)
(* A request is one READ COMMITTED transaction that keeps what it loaded.  *)
(* Its writes are flushed together right before its commit, so flush and   *)
(* commit are one step; a column is part of the UPDATE only when its new   *)
(* value differs from the loaded one.  Keys are never deleted, and the     *)
(* unique index on key_label makes the label checks of create_key and      *)
(* rotate_key effective at the INSERT, so a key is named by its label.     *)
(***************************************************************************)
EXTENDS Naturals, Sequences, FiniteSets

CONSTANTS
    Sessions,       \* requests in flight
    Keys,           \* key labels
    Seeded,         \* the keys there at the start
    Custodians,     \* custodian e-mail addresses
    Required,       \* the values of required_approvals that are asked for
    NULL,
    MaxCeremonies   \* bound: key_ceremonies rows

ASSUME MasterKeysAssumption ==
    /\ Seeded \subseteq Keys
    /\ Required \subseteq Nat \ {0}
    /\ IsFiniteSet(Custodians)
    /\ NULL \notin Keys \cup Custodians
    /\ MaxCeremonies \in Nat

VARIABLES
    keys,           \* [Keys -> MasterKey or NULL], committed
    ceremonies,     \* committed key_ceremonies rows with their approvals
    req,            \* per session: the request's loaded rows
    overlapped      \* history: two requests have been under way at once

vars == <<keys, ceremonies, req, overlapped>>

-----------------------------------------------------------------------------
MasterKey == [status : {"PENDING", "ACTIVE", "EXPIRING", "RETIRED", "DISABLED"},
              superseded_by : Keys \cup {NULL}]

ASSUME NoRow == NULL \notin MasterKey

Usable == {"ACTIVE", "EXPIRING"}

\* approvals: each custodian's KeyCustodianApproval rows, TRUE for the ones
\* whose approved_at is set.  Nothing in the schema keeps a custodian from
\* having several.  invited is history: who has had a row from the start.
KeyCeremony == [key         : Keys,
                predecessor : Keys \cup {NULL},
                required    : Nat,
                status      : {"PENDING", "COMPLETE"},
                approvals   : [Custodians -> Seq(BOOLEAN)],
                invited     : SUBSET Custodians]

Ops == {"initiate", "approve", "complete", "rotate", "disable"}

Request == [op        : Ops \cup {"none"},
            at        : {"start", "loaded", "related", "ready"},
            key       : Keys \cup {NULL},
            row       : MasterKey \cup {NULL},   \* keys[key] as loaded
            pred      : Keys \cup {NULL},
            predRow   : MasterKey \cup {NULL},   \* keys[pred] as loaded
            ceremony  : Nat,                     \* index of the ceremony, 0 for none
            custodian : Custodians \cup {NULL},
            approval  : Nat]                     \* index of their row, 0 for a new one

NoRequest == [op |-> "none", at |-> "start", key |-> NULL, row |-> NULL, pred |-> NULL,
              predRow |-> NULL, ceremony |-> 0, custodian |-> NULL, approval |-> 0]

\* A request starts; it overlaps the ones that are under way.
Begins(s) == overlapped' = (overlapped \/ \E t \in Sessions \ {s} : req[t] # NoRequest)

Finish(s) == req' = [req EXCEPT ![s] = NoRequest] /\ UNCHANGED overlapped

Is(s, op, at) == req[s].op = op /\ req[s].at = at

\* The KeyCustodianApproval rows of a ceremony: <<u, i>> is custodian u's i-th.
ApprovalRows(c) == UNION {{u} \X DOMAIN ceremonies[c].approvals[u] : u \in Custodians}

Counts_every_row(c) == Cardinality(ApprovalRows(c))

approval_count(c) ==
    Cardinality({a \in ApprovalRows(c) : ceremonies[c].approvals[a[1]][a[2]]})

quorum_met(c) == approval_count(c) >= ceremonies[c].required

PendingCeremonies(k) ==
    {c \in DOMAIN ceremonies : ceremonies[c].key = k /\ ceremonies[c].status = "PENDING"}

-----------------------------------------------------------------------------
(* create_key, rotate_key, disable_key *)

Leaves_status_unset(k) ==
    /\ keys[k] = NULL
    /\ keys' = [keys EXCEPT ![k] = [status |-> NULL, superseded_by |-> NULL]]
    /\ overlapped' = (overlapped \/ \E s \in Sessions : req[s] # NoRequest)
    /\ UNCHANGED <<ceremonies, req>>

create_key(k) ==
    /\ keys[k] = NULL
    /\ keys' = [keys EXCEPT ![k] = [status |-> "PENDING", superseded_by |-> NULL]]
    /\ overlapped' = (overlapped \/ \E s \in Sessions : req[s] # NoRequest)
    /\ UNCHANGED <<ceremonies, req>>

\* _get_key_orm and the status check (409) of rotate_key and disable_key.
LoadKey(s, op, k) ==
    /\ req[s] = NoRequest
    /\ Begins(s)
    /\ keys[k] # NULL
    /\ \/ op = "rotate" /\ keys[k].status \in Usable
       \/ op = "disable" /\ keys[k].status \notin {"RETIRED", "DISABLED"}
    /\ req' = [req EXCEPT ![s].op = op, ![s].at = "ready", ![s].key = k, ![s].row = keys[k]]
    /\ UNCHANGED <<keys, ceremonies>>

\* rotate_key from the INSERT of the successor to the commit.  The successor's
\* label, given or derived by _next_version_label, must be free.
Rotate_forgets_link(s, successor) ==
    /\ Is(s, "rotate", "ready")
    /\ keys[successor] = NULL
    /\ keys' = [keys EXCEPT ![successor] = [status |-> "ACTIVE", superseded_by |-> NULL],
                            ![req[s].key].status = "RETIRED"]
    /\ Finish(s)
    /\ UNCHANGED ceremonies

CommitRotate(s, successor) ==
    /\ Is(s, "rotate", "ready")
    /\ keys[successor] = NULL
    /\ keys' = [keys EXCEPT ![successor] = [status |-> "ACTIVE", superseded_by |-> NULL],
                            ![req[s].key] = [status |-> "RETIRED",
                                             superseded_by |-> successor]]
    /\ Finish(s)
    /\ UNCHANGED ceremonies

CommitDisable(s) ==
    /\ Is(s, "disable", "ready")
    /\ keys' = [keys EXCEPT ![req[s].key].status = "DISABLED"]
    /\ Finish(s)
    /\ UNCHANGED ceremonies

-----------------------------------------------------------------------------
(* create_ceremony *)

\* The target must be PENDING; a predecessor must be another key.
InitiateLoadTarget(s, k, pred) ==
    /\ req[s] = NoRequest
    /\ Begins(s)
    /\ Len(ceremonies) < MaxCeremonies
    /\ keys[k] # NULL
    /\ keys[k].status = "PENDING"
    /\ pred # k
    /\ req' = [req EXCEPT ![s].op = "initiate", ![s].key = k, ![s].pred = pred,
                          ![s].at = IF pred = NULL THEN "related" ELSE "loaded"]
    /\ UNCHANGED <<keys, ceremonies>>

InitiateLoadPredecessor(s) ==
    /\ Is(s, "initiate", "loaded")
    /\ keys[req[s].pred] # NULL
    /\ keys[req[s].pred].status \in Usable
    /\ req' = [req EXCEPT ![s].at = "related"]
    /\ UNCHANGED <<keys, ceremonies, overlapped>>

\* The SELECT of a pending ceremony of the key, 409 when there is one.
Skips_duplicate_check(s) ==
    /\ Is(s, "initiate", "related")
    /\ req' = [req EXCEPT ![s].at = "ready"]
    /\ UNCHANGED <<keys, ceremonies, overlapped>>

InitiateCheckDuplicate(s) ==
    /\ Is(s, "initiate", "related")
    /\ PendingCeremonies(req[s].key) = {}
    /\ req' = [req EXCEPT ![s].at = "ready"]
    /\ UNCHANGED <<keys, ceremonies, overlapped>>

CommitInitiate(s, required) ==
    /\ Is(s, "initiate", "ready")
    /\ Len(ceremonies) < MaxCeremonies
    /\ ceremonies' = Append(ceremonies, [key |-> req[s].key, predecessor |-> req[s].pred,
                                         required |-> required, status |-> "PENDING",
                                         approvals |-> [u \in Custodians |-> <<>>],
                                         invited |-> {}])
    /\ Finish(s)
    /\ UNCHANGED keys

-----------------------------------------------------------------------------
(* approve_ceremony and complete_ceremony *)

\* SELECT of the ceremony, which must be PENDING (409); its approvals and its
\* key come with the SELECTs that selectinload issues next.
LoadCeremony(s, op, c, u) ==
    /\ req[s] = NoRequest
    /\ Begins(s)
    /\ op \in {"approve", "complete"}
    /\ ceremonies[c].status = "PENDING"
    /\ req' = [req EXCEPT ![s].op = op, ![s].at = "loaded", ![s].ceremony = c,
                          ![s].key = ceremonies[c].key,
                          ![s].pred = ceremonies[c].predecessor,
                          ![s].custodian = IF op = "approve" THEN u ELSE NULL]
    /\ UNCHANGED <<keys, ceremonies>>

Inserts_beside_null(s) ==
    LET mine == ceremonies[req[s].ceremony].approvals[req[s].custodian] IN
    /\ Is(s, "approve", "loaded")
    /\ \A i \in DOMAIN mine : ~mine[i]
    /\ req' = [req EXCEPT ![s].at = "ready", ![s].approval = 0]
    /\ UNCHANGED <<keys, ceremonies, overlapped>>

\* The SELECT of the approvals, in no particular order; the first that is the
\* custodian's own counts.  A row without approved_at is going to be updated,
\* no row at all to be inserted, and one approved already changes nothing.
ApproveLoadRelated(s) ==
    LET mine == ceremonies[req[s].ceremony].approvals[req[s].custodian] IN
    /\ Is(s, "approve", "loaded")
    /\ \E i \in IF mine = <<>> THEN {0} ELSE {n \in DOMAIN mine : ~mine[n]} :
         req' = [req EXCEPT ![s].at = "ready", ![s].approval = i]
    /\ UNCHANGED <<keys, ceremonies, overlapped>>

CommitApprove(s) ==
    LET i == req[s].approval IN
    /\ Is(s, "approve", "ready")
    /\ ceremonies' = [ceremonies EXCEPT
                        ![req[s].ceremony].approvals[req[s].custodian] =
                          IF i = 0 THEN Append(@, TRUE) ELSE [@ EXCEPT ![i] = TRUE]]
    /\ Finish(s)
    /\ UNCHANGED keys

Completes_without_quorum(s) ==
    /\ Is(s, "complete", "loaded")
    /\ req' = [req EXCEPT ![s].row = keys[req[s].key],
                          ![s].at = IF req[s].pred = NULL THEN "ready" ELSE "related"]
    /\ UNCHANGED <<keys, ceremonies, overlapped>>

\* The SELECTs of the approvals and of the key; as approvals are only given,
\* one step at the second SELECT allows the same outcomes.
\* quorum_met is evaluated on the approvals as loaded.  The status of the key
\* the ceremony is about is not looked at.
CompleteLoadRelated(s) ==
    /\ Is(s, "complete", "loaded")
    /\ quorum_met(req[s].ceremony)
    /\ req' = [req EXCEPT ![s].row = keys[req[s].key],
                          ![s].at = IF req[s].pred = NULL THEN "ready" ELSE "related"]
    /\ UNCHANGED <<keys, ceremonies, overlapped>>

\* SELECT of the predecessor by its label, whatever its status is by now.
CompleteLoadPredecessor(s) ==
    /\ Is(s, "complete", "related")
    /\ req' = [req EXCEPT ![s].at = "ready", ![s].predRow = keys[req[s].pred]]
    /\ UNCHANGED <<keys, ceremonies, overlapped>>

\* Column after a flush that assigned `new' to an attribute loaded as `old'.
Flush(column, old, new) == IF new = old THEN column ELSE new

NewKey(s, row) ==
    [status        |-> Flush(row.status, req[s].row.status, "ACTIVE"),
     superseded_by |-> IF req[s].pred = NULL THEN row.superseded_by
                       ELSE Flush(row.superseded_by, req[s].row.superseded_by, NULL)]

Predecessor(s, row) ==
    [status        |-> Flush(row.status, req[s].predRow.status, "RETIRED"),
     superseded_by |-> Flush(row.superseded_by, req[s].predRow.superseded_by, req[s].key)]

CommitComplete(s) ==
    /\ Is(s, "complete", "ready")
    /\ keys' = [k \in Keys |-> CASE k = req[s].key  -> NewKey(s, keys[k])
                                 [] k = req[s].pred -> Predecessor(s, keys[k])
                                 [] OTHER           -> keys[k]]
    /\ ceremonies' = [ceremonies EXCEPT ![req[s].ceremony].status = "COMPLETE"]
    /\ Finish(s)

\* The request fails or is refused after it loaded something.
Rollback(s) ==
    /\ req[s] # NoRequest
    /\ Finish(s)
    /\ UNCHANGED <<keys, ceremonies>>

-----------------------------------------------------------------------------
\* The ceremony seed_data.py leaves pending: a row for each custodian it
\* invites, some of them approved.
Seeded_ceremony(k, pred, required, approvals) ==
    [key |-> k, predecessor |-> pred, required |-> required, status |-> "PENDING",
     approvals |-> approvals, invited |-> {u \in Custodians : approvals[u] # <<>>}]

\* The seeded keys are in use; the key of the seeded ceremony is still PENDING.
Init ==
    \E target \in (Keys \ Seeded) \cup {NULL} :
      /\ \E use \in [Seeded -> Usable] :
           keys = [k \in Keys |->
                     CASE k \in Seeded -> [status |-> use[k], superseded_by |-> NULL]
                       [] k = target   -> [status |-> "PENDING", superseded_by |-> NULL]
                       [] OTHER        -> NULL]
      /\ IF target = NULL THEN ceremonies = <<>>
         ELSE \E pred \in Seeded, required \in Required,
                 approvals \in [Custodians -> {<<>>, <<TRUE>>, <<FALSE>>}] :
                ceremonies = <<Seeded_ceremony(target, pred, required, approvals)>>
      /\ req = [s \in Sessions |-> NoRequest]
      /\ overlapped = FALSE

Step(s) ==
    \/ \E op \in {"rotate", "disable"}, k \in Keys : LoadKey(s, op, k)
    \/ \E k \in Keys : CommitRotate(s, k)
    \/ CommitDisable(s)
    \/ \E k \in Keys, pred \in Keys \cup {NULL} : InitiateLoadTarget(s, k, pred)
    \/ InitiateLoadPredecessor(s)
    \/ InitiateCheckDuplicate(s)
    \/ \E required \in Required : CommitInitiate(s, required)
    \/ \E op \in Ops, c \in DOMAIN ceremonies, u \in Custodians : LoadCeremony(s, op, c, u)
    \/ ApproveLoadRelated(s)
    \/ CommitApprove(s)
    \/ CompleteLoadRelated(s)
    \/ CompleteLoadPredecessor(s)
    \/ CommitComplete(s)
    \/ Rollback(s)

Next ==
    \/ \E k \in Keys : create_key(k)
    \/ \E s \in Sessions : Step(s)

Spec == Init /\ [][Next]_vars

-----------------------------------------------------------------------------
(* Type invariant. *)
TypeOK ==
    /\ keys \in [Keys -> MasterKey \cup {NULL}]
    /\ ceremonies \in Seq(KeyCeremony)
    /\ req \in [Sessions -> Request]
    /\ overlapped \in BOOLEAN

ActivatedByQuorum ==
    \A k \in Keys :
      /\ keys[k] # NULL
      /\ keys[k].status = "PENDING"
      /\ keys'[k].status \in Usable
      => \E c \in PendingCeremonies(k) : ceremonies'[c].status = "COMPLETE" /\ quorum_met(c)

(* A key that was registered as pending is activated only by the commit that *)
(* completes a ceremony about it with a quorum of approvals whose approved_at*)
(* is set, however its requests interleave.                                  *)
ActivationNeedsQuorum == [][ActivatedByQuorum]_vars

SuccessorsActivated ==
    \A k \in Keys :
      keys[k] # NULL /\ keys[k].status = "RETIRED" =>
        LET successor == keys[k].superseded_by
        IN  successor # NULL /\ keys[successor] # NULL /\ keys[successor].status # "PENDING"

(* As long as requests do not overlap a retired key names the key that       *)
(* superseded it, and that key has been activated: it is not a reference     *)
(* still waiting for its ceremony.                                           *)
RetiredHasSuccessor == ~overlapped => SuccessorsActivated

\* The custodians with an approved row.
Approvers(c) ==
    {u \in Custodians : \E i \in DOMAIN ceremonies[c].approvals[u] : ceremonies[c].approvals[u][i]}

(* A completed m-of-n ceremony was approved by m different custodians. *)
QuorumOfCustodians ==
    \A c \in DOMAIN ceremonies :
      ceremonies[c].status = "COMPLETE" =>
        Cardinality(Approvers(c)) >= ceremonies[c].required

(* As long as requests do not overlap that holds: a custodian who approves  *)
(* again is not counted again, nor is one whose row has no approved_at.     *)
QuorumIfSerial == ~overlapped => QuorumOfCustodians

(* When only custodians who have a row from the start approved a ceremony,   *)
(* it holds under every interleaving: overlapping approvals of one of them   *)
(* update the same row, where two that find no row would both insert one.    *)
QuorumOfInvited ==
    \A c \in DOMAIN ceremonies :
      ceremonies[c].status = "COMPLETE" /\ Approvers(c) \subseteq ceremonies[c].invited =>
        Cardinality(Approvers(c)) >= ceremonies[c].required

(* The approvals that complete a ceremony are of that many different people: *)
(* until requests overlap whoever they are, and whatever overlaps as long as *)
(* they are the custodians it was set up with.                               *)
ApproversCountedOnce == QuorumIfSerial /\ QuorumOfInvited

(* What the 409 of create_ceremony is for: a key has at most one ceremony    *)
(* pending.                                                                  *)
OnePendingCeremony == \A k \in Keys : Cardinality(PendingCeremonies(k)) <= 1

(* As long as requests do not overlap a key has at most one pending ceremony, *)
(* and no ceremony stays pending for a key that is already in use.           *)
PendingCeremonyIsCurrent ==
    ~overlapped =>
      /\ OnePendingCeremony
      /\ \A k \in Keys : PendingCeremonies(k) # {} => keys[k].status \in {"PENDING", "DISABLED"}

-----------------------------------------------------------------------------
(* The inductive invariants of the proofs.  First what holds under every     *)
(* interleaving, because keys are never deleted, never return to PENDING and *)
(* approvals are only given.                                                 *)

Registered(k) == k \in Keys /\ keys[k] # NULL

Started(k) == Registered(k) /\ keys[k].status # "PENDING"

CeremonySound(c) ==
    /\ Registered(ceremonies[c].key)
    /\ ceremonies[c].predecessor # NULL => Started(ceremonies[c].predecessor)
    /\ ceremonies[c].predecessor # ceremonies[c].key
    /\ ceremonies[c].status = "COMPLETE" => quorum_met(c) /\ Started(ceremonies[c].key)
    /\ \A u \in ceremonies[c].invited : Len(ceremonies[c].approvals[u]) = 1

InitiateSound(s) ==
    /\ Registered(req[s].key) /\ req[s].pred # req[s].key
    /\ req[s].at = "loaded" => req[s].pred \in Keys
    /\ req[s].at # "loaded" /\ req[s].pred # NULL => Started(req[s].pred)

ApproveSound(s) ==
    /\ req[s].ceremony \in DOMAIN ceremonies /\ req[s].custodian \in Custodians
    /\ req[s].at = "ready" =>
         IF req[s].approval = 0
         THEN req[s].custodian \notin ceremonies[req[s].ceremony].invited
         ELSE req[s].approval \in DOMAIN ceremonies[req[s].ceremony].approvals[req[s].custodian]

CompleteSound(s) ==
    /\ req[s].ceremony \in DOMAIN ceremonies
    /\ req[s].key = ceremonies[req[s].ceremony].key
    /\ req[s].pred = ceremonies[req[s].ceremony].predecessor
    /\ req[s].at = "related" => req[s].pred # NULL
    /\ req[s].at # "loaded" =>
         /\ quorum_met(req[s].ceremony)
         /\ req[s].row # NULL
         /\ req[s].row.status # "PENDING" => Started(req[s].key)
    /\ req[s].at = "ready" /\ req[s].pred # NULL => req[s].predRow # NULL

RequestSound(s) ==
    /\ req[s].op = "disable" => Registered(req[s].key)
    /\ req[s].op = "rotate" => Started(req[s].key)
    /\ req[s].op = "initiate" => InitiateSound(s)
    /\ req[s].op = "approve" => ApproveSound(s)
    /\ req[s].op = "complete" => CompleteSound(s)

CeremonyInv ==
    /\ TypeOK
    /\ \A c \in DOMAIN ceremonies : CeremonySound(c)
    /\ \A s \in Sessions : RequestSound(s)

(* Then what holds until requests overlap: a request is alone and what it    *)
(* has loaded is still so.                                                   *)

RequestFresh(s) ==
    /\ req[s].op = "rotate" => keys[req[s].key].status \in Usable
    /\ req[s].op = "initiate" =>
         /\ keys[req[s].key].status = "PENDING"
         /\ req[s].at # "loaded" /\ req[s].pred # NULL => PendingCeremonies(req[s].pred) = {}
         /\ req[s].at = "ready" => PendingCeremonies(req[s].key) = {}
    /\ Is(s, "approve", "ready") /\ req[s].approval = 0 =>
         ceremonies[req[s].ceremony].approvals[req[s].custodian] = <<>>
    /\ req[s].op = "complete" =>
         /\ ceremonies[req[s].ceremony].status = "PENDING"
         /\ req[s].at # "loaded" => req[s].row = keys[req[s].key]
         /\ req[s].at = "ready" /\ req[s].pred # NULL => req[s].predRow = keys[req[s].pred]

OneRequest == \A s, t \in Sessions : req[s] # NoRequest /\ req[t] # NoRequest => s = t

ApprovedOnce ==
    \A c \in DOMAIN ceremonies : \A u \in Custodians : Len(ceremonies[c].approvals[u]) <= 1

OnePending ==
    \A k \in Keys : \A c, d \in PendingCeremonies(k) : c = d

PendingNotInUse ==
    \A c \in DOMAIN ceremonies :
      ceremonies[c].status = "PENDING" => keys[ceremonies[c].key].status \in {"PENDING", "DISABLED"}

PredecessorsSettled ==
    \A c \in DOMAIN ceremonies :
      ceremonies[c].status = "PENDING" /\ ceremonies[c].predecessor # NULL =>
        PendingCeremonies(ceremonies[c].predecessor) = {}

TablesSerial ==
    /\ ApprovedOnce /\ OnePending /\ PendingNotInUse /\ PredecessorsSettled
    /\ SuccessorsActivated

SerialInv == ~overlapped => OneRequest /\ TablesSerial /\ \A s \in Sessions : RequestFresh(s)

=============================================================================
