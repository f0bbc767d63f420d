------------------------------ MODULE Requests ------------------------------
(***************************************************************************)
(* What the request handlers of the smaller services share                 *)
(* (app/db/session.py).  A request has one database session, opened with   *)
(* autoflush=False and expire_on_commit=False: its writes reach the        *)
(* database at an explicit flush or at the commit, and the objects it has  *)
(* loaded are not read again, not even after the commit.  Transactions are *)
(* READ COMMITTED, so between two statements others may commit.            *)
(***************************************************************************)
EXTENDS Naturals, FiniteSets

CONSTANTS
    Sessions,       \* requests that can be in flight
    NULL

VARIABLES
    req,            \* per session: the request's locals, Idle when there is none
    overlapped      \* history: two requests have been under way at once

reqVars == <<req, overlapped>>

-----------------------------------------------------------------------------
Idle == [op |-> "none"]

\* A session starts work; it overlaps the requests that are under way.
Overlaps(s) == overlapped' = (overlapped \/ \E t \in Sessions \ {s} : req[t] # Idle)

Continue(s, r) == req' = [req EXCEPT ![s] = r] /\ UNCHANGED overlapped

Finish(s) == Continue(s, Idle)

\* get_db opens the session and the handler makes its first reads.
Begin(s, r) ==
    /\ req[s] = Idle
    /\ req' = [req EXCEPT ![s] = r]
    /\ Overlaps(s)

\* A request whose reads and commit no other request can tell apart.
Instant(s) ==
    /\ req[s] = Idle
    /\ Overlaps(s)
    /\ UNCHANGED req

\* The request fails anywhere (an HTTPException, an IntegrityError, a lost
\* connection, a crash): get_db closes the session, which rolls back.
Abort(s) == req[s] # Idle /\ Finish(s)

RequestsInit ==
    /\ req = [s \in Sessions |-> Idle]
    /\ overlapped = FALSE

-----------------------------------------------------------------------------
(* What the proofs use of requests. *)

RequestsOf(R) == req \in [Sessions -> R \cup {Idle}] /\ overlapped \in BOOLEAN

\* Until requests overlap one is under way at a time.
OneRequest ==
    ~overlapped => \A s, t \in Sessions : req[s] # Idle /\ req[t] # Idle => s = t

=============================================================================
