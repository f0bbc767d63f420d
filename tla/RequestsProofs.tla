--------------------------- MODULE RequestsProofs ---------------------------
(***************************************************************************)
(* Facts about requests that the proofs about the services share: what the *)
(* steps of a request do to `req' and to the history of overlaps.          *)
(***************************************************************************)
EXTENDS Requests, TLAPS

(* A request that begins keeps requests well typed and one at a time; if it  *)
(* is still serial afterwards, nothing was under way before.                 *)
LEMMA Begins ==
  ASSUME NEW R, NEW s \in Sessions, NEW r \in R, RequestsOf(R), OneRequest, Begin(s, r)
  PROVE  /\ RequestsOf(R)' /\ OneRequest'
         /\ req'[s] = r /\ \A t \in Sessions \ {s} : req'[t] = req[t]
         /\ ~overlapped' => ~overlapped /\ \A t \in Sessions : req[t] = Idle
<1>1. req'[s] = r /\ \A t \in Sessions \ {s} : req'[t] = req[t]
  BY DEF Begin, RequestsOf
<1>2. overlapped' \in BOOLEAN
  BY DEF Begin, Overlaps, RequestsOf
<1>3. ~overlapped' => ~overlapped /\ \A t \in Sessions : req[t] = Idle
  BY DEF Begin, Overlaps, RequestsOf
<1>4. req' \in [Sessions -> R \cup {Idle}]
  BY DEF Begin, RequestsOf
<1> QED
  BY <1>1, <1>2, <1>3, <1>4 DEF RequestsOf, OneRequest

(* So does a request that goes on, fails or ends. *)
LEMMA Continues ==
  ASSUME NEW R, NEW s \in Sessions, NEW r \in R \cup {Idle}, RequestsOf(R), OneRequest,
         req[s] # Idle, Continue(s, r)
  PROVE  /\ RequestsOf(R)' /\ OneRequest'
         /\ req'[s] = r /\ \A t \in Sessions \ {s} : req'[t] = req[t]
         /\ overlapped' = overlapped
         /\ ~overlapped => \A t \in Sessions \ {s} : req[t] = Idle
<1>1. req'[s] = r /\ \A t \in Sessions \ {s} : req'[t] = req[t]
  BY DEF Continue, RequestsOf
<1>2. req' \in [Sessions -> R \cup {Idle}] /\ overlapped' = overlapped
  BY DEF Continue, RequestsOf
<1> QED
  BY <1>1, <1>2 DEF RequestsOf, OneRequest

(* And a request that is one step. *)
LEMMA Instants ==
  ASSUME NEW R, NEW s \in Sessions, RequestsOf(R), OneRequest, Instant(s)
  PROVE  /\ RequestsOf(R)' /\ OneRequest' /\ req' = req
         /\ ~overlapped' => ~overlapped /\ \A t \in Sessions : req[t] = Idle
<1>1. overlapped' \in BOOLEAN
  BY DEF Instant, Overlaps, RequestsOf
<1>2. ~overlapped' => ~overlapped /\ \A t \in Sessions : req[t] = Idle
  BY DEF Instant, Overlaps, RequestsOf
<1> QED
  BY <1>1, <1>2 DEF Instant, RequestsOf, OneRequest

(* At the start nothing is under way. *)
LEMMA RequestsStart ==
  ASSUME NEW R, RequestsInit
  PROVE  RequestsOf(R) /\ OneRequest /\ ~overlapped /\ \A s \in Sessions : req[s] = Idle
<1>1. overlapped \in BOOLEAN
  BY DEF RequestsInit
<1>2. req \in [Sessions -> R \cup {Idle}]
  BY DEF RequestsInit
<1> QED
  BY <1>1, <1>2 DEF RequestsInit, RequestsOf, OneRequest

=============================================================================
