-------------------------- MODULE MasterKeysProofs --------------------------
(***************************************************************************)
(* Theorems about MasterKeys for any sets of sessions, keys and custodians *)
(* and any required number of approvals.  Part 1: counting approvals.      *)
(* Part 2: what holds under every interleaving.  Part 3: what holds until  *)
(* requests overlap.                                                       *)
(***************************************************************************)
EXTENDS MasterKeys, FiniteSetTheorems, SequenceTheorems, TLAPS

-----------------------------------------------------------------------------
(* Part 1: counting the approvals of a ceremony. *)

\* The KeyCustodianApproval rows when each custodian's are given, and those of
\* them whose approved_at is set.
Rows(a) == UNION {{u} \X DOMAIN a[u] : u \in Custodians}

Given(a) == {x \in Rows(a) : a[x[1]][x[2]]}

Givers(a) == {u \in Custodians : \E i \in DOMAIN a[u] : a[u][i]}

(* A row is a custodian and one of their indices. *)
LEMMA RowPairs ==
  ASSUME NEW a
  PROVE  /\ \A u \in Custodians : \A i \in DOMAIN a[u] : <<u, i>> \in Rows(a)
         /\ \A x \in Rows(a) : \E u \in Custodians : \E i \in DOMAIN a[u] : x = <<u, i>>
<1>1. ASSUME NEW u \in Custodians, NEW i \in DOMAIN a[u] PROVE <<u, i>> \in Rows(a)
  <2>1. <<u, i>> \in {u} \X DOMAIN a[u]
    OBVIOUS
  <2> QED
    BY <2>1 DEF Rows
<1>2. ASSUME NEW x \in Rows(a)
      PROVE  \E u \in Custodians : \E i \in DOMAIN a[u] : x = <<u, i>>
  <2>1. PICK u \in Custodians : x \in {u} \X DOMAIN a[u]
    BY DEF Rows
  <2>2. PICK i \in DOMAIN a[u] : x = <<u, i>>
    BY <2>1
  <2> QED
    BY <2>2
<1> QED
  BY <1>1, <1>2

LEMMA RowsFinite ==
  ASSUME NEW a \in [Custodians -> Seq(BOOLEAN)]
  PROVE  IsFiniteSet(Given(a)) /\ Cardinality(Given(a)) \in Nat
<1> DEFINE D == {{u} \X DOMAIN a[u] : u \in Custodians}
           f == [u \in Custodians |-> {u} \X DOMAIN a[u]]
<1>1. f \in Surjection(Custodians, D)
  BY DEF Surjection
<1>2. IsFiniteSet(D)
  BY <1>1, FS_Surjection, MasterKeysAssumption
<1>3. ASSUME NEW T \in D PROVE IsFiniteSet(T)
  <2>1. PICK u \in Custodians : T = {u} \X DOMAIN a[u]
    OBVIOUS
  <2>2. IsFiniteSet({u}) /\ IsFiniteSet(DOMAIN a[u])
    <3>1. a[u] \in Seq(BOOLEAN)
      OBVIOUS
    <3>2. DOMAIN a[u] = 1..Len(a[u]) /\ 1 \in Int /\ Len(a[u]) \in Int
      BY <3>1
    <3>3. IsFiniteSet(1..Len(a[u]))
      BY <3>2, FS_Interval
    <3> QED
      BY <3>2, <3>3, FS_Singleton
  <2> QED
    BY <2>1, <2>2, FS_Product
<1>4. IsFiniteSet(UNION D)
  BY <1>2, <1>3, FS_UNION
<1>5. IsFiniteSet(Given(a))
  BY <1>4, FS_Subset DEF Given, Rows
<1> QED
  BY <1>5, FS_CardinalityType

(* Rows that are added or approved never make fewer approvals. *)
LEMMA GivenGrows ==
  ASSUME NEW a \in [Custodians -> Seq(BOOLEAN)], NEW b \in [Custodians -> Seq(BOOLEAN)],
         \A u \in Custodians :
           Len(a[u]) <= Len(b[u]) /\ \A i \in DOMAIN a[u] : a[u][i] => b[u][i]
  PROVE  Cardinality(Given(a)) <= Cardinality(Given(b))
<1>1. \A u \in Custodians : DOMAIN a[u] \subseteq DOMAIN b[u]
  <2> SUFFICES ASSUME NEW u \in Custodians PROVE DOMAIN a[u] \subseteq DOMAIN b[u]
    OBVIOUS
  <2>1. a[u] \in Seq(BOOLEAN) /\ b[u] \in Seq(BOOLEAN)
    OBVIOUS
  <2> QED
    BY <2>1
<1>2. ASSUME NEW x \in Given(a) PROVE x \in Given(b)
  <2>0. PICK u \in Custodians : \E i \in DOMAIN a[u] : x = <<u, i>>
    BY RowPairs DEF Given
  <2>1. PICK i \in DOMAIN a[u] : x = <<u, i>>
    BY <2>0
  <2>2. a[u][i]
    BY <2>1 DEF Given
  <2>3. i \in DOMAIN b[u] /\ b[u][i]
    BY <1>1, <2>2
  <2>4. <<u, i>> \in Rows(b)
    BY <2>3, RowPairs
  <2> QED
    BY <2>1, <2>3, <2>4 DEF Given
<1>3. Given(a) \subseteq Given(b)
  BY <1>2
<1> QED
  BY <1>3, RowsFinite, FS_Subset

(* When nobody who approved has two rows, there are as many custodians who *)
(* approved as approved rows.                                              *)
LEMMA GivenByDifferentCustodians ==
  ASSUME NEW a \in [Custodians -> Seq(BOOLEAN)], \A u \in Givers(a) : Len(a[u]) <= 1
  PROVE  /\ Cardinality(Given(a)) <= Cardinality(Givers(a))
         /\ Cardinality(Givers(a)) \in Nat
<1> DEFINE f == [u \in Givers(a) |-> <<u, 1>>]
<1>1. IsFiniteSet(Givers(a))
  BY FS_Subset, MasterKeysAssumption DEF Givers
<1>2. \A u \in Givers(a) : 1 \in DOMAIN a[u] /\ a[u][1] /\ u \in Custodians
  <2> SUFFICES ASSUME NEW u \in Givers(a)
               PROVE  1 \in DOMAIN a[u] /\ a[u][1] /\ u \in Custodians
    OBVIOUS
  <2>1. u \in Custodians /\ a[u] \in Seq(BOOLEAN)
    BY DEF Givers
  <2>2. PICK i \in DOMAIN a[u] : a[u][i]
    BY DEF Givers
  <2>3. i = 1
    BY <2>1
  <2> QED
    BY <2>1, <2>2, <2>3
<1>3. ASSUME NEW u \in Givers(a) PROVE <<u, 1>> \in Given(a)
  <2>1. <<u, 1>> \in Rows(a)
    BY <1>2, RowPairs
  <2> QED
    BY <1>2, <2>1 DEF Given
<1>4. ASSUME NEW x \in Given(a) PROVE \E u \in Givers(a) : x = <<u, 1>>
  <2>0. PICK u \in Custodians : \E i \in DOMAIN a[u] : x = <<u, i>>
    BY RowPairs DEF Given
  <2>1. PICK i \in DOMAIN a[u] : x = <<u, i>>
    BY <2>0
  <2>2. a[u][i]
    BY <2>1 DEF Given
  <2>3. u \in Givers(a) /\ a[u] \in Seq(BOOLEAN)
    BY <2>2 DEF Givers
  <2>4. i = 1
    BY <2>3
  <2> QED
    BY <2>1, <2>3, <2>4
<1>5. f \in Surjection(Givers(a), Given(a))
  BY <1>3, <1>4 DEF Surjection
<1> QED
  BY <1>1, <1>5, FS_Surjection, FS_CardinalityType

-----------------------------------------------------------------------------
(* Part 2: what holds under every interleaving. *)

\* Keys are never deleted and never return to PENDING.
KeysKept ==
    \A k \in Keys : keys[k] # NULL =>
      keys'[k] # NULL /\ (keys[k].status # "PENDING" => keys'[k].status # "PENDING")

\* Approvals are only given, and a custodian with a row from the start gets no
\* other one.
ApprovalsKept(c) ==
    /\ ceremonies'[c].invited = ceremonies[c].invited
    /\ \A u \in Custodians :
         /\ Len(ceremonies[c].approvals[u]) <= Len(ceremonies'[c].approvals[u])
         /\ \A i \in DOMAIN ceremonies[c].approvals[u] :
              ceremonies[c].approvals[u][i] => ceremonies'[c].approvals[u][i]
    /\ \A u \in ceremonies[c].invited :
         Len(ceremonies'[c].approvals[u]) = Len(ceremonies[c].approvals[u])

\* Ceremonies are never deleted.
CeremoniesKept ==
    /\ Len(ceremonies) <= Len(ceremonies')
    /\ \A c \in DOMAIN ceremonies :
         /\ ceremonies'[c].key = ceremonies[c].key
         /\ ceremonies'[c].predecessor = ceremonies[c].predecessor
         /\ ceremonies'[c].required = ceremonies[c].required
         /\ ApprovalsKept(c)

LEMMA CeremonyRow ==
  ASSUME TypeOK, NEW c \in DOMAIN ceremonies
  PROVE  /\ ceremonies[c] \in KeyCeremony
         /\ ceremonies[c].approvals \in [Custodians -> Seq(BOOLEAN)]
         /\ \A u \in Custodians : Len(ceremonies[c].approvals[u]) \in Nat
         /\ ceremonies[c].invited \subseteq Custodians
         /\ ceremonies[c].required \in Nat
         /\ ceremonies[c].key \in Keys
<1>1. ceremonies[c] \in KeyCeremony
  BY DEF TypeOK
<1>2. ceremonies[c].approvals \in [Custodians -> Seq(BOOLEAN)]
  BY <1>1 DEF KeyCeremony
<1>3. ASSUME NEW u \in Custodians PROVE Len(ceremonies[c].approvals[u]) \in Nat
  <2>1. ceremonies[c].approvals[u] \in Seq(BOOLEAN)
    BY <1>2
  <2> QED
    BY <2>1
<1> QED
  BY <1>1, <1>2, <1>3 DEF KeyCeremony

(* A step that leaves the approvals alone. *)
LEMMA SameApprovals ==
  ASSUME TypeOK, NEW c \in DOMAIN ceremonies,
         ceremonies'[c].approvals = ceremonies[c].approvals,
         ceremonies'[c].invited = ceremonies[c].invited
  PROVE  ApprovalsKept(c)
<1>1. /\ \A u \in Custodians : Len(ceremonies[c].approvals[u]) \in Nat
      /\ ceremonies[c].invited \subseteq Custodians
  BY CeremonyRow
<1> QED
  BY <1>1 DEF ApprovalsKept

LEMMA QuorumKept ==
  ASSUME TypeOK, TypeOK', CeremoniesKept, NEW c \in DOMAIN ceremonies, quorum_met(c)
  PROVE  c \in DOMAIN ceremonies' /\ quorum_met(c)'
<1>1. c \in DOMAIN ceremonies'
  BY DEF TypeOK, CeremoniesKept
<1>2. /\ ceremonies[c].approvals \in [Custodians -> Seq(BOOLEAN)] /\ ceremonies[c].required \in Nat
      /\ ceremonies'[c].approvals \in [Custodians -> Seq(BOOLEAN)]
  <2>1. ceremonies'[c] \in KeyCeremony
    BY <1>1 DEF TypeOK
  <2>2. ceremonies'[c].approvals \in [Custodians -> Seq(BOOLEAN)]
    BY <2>1 DEF KeyCeremony
  <2> QED
    BY <2>2, CeremonyRow
<1>3. PICK a, b : a = ceremonies[c].approvals /\ b = ceremonies'[c].approvals
  OBVIOUS
<1>4. /\ Cardinality(Given(a)) <= Cardinality(Given(b))
      /\ Cardinality(Given(a)) \in Nat /\ Cardinality(Given(b)) \in Nat
  <2>1. a \in [Custodians -> Seq(BOOLEAN)] /\ b \in [Custodians -> Seq(BOOLEAN)]
    BY <1>2, <1>3
  <2>2. \A u \in Custodians :
          Len(a[u]) <= Len(b[u]) /\ \A i \in DOMAIN a[u] : a[u][i] => b[u][i]
    BY <1>3 DEF CeremoniesKept, ApprovalsKept
  <2> QED
    BY <2>1, <2>2, GivenGrows, RowsFinite
<1>5. approval_count(c) = Cardinality(Given(a)) /\ approval_count(c)' = Cardinality(Given(b))
  BY <1>3 DEF approval_count, ApprovalRows, Rows, Given
<1>6. ceremonies'[c].required = ceremonies[c].required
  BY DEF CeremoniesKept
<1> QED
  BY <1>1, <1>2, <1>4, <1>5, <1>6 DEF quorum_met

LEMMA KeysStay ==
  ASSUME KeysKept, NEW k
  PROVE  (Registered(k) => Registered(k)') /\ (Started(k) => Started(k)')
BY DEF KeysKept, Registered, Started

(* A request that takes no step stays sound. *)
LEMMA RequestKept ==
  ASSUME CeremonyInv, TypeOK', KeysKept, CeremoniesKept, NEW s \in Sessions, req'[s] = req[s]
  PROVE  RequestSound(s)'
<1>1. RequestSound(s) /\ TypeOK
  BY DEF CeremonyInv
<1>2. \A c \in DOMAIN ceremonies : c \in DOMAIN ceremonies'
  BY <1>1 DEF TypeOK, CeremoniesKept
<1>3. req[s].op = "initiate" => InitiateSound(s)'
  BY <1>1, KeysStay DEF RequestSound, InitiateSound
<1>4. req[s].op = "complete" => CompleteSound(s)'
  <2> SUFFICES ASSUME req[s].op = "complete" PROVE CompleteSound(s)'
    OBVIOUS
  <2>1. CompleteSound(s)
    BY <1>1 DEF RequestSound
  <2>2. PICK c \in DOMAIN ceremonies : c = req[s].ceremony
    BY <2>1 DEF CompleteSound
  <2>3. quorum_met(c) => quorum_met(c)'
    BY <1>1, QuorumKept
  <2>4. quorum_met(req[s].ceremony) => quorum_met(req[s].ceremony)'
    BY <2>2, <2>3 DEF quorum_met, approval_count, ApprovalRows
  <2> QED
    BY <1>2, <2>1, <2>4, KeysStay DEF CompleteSound, CeremoniesKept
<1>5. /\ req[s].op = "disable" => Registered(req[s].key)'
      /\ req[s].op = "rotate" => Started(req[s].key)'
  BY <1>1, KeysStay DEF RequestSound
<1>6. req[s].op = "approve" => ApproveSound(s)'
  <2> SUFFICES ASSUME req[s].op = "approve" PROVE ApproveSound(s)'
    OBVIOUS
  <2>1. ApproveSound(s)
    BY <1>1 DEF RequestSound
  <2>2. PICK c, u : c = req[s].ceremony /\ u = req[s].custodian
    OBVIOUS
  <2>3. c \in DOMAIN ceremonies /\ c \in DOMAIN ceremonies' /\ u \in Custodians
    BY <1>2, <2>1, <2>2 DEF ApproveSound
  <2>4. ApprovalsKept(c)
    BY <2>3 DEF CeremoniesKept
  <2>5. DOMAIN ceremonies[c].approvals[u] \subseteq DOMAIN ceremonies'[c].approvals[u]
    <3>1. ceremonies[c].approvals[u] \in Seq(BOOLEAN)
      <4>1. ceremonies[c].approvals \in [Custodians -> Seq(BOOLEAN)]
        BY <1>1, <2>3, CeremonyRow
      <4> QED
        BY <2>3, <4>1
    <3>2. ceremonies'[c].approvals[u] \in Seq(BOOLEAN)
      <4>1. ceremonies'[c] \in KeyCeremony
        BY <2>3 DEF TypeOK
      <4>2. ceremonies'[c].approvals \in [Custodians -> Seq(BOOLEAN)]
        BY <4>1 DEF KeyCeremony
      <4> QED
        BY <2>3, <4>2
    <3>3. Len(ceremonies[c].approvals[u]) <= Len(ceremonies'[c].approvals[u])
      BY <2>3, <2>4 DEF ApprovalsKept
    <3> QED
      BY <3>1, <3>2, <3>3
  <2>6. ceremonies'[c].invited = ceremonies[c].invited
    BY <2>4 DEF ApprovalsKept
  <2> QED
    BY <2>1, <2>2, <2>3, <2>5, <2>6 DEF ApproveSound
<1> QED
  BY <1>1, <1>2, <1>3, <1>4, <1>5, <1>6 DEF RequestSound

(* So does a ceremony whose status does not change. *)
LEMMA CeremonyKept ==
  ASSUME CeremonyInv, TypeOK', KeysKept, CeremoniesKept, NEW c \in DOMAIN ceremonies,
         ceremonies'[c].status = ceremonies[c].status
  PROVE  CeremonySound(c)'
<1>1. CeremonySound(c) /\ TypeOK
  BY DEF CeremonyInv
<1>2. quorum_met(c) => quorum_met(c)'
  BY <1>1, QuorumKept
<1>3. \A u \in ceremonies'[c].invited : Len(ceremonies'[c].approvals[u]) = 1
  BY <1>1 DEF CeremonySound, CeremoniesKept, ApprovalsKept
<1> QED
  BY <1>1, <1>2, <1>3, KeysStay DEF CeremonySound, CeremoniesKept

(* A step of one request that changes no ceremony's status. *)
LEMMA StepKept ==
  ASSUME CeremonyInv, TypeOK', KeysKept, CeremoniesKept, Len(ceremonies') = Len(ceremonies),
         \A c \in DOMAIN ceremonies : ceremonies'[c].status = ceremonies[c].status,
         NEW s \in Sessions, \A t \in Sessions \ {s} : req'[t] = req[t], RequestSound(s)'
  PROVE  CeremonyInv'
<1>1. DOMAIN ceremonies' = DOMAIN ceremonies
  BY DEF CeremonyInv, TypeOK
<1> QED
  BY <1>1, RequestKept, CeremonyKept DEF CeremonyInv

(* What Finish does. *)
LEMMA Finished ==
  ASSUME TypeOK, NEW s \in Sessions, Finish(s)
  PROVE  /\ req' \in [Sessions -> Request] /\ overlapped' = overlapped
         /\ req'[s] = NoRequest /\ \A t \in Sessions \ {s} : req'[t] = req[t]
<1>1. NoRequest \in Request
  BY DEF NoRequest, Request
<1> QED
  BY <1>1 DEF TypeOK, Finish

LEMMA NoRequestSound ==
  ASSUME NEW s \in Sessions, req'[s] = NoRequest
  PROVE  RequestSound(s)'
BY DEF RequestSound, NoRequest

(* Steps that only read: they keep the tables, so that it is enough to look  *)
(* at the request.                                                           *)
LEMMA ReadKept ==
  ASSUME CeremonyInv, UNCHANGED <<keys, ceremonies>>, overlapped' \in BOOLEAN,
         NEW s \in Sessions, NEW r \in Request, req' = [req EXCEPT ![s] = r],
         req'[s] = r => RequestSound(s)'
  PROVE  CeremonyInv'
<1>1. TypeOK' /\ req'[s] = r /\ \A t \in Sessions \ {s} : req'[t] = req[t]
  BY DEF CeremonyInv, TypeOK
<1>2. KeysKept /\ Len(ceremonies') = Len(ceremonies)
  BY DEF KeysKept
<1>3. CeremoniesKept
  <2>1. \A c \in DOMAIN ceremonies : ApprovalsKept(c)
    BY SameApprovals DEF CeremonyInv
  <2>2. Len(ceremonies) \in Nat
    BY DEF CeremonyInv, TypeOK
  <2> QED
    BY <2>1, <2>2 DEF CeremoniesKept
<1> QED
  BY <1>1, <1>2, <1>3, StepKept

LEMMA LoadKeyKept ==
  ASSUME CeremonyInv, NEW s \in Sessions, NEW op \in {"rotate", "disable"}, NEW k \in Keys,
         LoadKey(s, op, k)
  PROVE  CeremonyInv'
<1>1. overlapped' \in BOOLEAN
  BY DEF LoadKey, Begins
<1>2. PICK r : r = [req[s] EXCEPT !.op = op, !.at = "ready", !.key = k, !.row = keys[k]]
  OBVIOUS
<1>3. r \in Request /\ r.op = op /\ r.key = k
  BY <1>2 DEF CeremonyInv, TypeOK, Request, Ops
<1>4. req' = [req EXCEPT ![s] = r] /\ UNCHANGED <<keys, ceremonies>>
  BY <1>2 DEF LoadKey, CeremonyInv, TypeOK
<1>5. Registered(k)' /\ (op = "rotate" => Started(k)')
  BY <1>4 DEF LoadKey, Registered, Started, Usable
<1>6. req'[s] = r => RequestSound(s)'
  BY <1>3, <1>5 DEF RequestSound, Registered, Started
<1> QED
  BY <1>1, <1>3, <1>4, <1>6, ReadKept

LEMMA InitiateLoadTargetKept ==
  ASSUME CeremonyInv, NEW s \in Sessions, NEW k \in Keys, NEW pred \in Keys \cup {NULL},
         InitiateLoadTarget(s, k, pred)
  PROVE  CeremonyInv'
<1>1. overlapped' \in BOOLEAN
  BY DEF InitiateLoadTarget, Begins
<1>2. PICK r : r = [req[s] EXCEPT !.op = "initiate", !.key = k, !.pred = pred,
                                  !.at = IF pred = NULL THEN "related" ELSE "loaded"]
  OBVIOUS
<1>3. /\ r \in Request /\ r.op = "initiate" /\ r.key = k /\ r.pred = pred
      /\ r.at = IF pred = NULL THEN "related" ELSE "loaded"
  BY <1>2 DEF CeremonyInv, TypeOK, Request, Ops
<1>4. req' = [req EXCEPT ![s] = r] /\ UNCHANGED <<keys, ceremonies>>
  BY <1>2 DEF InitiateLoadTarget, CeremonyInv, TypeOK
<1>5. Registered(k)' /\ pred # k
  BY <1>4 DEF InitiateLoadTarget, Registered
<1>6. req'[s] = r => RequestSound(s)'
  BY <1>3, <1>5 DEF RequestSound, InitiateSound, Registered
<1> QED
  BY <1>1, <1>3, <1>4, <1>6, ReadKept

LEMMA InitiateReadsKept ==
  ASSUME CeremonyInv, NEW s \in Sessions,
         InitiateLoadPredecessor(s) \/ InitiateCheckDuplicate(s)
  PROVE  CeremonyInv'
<1>1. PICK at \in {"related", "ready"} : req' = [req EXCEPT ![s].at = at]
  BY DEF InitiateLoadPredecessor, InitiateCheckDuplicate
<1>2. PICK r : r = [req[s] EXCEPT !.at = at]
  OBVIOUS
<1>3. /\ r \in Request /\ r.op = req[s].op /\ r.key = req[s].key /\ r.pred = req[s].pred
      /\ r.at = at /\ req[s].op = "initiate"
  BY <1>2 DEF CeremonyInv, TypeOK, Request, InitiateLoadPredecessor, InitiateCheckDuplicate, Is
<1>4. req' = [req EXCEPT ![s] = r] /\ UNCHANGED <<keys, ceremonies, overlapped>>
  BY <1>1, <1>2 DEF CeremonyInv, TypeOK, InitiateLoadPredecessor, InitiateCheckDuplicate
<1>5. InitiateSound(s)
  BY <1>3 DEF CeremonyInv, RequestSound
<1>6. req[s].pred # NULL => Started(req[s].pred)
  BY <1>5 DEF InitiateLoadPredecessor, InitiateCheckDuplicate, Is, InitiateSound, Usable,
     Started, Registered
<1>7. req'[s] = r => RequestSound(s)'
  BY <1>1, <1>3, <1>4, <1>5, <1>6 DEF RequestSound, InitiateSound, Registered, Started
<1> QED
  BY <1>3, <1>4, <1>7, ReadKept DEF CeremonyInv, TypeOK

LEMMA LoadCeremonyKept ==
  ASSUME CeremonyInv, NEW s \in Sessions, NEW op \in Ops, NEW c \in DOMAIN ceremonies,
         NEW u \in Custodians, LoadCeremony(s, op, c, u)
  PROVE  CeremonyInv'
<1>1. overlapped' \in BOOLEAN
  BY DEF LoadCeremony, Begins
<1>2. PICK r : r = [req[s] EXCEPT !.op = op, !.at = "loaded", !.ceremony = c,
                                  !.key = ceremonies[c].key,
                                  !.pred = ceremonies[c].predecessor,
                                  !.custodian = IF op = "approve" THEN u ELSE NULL]
  OBVIOUS
<1>3. /\ ceremonies[c].key \in Keys /\ ceremonies[c].predecessor \in Keys \cup {NULL}
      /\ c \in Nat
  BY CeremonyRow DEF CeremonyInv, TypeOK, KeyCeremony
<1>4. /\ r \in Request /\ r.op = op /\ r.at = "loaded" /\ r.ceremony = c
      /\ r.key = ceremonies[c].key /\ r.pred = ceremonies[c].predecessor
      /\ op = "approve" => r.custodian = u
  BY <1>2, <1>3 DEF CeremonyInv, TypeOK, Request
<1>5. req' = [req EXCEPT ![s] = r] /\ UNCHANGED <<keys, ceremonies>>
  BY <1>2 DEF LoadCeremony, CeremonyInv, TypeOK
<1>6. req'[s] = r => RequestSound(s)'
  BY <1>4, <1>5 DEF LoadCeremony, RequestSound, CompleteSound, ApproveSound
<1> QED
  BY <1>1, <1>4, <1>5, <1>6, ReadKept

LEMMA ApproveReadsKept ==
  ASSUME CeremonyInv, NEW s \in Sessions, ApproveLoadRelated(s)
  PROVE  CeremonyInv'
<1>1. /\ req[s] \in Request /\ req[s].op = "approve" /\ ApproveSound(s)
      /\ UNCHANGED <<keys, ceremonies, overlapped>>
  BY DEF CeremonyInv, TypeOK, RequestSound, ApproveLoadRelated, Is
<1>2. PICK mine : mine = ceremonies[req[s].ceremony].approvals[req[s].custodian]
  OBVIOUS
<1>3. PICK i \in IF mine = <<>> THEN {0} ELSE {n \in DOMAIN mine : ~mine[n]} :
        req' = [req EXCEPT ![s].at = "ready", ![s].approval = i]
  BY <1>2 DEF ApproveLoadRelated
<1>4. mine \in Seq(BOOLEAN)
  BY <1>1, <1>2, CeremonyRow DEF ApproveSound, CeremonyInv
<1>5. i \in Nat /\ (i = 0 => mine = <<>>) /\ (i # 0 => i \in DOMAIN mine)
  BY <1>3, <1>4
<1>6. mine = <<>> => req[s].custodian \notin ceremonies[req[s].ceremony].invited
  <2>1. CeremonySound(req[s].ceremony) /\ Len(<<>>) # 1
    BY <1>1 DEF CeremonyInv, ApproveSound
  <2> QED
    BY <1>2, <2>1 DEF CeremonySound
<1>7. PICK r : r = [req[s] EXCEPT !.at = "ready", !.approval = i]
  OBVIOUS
<1>8. /\ r \in Request /\ r.op = "approve" /\ r.ceremony = req[s].ceremony
      /\ r.custodian = req[s].custodian /\ r.approval = i
  BY <1>1, <1>5, <1>7 DEF Request
<1>9. req' = [req EXCEPT ![s] = r]
  BY <1>3, <1>7 DEF CeremonyInv, TypeOK
<1>10. req'[s] = r => RequestSound(s)'
  BY <1>1, <1>2, <1>5, <1>6, <1>8 DEF RequestSound, ApproveSound
<1> QED
  BY <1>1, <1>8, <1>9, <1>10, ReadKept DEF CeremonyInv, TypeOK

LEMMA CompleteReadsKept ==
  ASSUME CeremonyInv, NEW s \in Sessions, CompleteLoadRelated(s) \/ CompleteLoadPredecessor(s)
  PROVE  CeremonyInv'
<1>1. /\ req[s] \in Request /\ req[s].op = "complete" /\ CompleteSound(s)
      /\ UNCHANGED <<keys, ceremonies, overlapped>>
  BY DEF CeremonyInv, TypeOK, RequestSound, CompleteLoadRelated, CompleteLoadPredecessor, Is
<1>2. CeremonySound(req[s].ceremony) /\ Registered(req[s].key)
  BY <1>1 DEF CeremonyInv, CompleteSound, CeremonySound
<1>3. keys[req[s].key] \in MasterKey
  BY <1>2 DEF Registered, CeremonyInv, TypeOK
<1>4. \A c : quorum_met(c) => quorum_met(c)'
  BY <1>1 DEF quorum_met, approval_count, ApprovalRows
<1>5. CASE CompleteLoadRelated(s)
  <2>1. PICK r : r = [req[s] EXCEPT !.row = keys[req[s].key],
                                    !.at = IF req[s].pred = NULL THEN "ready" ELSE "related"]
    OBVIOUS
  <2>2. /\ r \in Request /\ r.op = "complete" /\ r.ceremony = req[s].ceremony
        /\ r.key = req[s].key /\ r.pred = req[s].pred /\ r.row = keys[req[s].key]
        /\ r.at = IF req[s].pred = NULL THEN "ready" ELSE "related"
    BY <1>1, <1>3, <2>1 DEF Request
  <2>3. req' = [req EXCEPT ![s] = r] /\ quorum_met(req[s].ceremony)
    BY <1>5, <2>1 DEF CompleteLoadRelated, CeremonyInv, TypeOK
  <2>4. PICK c : c = req[s].ceremony
    OBVIOUS
  <2>5. quorum_met(c)'
    BY <1>4, <2>3, <2>4
  <2>6. req'[s] = r => quorum_met(req[s].ceremony)'
    BY <2>2, <2>4, <2>5 DEF quorum_met, approval_count, ApprovalRows
  <2>7. req'[s] = r => CompleteSound(s)'
    BY <1>1, <1>2, <2>2, <2>6 DEF CompleteSound, Registered, Started
  <2>8. req'[s] = r => RequestSound(s)'
    BY <2>2, <2>7 DEF RequestSound
  <2> QED
    BY <1>1, <2>2, <2>3, <2>8, ReadKept DEF CeremonyInv, TypeOK
<1>6. CASE CompleteLoadPredecessor(s)
  <2>1. PICK r : r = [req[s] EXCEPT !.at = "ready", !.predRow = keys[req[s].pred]]
    OBVIOUS
  <2>2. Registered(req[s].pred)
    BY <1>1, <1>2, <1>6 DEF CompleteLoadPredecessor, Is, CompleteSound, CeremonySound, Started
  <2>3. keys[req[s].pred] \in MasterKey \cup {NULL} /\ keys[req[s].pred] # NULL
    BY <2>2 DEF Registered, CeremonyInv, TypeOK
  <2>4. /\ r \in Request /\ r.op = "complete" /\ r.ceremony = req[s].ceremony
        /\ r.key = req[s].key /\ r.pred = req[s].pred /\ r.row = req[s].row
        /\ r.at = "ready" /\ r.predRow = keys[req[s].pred]
    BY <1>1, <2>1, <2>3 DEF Request
  <2>5. req' = [req EXCEPT ![s] = r] /\ quorum_met(req[s].ceremony) /\ req[s].at = "related"
    BY <1>1, <1>6, <2>1 DEF CompleteLoadPredecessor, CeremonyInv, TypeOK, CompleteSound, Is
  <2>6. PICK c : c = req[s].ceremony
    OBVIOUS
  <2>7. quorum_met(c)'
    BY <1>4, <2>5, <2>6
  <2>8. req'[s] = r => quorum_met(req[s].ceremony)'
    <3> SUFFICES ASSUME req'[s] = r PROVE quorum_met(req[s].ceremony)'
      OBVIOUS
    <3>1. req'[s].ceremony = c
      BY <2>4, <2>6
    <3> QED
      BY <3>1, <2>7 DEF quorum_met, approval_count, ApprovalRows
  <2>9. req'[s] = r => CompleteSound(s)'
    BY <1>1, <2>3, <2>4, <2>5, <2>8 DEF CompleteSound, Registered, Started
  <2>10. req'[s] = r => RequestSound(s)'
    BY <2>4, <2>9 DEF RequestSound
  <2> QED
    BY <1>1, <2>4, <2>5, <2>10, ReadKept DEF CeremonyInv, TypeOK
<1> QED
  BY <1>5, <1>6

LEMMA RollbackKept ==
  ASSUME CeremonyInv, NEW s \in Sessions, Rollback(s)
  PROVE  CeremonyInv'
<1>1. NoRequest \in Request
  BY DEF NoRequest, Request
<1> QED
  BY <1>1, ReadKept, NoRequestSound DEF Rollback, Finish, CeremonyInv, TypeOK

(* Steps that write keys only. *)
LEMMA KeyWriteKept ==
  ASSUME CeremonyInv, TypeOK', KeysKept, ceremonies' = ceremonies,
         \A t \in Sessions : req'[t] = req[t] \/ req'[t] = NoRequest
  PROVE  CeremonyInv'
<1>1. Len(ceremonies) \in Nat /\ DOMAIN ceremonies' = DOMAIN ceremonies
  BY DEF CeremonyInv, TypeOK
<1>2. CeremoniesKept
  <2>1. \A c \in DOMAIN ceremonies : ApprovalsKept(c)
    BY SameApprovals DEF CeremonyInv
  <2> QED
    BY <1>1, <2>1 DEF CeremoniesKept
<1>3. \A c \in DOMAIN ceremonies : CeremonySound(c)'
  BY <1>2, CeremonyKept
<1>4. \A t \in Sessions : RequestSound(t)'
  BY <1>2, RequestKept, NoRequestSound
<1> QED
  BY <1>1, <1>3, <1>4 DEF CeremonyInv

LEMMA CreateKept ==
  ASSUME CeremonyInv, NEW k \in Keys, create_key(k)
  PROVE  CeremonyInv'
<1>1. overlapped' \in BOOLEAN
  BY DEF create_key
<1>2. PICK r : r = [status |-> "PENDING", superseded_by |-> NULL]
  OBVIOUS
<1>3. r \in MasterKey
  BY <1>2 DEF MasterKey
<1>4. keys[k] = NULL /\ keys' = [keys EXCEPT ![k] = r] /\ UNCHANGED <<ceremonies, req>>
  BY <1>2 DEF create_key
<1>5. TypeOK' /\ KeysKept
  BY <1>1, <1>3, <1>4 DEF CeremonyInv, TypeOK, KeysKept
<1> QED
  BY <1>4, <1>5, KeyWriteKept

(* The rows of keys after a rotation. *)
LEMMA RotateWrites ==
  ASSUME CeremonyInv, NEW s \in Sessions, NEW successor \in Keys, CommitRotate(s, successor)
  PROVE  /\ CeremonyInv'
         /\ req[s].op = "rotate" /\ req[s].key \in Keys /\ req[s].key # successor
         /\ keys[successor] = NULL
         /\ keys'[successor] = [status |-> "ACTIVE", superseded_by |-> NULL]
         /\ keys'[req[s].key] = [status |-> "RETIRED", superseded_by |-> successor]
         /\ \A k \in Keys \ {successor, req[s].key} : keys'[k] = keys[k]
<1>1. req[s].op = "rotate" /\ Started(req[s].key) /\ keys[successor] = NULL
  BY DEF CommitRotate, Is, CeremonyInv, RequestSound
<1>2. req[s].key \in Keys /\ req[s].key # successor
  BY <1>1 DEF Started, Registered
<1>3. PICK a, b : /\ a = [status |-> "ACTIVE", superseded_by |-> NULL]
                  /\ b = [status |-> "RETIRED", superseded_by |-> successor]
  OBVIOUS
<1>4. a \in MasterKey /\ b \in MasterKey /\ a.status # "PENDING" /\ b.status # "PENDING"
  BY <1>3 DEF MasterKey
<1>5. a # NULL /\ b # NULL
  BY <1>4, NoRow
<1>6. keys' = [keys EXCEPT ![successor] = a, ![req[s].key] = b] /\ ceremonies' = ceremonies
  BY <1>3 DEF CommitRotate
<1>7. /\ keys' \in [Keys -> MasterKey \cup {NULL}]
      /\ keys'[successor] = a /\ keys'[req[s].key] = b
      /\ \A k \in Keys \ {successor, req[s].key} : keys'[k] = keys[k]
  BY <1>2, <1>4, <1>6 DEF CeremonyInv, TypeOK
<1>8. /\ req' \in [Sessions -> Request] /\ overlapped' = overlapped
      /\ req'[s] = NoRequest /\ \A t \in Sessions \ {s} : req'[t] = req[t]
  BY Finished DEF CommitRotate, CeremonyInv
<1>9. TypeOK' /\ KeysKept
  BY <1>4, <1>5, <1>6, <1>7, <1>8 DEF CeremonyInv, TypeOK, KeysKept
<1>10. CeremonyInv'
  BY <1>6, <1>8, <1>9, KeyWriteKept
<1> QED
  BY <1>1, <1>2, <1>3, <1>7, <1>10

LEMMA DisableWrites ==
  ASSUME CeremonyInv, NEW s \in Sessions, CommitDisable(s)
  PROVE  /\ CeremonyInv'
         /\ req[s].op = "disable" /\ req[s].key \in Keys
         /\ keys[req[s].key] # NULL /\ keys'[req[s].key] # NULL
         /\ keys'[req[s].key].status = "DISABLED"
         /\ \A k \in Keys \ {req[s].key} : keys'[k] = keys[k]
<1>1. req[s].op = "disable" /\ req[s].key \in Keys /\ keys[req[s].key] # NULL
  BY DEF CommitDisable, Is, CeremonyInv, RequestSound, Registered
<1>2. keys[req[s].key] \in MasterKey
  BY <1>1 DEF CeremonyInv, TypeOK
<1>3. PICK a : a = [keys[req[s].key] EXCEPT !.status = "DISABLED"]
  OBVIOUS
<1>4. a \in MasterKey /\ a.status = "DISABLED" /\ a # NULL
  BY <1>2, <1>3, NoRow DEF MasterKey
<1>5. keys' = [keys EXCEPT ![req[s].key] = a] /\ ceremonies' = ceremonies
  BY <1>3 DEF CommitDisable
<1>6. /\ keys' \in [Keys -> MasterKey \cup {NULL}] /\ keys'[req[s].key] = a
      /\ \A k \in Keys \ {req[s].key} : keys'[k] = keys[k]
  BY <1>1, <1>4, <1>5 DEF CeremonyInv, TypeOK
<1>7. /\ req' \in [Sessions -> Request] /\ overlapped' = overlapped
      /\ req'[s] = NoRequest /\ \A t \in Sessions \ {s} : req'[t] = req[t]
  BY Finished DEF CommitDisable, CeremonyInv
<1>8. TypeOK' /\ KeysKept
  BY <1>4, <1>5, <1>6, <1>7 DEF CeremonyInv, TypeOK, KeysKept
<1>9. CeremonyInv'
  BY <1>5, <1>7, <1>8, KeyWriteKept
<1> QED
  BY <1>1, <1>4, <1>6, <1>9

(* The INSERT of a ceremony. *)
LEMMA InitiateWrites ==
  ASSUME CeremonyInv, NEW s \in Sessions, NEW required \in Required, CommitInitiate(s, required)
  PROVE  /\ CeremonyInv'
         /\ Is(s, "initiate", "ready")
         /\ Len(ceremonies') = Len(ceremonies) + 1
         /\ \A c \in DOMAIN ceremonies : ceremonies'[c] = ceremonies[c]
         /\ ceremonies'[Len(ceremonies) + 1].key = req[s].key
         /\ ceremonies'[Len(ceremonies) + 1].predecessor = req[s].pred
         /\ \A u \in Custodians : ceremonies'[Len(ceremonies) + 1].approvals[u] = <<>>
<1>1. Is(s, "initiate", "ready") /\ InitiateSound(s) /\ req[s] \in Request
  BY DEF CommitInitiate, Is, CeremonyInv, RequestSound, TypeOK
<1>2. PICK x : x = [key |-> req[s].key, predecessor |-> req[s].pred, required |-> required,
                    status |-> "PENDING", approvals |-> [u \in Custodians |-> <<>>],
                    invited |-> {}]
  OBVIOUS
<1>3. /\ x \in KeyCeremony /\ x.key = req[s].key /\ x.predecessor = req[s].pred
      /\ x.status = "PENDING" /\ \A u \in Custodians : x.approvals[u] = <<>>
      /\ x.invited = {}
  BY <1>1, <1>2, MasterKeysAssumption DEF InitiateSound, Registered, Request, KeyCeremony
<1>4. ceremonies' = Append(ceremonies, x) /\ keys' = keys /\ ceremonies \in Seq(KeyCeremony)
  BY <1>2 DEF CommitInitiate, CeremonyInv, TypeOK
<1>5. /\ ceremonies' \in Seq(KeyCeremony) /\ Len(ceremonies') = Len(ceremonies) + 1
      /\ \A c \in DOMAIN ceremonies : ceremonies'[c] = ceremonies[c]
      /\ ceremonies'[Len(ceremonies) + 1] = x /\ Len(ceremonies) \in Nat
      /\ DOMAIN ceremonies' = DOMAIN ceremonies \cup {Len(ceremonies) + 1}
  BY <1>3, <1>4
<1>6. /\ req' \in [Sessions -> Request] /\ overlapped' = overlapped
      /\ req'[s] = NoRequest /\ \A t \in Sessions \ {s} : req'[t] = req[t]
  BY Finished DEF CommitInitiate, CeremonyInv
<1>7. TypeOK' /\ KeysKept
  BY <1>4, <1>5, <1>6 DEF CeremonyInv, TypeOK, KeysKept
<1>8. CeremoniesKept
  <2>1. \A c \in DOMAIN ceremonies : ApprovalsKept(c)
    BY <1>5, SameApprovals DEF CeremonyInv
  <2> QED
    BY <1>5, <2>1 DEF CeremoniesKept
<1>9. PICK n : n = Len(ceremonies) + 1
  OBVIOUS
<1>10. CeremonySound(n)'
  BY <1>1, <1>3, <1>4, <1>5, <1>9
     DEF CeremonySound, InitiateSound, Registered, Started, Is
<1>11. \A c \in DOMAIN ceremonies : CeremonySound(c)'
  BY <1>5, <1>7, <1>8, CeremonyKept
<1>12. \A t \in Sessions : RequestSound(t)'
  BY <1>6, <1>7, <1>8, RequestKept, NoRequestSound
<1>13. CeremonyInv'
  BY <1>5, <1>7, <1>9, <1>10, <1>11, <1>12 DEF CeremonyInv
<1> QED
  BY <1>1, <1>3, <1>5, <1>13

(* What an INSERT, or an UPDATE of one row, makes of a sequence of rows. *)
LEMMA RowWritten ==
  ASSUME NEW S, NEW e \in S, NEW old \in Seq(S), NEW i, NEW new,
         new = IF i = 0 THEN Append(old, e) ELSE [old EXCEPT ![i] = e],
         i # 0 => i \in DOMAIN old
  PROVE  /\ new \in Seq(S) /\ Len(old) <= Len(new)
         /\ \A n \in DOMAIN old : new[n] = old[n] \/ new[n] = e
         /\ Len(new) = IF i = 0 THEN Len(old) + 1 ELSE Len(old)
<1>1. CASE i = 0
  BY <1>1
<1>2. CASE i # 0
  <2>1. new = [old EXCEPT ![i] = e] /\ i \in 1..Len(old)
    BY <1>2
  <2>2. /\ new \in Seq(S) /\ Len(new) = Len(old)
        /\ \A n \in 1..Len(old) : new[n] = IF n = i THEN e ELSE old[n]
    BY <2>1, ExceptSeq
  <2>3. \A n \in DOMAIN old : new[n] = old[n] \/ new[n] = e
    BY <2>2
  <2>4. Len(old) \in Nat
    OBVIOUS
  <2> QED
    BY <1>2, <2>2, <2>3, <2>4
<1> QED
  BY <1>1, <1>2

(* The INSERT of an approval, or the UPDATE of a row without approved_at. *)
LEMMA ApproveWrites ==
  ASSUME CeremonyInv, NEW s \in Sessions, CommitApprove(s)
  PROVE  /\ CeremonyInv'
         /\ Is(s, "approve", "ready") /\ req[s].ceremony \in DOMAIN ceremonies
         /\ Len(ceremonies') = Len(ceremonies)
         /\ \A c \in DOMAIN ceremonies :
              /\ ceremonies'[c].key = ceremonies[c].key
              /\ ceremonies'[c].predecessor = ceremonies[c].predecessor
              /\ ceremonies'[c].status = ceremonies[c].status
              /\ \A u \in Custodians :
                   \/ Len(ceremonies'[c].approvals[u]) = Len(ceremonies[c].approvals[u])
                   \/ /\ c = req[s].ceremony /\ u = req[s].custodian /\ req[s].approval = 0
                      /\ Len(ceremonies'[c].approvals[u]) = Len(ceremonies[c].approvals[u]) + 1
<1>1. /\ Is(s, "approve", "ready") /\ req[s].ceremony \in DOMAIN ceremonies
      /\ req[s].custodian \in Custodians
      /\ IF req[s].approval = 0
         THEN req[s].custodian \notin ceremonies[req[s].ceremony].invited
         ELSE req[s].approval \in DOMAIN ceremonies[req[s].ceremony].approvals[req[s].custodian]
  BY DEF CommitApprove, Is, CeremonyInv, RequestSound, ApproveSound
<1>2. PICK c, u, i : c = req[s].ceremony /\ u = req[s].custodian /\ i = req[s].approval
  OBVIOUS
<1>3. /\ ceremonies[c] \in KeyCeremony /\ u \in Custodians /\ c \in DOMAIN ceremonies
      /\ ceremonies[c].approvals \in [Custodians -> Seq(BOOLEAN)]
      /\ ceremonies[c].approvals[u] \in Seq(BOOLEAN)
      /\ ceremonies[c].invited \subseteq Custodians
  <2>1. ceremonies[c].approvals \in [Custodians -> Seq(BOOLEAN)]
    BY <1>1, <1>2, CeremonyRow DEF CeremonyInv
  <2> QED
    BY <1>1, <1>2, <2>1, CeremonyRow DEF CeremonyInv
<1>4. PICK new : new = IF i = 0 THEN Append(ceremonies[c].approvals[u], TRUE)
                       ELSE [ceremonies[c].approvals[u] EXCEPT ![i] = TRUE]
  OBVIOUS
<1>5. /\ new \in Seq(BOOLEAN) /\ Len(ceremonies[c].approvals[u]) <= Len(new)
      /\ \A n \in DOMAIN ceremonies[c].approvals[u] : ceremonies[c].approvals[u][n] => new[n]
      /\ Len(new) = IF i = 0 THEN Len(ceremonies[c].approvals[u]) + 1
                    ELSE Len(ceremonies[c].approvals[u])
  <2>1. PICK old \in Seq(BOOLEAN) : old = ceremonies[c].approvals[u]
    BY <1>3
  <2>2. i # 0 => i \in DOMAIN old
    BY <1>1, <1>2, <2>1
  <2>3. new = IF i = 0 THEN Append(old, TRUE) ELSE [old EXCEPT ![i] = TRUE]
    BY <1>4, <2>1
  <2>4. PICK S, e : S = BOOLEAN /\ e = TRUE
    OBVIOUS
  <2>5. /\ e \in S /\ old \in Seq(S)
        /\ new = IF i = 0 THEN Append(old, e) ELSE [old EXCEPT ![i] = e]
    BY <2>3, <2>4
  <2>6. /\ new \in Seq(S) /\ Len(old) <= Len(new)
        /\ \A n \in DOMAIN old : new[n] = old[n] \/ new[n] = e
        /\ Len(new) = IF i = 0 THEN Len(old) + 1 ELSE Len(old)
    BY <2>2, <2>5, RowWritten
  <2>7. \A n \in DOMAIN old : old[n] => new[n]
    BY <2>4, <2>6, Zenon
  <2> QED
    BY <2>1, <2>4, <2>6, <2>7
<1>6. PICK x : x = [ceremonies[c] EXCEPT !.approvals[u] = new]
  OBVIOUS
<1>7. /\ x \in KeyCeremony /\ x.key = ceremonies[c].key
      /\ x.predecessor = ceremonies[c].predecessor /\ x.required = ceremonies[c].required
      /\ x.status = ceremonies[c].status /\ x.invited = ceremonies[c].invited
      /\ x.approvals = [ceremonies[c].approvals EXCEPT ![u] = new]
  BY <1>3, <1>5, <1>6 DEF KeyCeremony
<1>8. ceremonies' = [ceremonies EXCEPT ![c] = x] /\ keys' = keys
  BY <1>2, <1>4, <1>6 DEF CommitApprove
<1>9. /\ ceremonies' \in Seq(KeyCeremony) /\ Len(ceremonies') = Len(ceremonies)
      /\ Len(ceremonies) \in Nat
      /\ ceremonies'[c] = x /\ \A d \in DOMAIN ceremonies \ {c} : ceremonies'[d] = ceremonies[d]
  BY <1>3, <1>7, <1>8 DEF CeremonyInv, TypeOK
<1>10. /\ x.approvals[u] = new
       /\ \A v \in Custodians \ {u} : x.approvals[v] = ceremonies[c].approvals[v]
  BY <1>3, <1>7
<1>11. /\ req' \in [Sessions -> Request] /\ overlapped' = overlapped
       /\ req'[s] = NoRequest /\ \A t \in Sessions \ {s} : req'[t] = req[t]
  BY Finished DEF CommitApprove, CeremonyInv
<1>12. TypeOK' /\ KeysKept
  BY <1>8, <1>9, <1>11 DEF CeremonyInv, TypeOK, KeysKept
<1>13. ApprovalsKept(c)
  <2>1. \A v \in Custodians : Len(ceremonies[c].approvals[v]) \in Nat
    BY <1>3, CeremonyRow DEF CeremonyInv
  <2>2. i = 0 => u \notin ceremonies[c].invited
    BY <1>1, <1>2
  <2>3. ceremonies'[c].invited = ceremonies[c].invited
    BY <1>7, <1>9
  <2>4. ASSUME NEW v \in Custodians
        PROVE  /\ Len(ceremonies[c].approvals[v]) <= Len(ceremonies'[c].approvals[v])
               /\ \A n \in DOMAIN ceremonies[c].approvals[v] :
                    ceremonies[c].approvals[v][n] => ceremonies'[c].approvals[v][n]
               /\ v \in ceremonies[c].invited =>
                    Len(ceremonies'[c].approvals[v]) = Len(ceremonies[c].approvals[v])
    <3>1. CASE v = u
      <4>1. ceremonies'[c].approvals[v] = new
        BY <1>9, <1>10, <3>1
      <4> QED
        BY <1>5, <2>2, <3>1, <4>1
    <3>2. CASE v # u
      <4>1. ceremonies'[c].approvals[v] = ceremonies[c].approvals[v]
        BY <1>9, <1>10, <3>2
      <4> QED
        BY <2>1, <4>1
    <3> QED
      BY <3>1, <3>2
  <2> QED
    BY <1>3, <2>3, <2>4 DEF ApprovalsKept
<1>14. \A d \in DOMAIN ceremonies \ {c} : ApprovalsKept(d)
  BY <1>9, SameApprovals DEF CeremonyInv
<1>15. \A d \in DOMAIN ceremonies :
         /\ ceremonies'[d].key = ceremonies[d].key
         /\ ceremonies'[d].predecessor = ceremonies[d].predecessor
         /\ ceremonies'[d].required = ceremonies[d].required
         /\ ceremonies'[d].status = ceremonies[d].status
  BY <1>7, <1>9
<1>16. CeremoniesKept
  BY <1>9, <1>13, <1>14, <1>15 DEF CeremoniesKept
<1>17. CeremonyInv'
  BY <1>9, <1>11, <1>12, <1>15, <1>16, StepKept, NoRequestSound
<1>18. \A d \in DOMAIN ceremonies : \A v \in Custodians :
         \/ Len(ceremonies'[d].approvals[v]) = Len(ceremonies[d].approvals[v])
         \/ /\ d = c /\ v = u /\ i = 0
            /\ Len(ceremonies'[d].approvals[v]) = Len(ceremonies[d].approvals[v]) + 1
  BY <1>5, <1>9, <1>10
<1> QED
  BY <1>1, <1>2, <1>9, <1>15, <1>17, <1>18

(* complete_ceremony: the key and its predecessor. *)
LEMMA CompleteKeys ==
  ASSUME CeremonyInv, NEW s \in Sessions, CommitComplete(s)
  PROVE  /\ Is(s, "complete", "ready") /\ CompleteSound(s) /\ CeremonySound(req[s].ceremony)
         /\ Registered(req[s].key) /\ req[s].pred # req[s].key
         /\ req[s].pred # NULL => Started(req[s].pred)
         /\ keys' \in [Keys -> MasterKey \cup {NULL}]
         /\ keys'[req[s].key] = NewKey(s, keys[req[s].key])
         /\ keys'[req[s].key] \in MasterKey /\ keys'[req[s].key].status # "PENDING"
         /\ req[s].pred # NULL =>
              /\ keys'[req[s].pred] = Predecessor(s, keys[req[s].pred])
              /\ keys'[req[s].pred] \in MasterKey
              /\ keys'[req[s].pred].status \in {keys[req[s].pred].status, "RETIRED"}
         /\ \A k \in Keys \ {req[s].key, req[s].pred} : keys'[k] = keys[k]
         /\ KeysKept
<1>1. Is(s, "complete", "ready") /\ CompleteSound(s)
  BY DEF CommitComplete, Is, CeremonyInv, RequestSound
<1>2. CeremonySound(req[s].ceremony)
  BY <1>1 DEF CompleteSound, CeremonyInv
<1>3. /\ Registered(req[s].key) /\ req[s].pred # req[s].key
      /\ req[s].pred # NULL => Started(req[s].pred)
  BY <1>1, <1>2 DEF CompleteSound, CeremonySound
<1>4. PICK a, k, p : a = NewKey(s, keys[req[s].key]) /\ k = req[s].key /\ p = req[s].pred
  OBVIOUS
<1>5. keys[k] \in MasterKey /\ k \in Keys /\ req[s].row \in MasterKey
  BY <1>1, <1>3, <1>4 DEF Registered, CeremonyInv, TypeOK, CompleteSound, Is, Request
<1>6. a \in MasterKey /\ a.status # "PENDING"
  <2>1. /\ a.status = Flush(keys[k].status, req[s].row.status, "ACTIVE")
        /\ a.superseded_by \in {keys[k].superseded_by, NULL}
        /\ a = [status |-> a.status, superseded_by |-> a.superseded_by]
    BY <1>4 DEF NewKey, Flush
  <2>2. req[s].row.status = "ACTIVE" => keys[k].status # "PENDING"
    BY <1>1, <1>4 DEF CompleteSound, Is, Started
  <2>3. a.status \in {"ACTIVE", keys[k].status} /\ a.status # "PENDING"
    BY <2>1, <2>2 DEF Flush
  <2> QED
    BY <1>5, <2>1, <2>3 DEF MasterKey
<1>7. PICK b : b = Predecessor(s, keys[p])
  OBVIOUS
<1>8. p # NULL => p \in Keys /\ b \in MasterKey /\ b.status \in {keys[p].status, "RETIRED"}
  <2> SUFFICES ASSUME p # NULL
               PROVE  p \in Keys /\ b \in MasterKey /\ b.status \in {keys[p].status, "RETIRED"}
    OBVIOUS
  <2>1. p \in Keys /\ keys[p] \in MasterKey
    BY <1>3, <1>4 DEF Started, Registered, CeremonyInv, TypeOK
  <2>2. /\ b.status \in {keys[p].status, "RETIRED"}
        /\ b.superseded_by \in {keys[p].superseded_by, k}
        /\ b = [status |-> b.status, superseded_by |-> b.superseded_by]
    BY <1>4, <1>7 DEF Predecessor, Flush
  <2> QED
    BY <1>5, <2>1, <2>2 DEF MasterKey
<1>9. keys' = [j \in Keys |-> CASE j = k -> NewKey(s, keys[j])
                               [] j = p -> Predecessor(s, keys[j])
                               [] OTHER -> keys[j]]
  BY <1>4 DEF CommitComplete
<1>10. /\ keys'[k] = a
       /\ p # NULL => keys'[p] = b
       /\ \A j \in Keys \ {k, p} : keys'[j] = keys[j]
  BY <1>3, <1>4, <1>5, <1>7, <1>8, <1>9
<1>11. keys' \in [Keys -> MasterKey \cup {NULL}]
  <2>1. \A j \in Keys : keys'[j] \in MasterKey \cup {NULL}
    BY <1>6, <1>8, <1>10, MasterKeysAssumption DEF CeremonyInv, TypeOK
  <2>2. keys' = [j \in Keys |-> keys'[j]]
    BY <1>9
  <2> QED
    BY <2>1, <2>2
<1>12. KeysKept
  BY <1>3, <1>4, <1>6, <1>8, <1>10, NoRow, MasterKeysAssumption DEF KeysKept, Started
<1> QED
  BY <1>1, <1>2, <1>3, <1>4, <1>6, <1>7, <1>8, <1>10, <1>11, <1>12

LEMMA CompleteWrites ==
  ASSUME CeremonyInv, NEW s \in Sessions, CommitComplete(s)
  PROVE  /\ CeremonyInv'
         /\ Len(ceremonies') = Len(ceremonies)
         /\ \A c \in DOMAIN ceremonies :
              /\ ceremonies'[c].key = ceremonies[c].key
              /\ ceremonies'[c].predecessor = ceremonies[c].predecessor
              /\ ceremonies'[c].approvals = ceremonies[c].approvals
              /\ ceremonies'[c].status = IF c = req[s].ceremony THEN "COMPLETE"
                                         ELSE ceremonies[c].status
<1>1. /\ Is(s, "complete", "ready") /\ CompleteSound(s) /\ CeremonySound(req[s].ceremony)
      /\ keys' \in [Keys -> MasterKey \cup {NULL}] /\ KeysKept
      /\ keys'[req[s].key] \in MasterKey /\ keys'[req[s].key].status # "PENDING"
  BY CompleteKeys
<1>2. PICK c \in DOMAIN ceremonies : c = req[s].ceremony
  BY <1>1 DEF CompleteSound
<1>3. ceremonies[c] \in KeyCeremony
  BY CeremonyRow DEF CeremonyInv
<1>4. PICK x : x = [ceremonies[c] EXCEPT !.status = "COMPLETE"]
  OBVIOUS
<1>5. /\ x \in KeyCeremony /\ x.key = ceremonies[c].key
      /\ x.predecessor = ceremonies[c].predecessor /\ x.required = ceremonies[c].required
      /\ x.status = "COMPLETE" /\ x.approvals = ceremonies[c].approvals
      /\ x.invited = ceremonies[c].invited
  BY <1>3, <1>4 DEF KeyCeremony
<1>6. ceremonies' = [ceremonies EXCEPT ![c] = x]
  BY <1>2, <1>4 DEF CommitComplete
<1>7. /\ ceremonies' \in Seq(KeyCeremony) /\ Len(ceremonies') = Len(ceremonies)
      /\ Len(ceremonies) \in Nat /\ DOMAIN ceremonies' = DOMAIN ceremonies
      /\ ceremonies'[c] = x /\ \A d \in DOMAIN ceremonies \ {c} : ceremonies'[d] = ceremonies[d]
  BY <1>5, <1>6 DEF CeremonyInv, TypeOK
<1>8. /\ req' \in [Sessions -> Request] /\ overlapped' = overlapped
      /\ req'[s] = NoRequest /\ \A t \in Sessions \ {s} : req'[t] = req[t]
  BY Finished DEF CommitComplete, CeremonyInv
<1>9. TypeOK'
  BY <1>1, <1>7, <1>8 DEF CeremonyInv, TypeOK
<1>10. CeremoniesKept
  <2>1. \A d \in DOMAIN ceremonies : /\ ceremonies'[d].approvals = ceremonies[d].approvals
                                    /\ ceremonies'[d].invited = ceremonies[d].invited
    BY <1>5, <1>7
  <2>2. \A d \in DOMAIN ceremonies : ApprovalsKept(d)
    BY <2>1, SameApprovals DEF CeremonyInv
  <2> QED
    BY <1>5, <1>7, <2>2 DEF CeremoniesKept
<1>11. \A d \in DOMAIN ceremonies \ {c} : CeremonySound(d)'
  BY <1>1, <1>7, <1>9, <1>10, CeremonyKept
<1>12. CeremonySound(c)'
  <2>1. quorum_met(c)
    BY <1>1, <1>2 DEF CompleteSound, Is
  <2>2. quorum_met(c)'
    BY <1>9, <1>10, <2>1, QuorumKept DEF CeremonyInv
  <2>3. ceremonies[c].key = req[s].key /\ CeremonySound(c)
    BY <1>1, <1>2 DEF CompleteSound
  <2>4. Registered(ceremonies[c].key)' /\ Started(ceremonies[c].key)'
    BY <1>1, <1>5, <1>7, <2>3, NoRow DEF Registered, Started, CeremonySound
  <2> QED
    BY <1>1, <1>5, <1>7, <2>2, <2>3, <2>4, KeysStay DEF CeremonySound
<1>13. \A t \in Sessions : RequestSound(t)'
  BY <1>1, <1>8, <1>9, <1>10, RequestKept, NoRequestSound
<1>14. CeremonyInv'
  BY <1>7, <1>9, <1>11, <1>12, <1>13 DEF CeremonyInv
<1> QED
  BY <1>2, <1>5, <1>7, <1>14

LEMMA CeremonyStep ==
  ASSUME CeremonyInv, [Next]_vars
  PROVE  CeremonyInv'
<1>1. CASE UNCHANGED vars
  <2>1. TypeOK' /\ KeysKept
    BY <1>1 DEF vars, CeremonyInv, TypeOK, KeysKept
  <2> QED
    BY <1>1, <2>1, KeyWriteKept DEF vars
<1>2. ASSUME NEW s \in Sessions, Step(s) PROVE CeremonyInv'
  BY <1>2, LoadKeyKept, RotateWrites, DisableWrites, InitiateLoadTargetKept, InitiateReadsKept,
     InitiateWrites, LoadCeremonyKept, ApproveReadsKept, ApproveWrites, CompleteReadsKept,
     CompleteWrites, RollbackKept DEF Step
<1> QED
  BY <1>1, <1>2, CreateKept DEF Next

(* The tables as they are at the start: no ceremony, or the seeded one. *)
LEMMA InitTables ==
  ASSUME Init
  PROVE  /\ keys \in [Keys -> MasterKey \cup {NULL}]
         /\ \A k \in Keys : keys[k] # NULL => keys[k].status \in Usable \cup {"PENDING"}
         /\ \/ ceremonies = <<>>
            \/ \E x \in KeyCeremony :
                 /\ ceremonies = <<x>> /\ x.status = "PENDING"
                 /\ Registered(x.key) /\ keys[x.key].status = "PENDING"
                 /\ Started(x.predecessor)
                 /\ \A u \in Custodians : Len(x.approvals[u]) <= 1
                 /\ \A u \in x.invited : Len(x.approvals[u]) = 1
<1>1. PICK target \in (Keys \ Seeded) \cup {NULL} :
      /\ \E use \in [Seeded -> Usable] :
           keys = [k \in Keys |->
                     CASE k \in Seeded -> [status |-> use[k], superseded_by |-> NULL]
                       [] k = target   -> [status |-> "PENDING", superseded_by |-> NULL]
                       [] OTHER        -> NULL]
      /\ IF target = NULL THEN ceremonies = <<>>
         ELSE \E pred \in Seeded, required \in Required,
                 approvals \in [Custodians -> {<<>>, <<TRUE>>, <<FALSE>>}] :
                ceremonies = <<Seeded_ceremony(target, pred, required, approvals)>>
  BY DEF Init
<1>2. PICK use \in [Seeded -> Usable] :
           keys = [k \in Keys |->
                     CASE k \in Seeded -> [status |-> use[k], superseded_by |-> NULL]
                       [] k = target   -> [status |-> "PENDING", superseded_by |-> NULL]
                       [] OTHER        -> NULL]
  BY <1>1
<1>3. PICK f, p : /\ f = [k \in Seeded |-> [status |-> use[k], superseded_by |-> NULL]]
                  /\ p = [status |-> "PENDING", superseded_by |-> NULL]
  OBVIOUS
<1>4. /\ \A k \in Seeded : f[k] \in MasterKey /\ f[k].status \in Usable
      /\ p \in MasterKey /\ p.status = "PENDING"
  BY <1>3 DEF MasterKey, Usable
<1>5. \A k \in Keys : keys[k] = IF k \in Seeded THEN f[k] ELSE IF k = target THEN p ELSE NULL
  <2> SUFFICES ASSUME NEW k \in Keys
               PROVE  keys[k] = IF k \in Seeded THEN f[k] ELSE IF k = target THEN p ELSE NULL
    OBVIOUS
  <2>1. target \notin Seeded
    BY MasterKeysAssumption
  <2>2. CASE k \in Seeded
    BY <1>2, <1>3, <2>1, <2>2
  <2>3. CASE k = target
    BY <1>2, <1>3, <2>1, <2>3
  <2>4. CASE k \notin Seeded /\ k # target
    BY <1>2, <2>4
  <2> QED
    BY <2>2, <2>3, <2>4
<1>6. keys \in [Keys -> MasterKey \cup {NULL}]
  <2>1. keys = [k \in Keys |-> keys[k]]
    BY <1>2
  <2>2. \A k \in Keys : keys[k] \in MasterKey \cup {NULL}
    BY <1>4, <1>5
  <2> QED
    BY <2>1, <2>2
<1>7. \A k \in Keys : keys[k] # NULL => keys[k].status \in Usable \cup {"PENDING"}
  BY <1>4, <1>5
<1>8. ASSUME target # NULL
      PROVE  \E x \in KeyCeremony :
               /\ ceremonies = <<x>> /\ x.status = "PENDING"
               /\ Registered(x.key) /\ keys[x.key].status = "PENDING"
               /\ Started(x.predecessor)
               /\ \A u \in Custodians : Len(x.approvals[u]) <= 1
               /\ \A u \in x.invited : Len(x.approvals[u]) = 1
  <2>1. PICK pred \in Seeded, required \in Required,
             approvals \in [Custodians -> {<<>>, <<TRUE>>, <<FALSE>>}] :
               ceremonies = <<Seeded_ceremony(target, pred, required, approvals)>>
    BY <1>1, <1>8
  <2>2. PICK x : x = Seeded_ceremony(target, pred, required, approvals)
    OBVIOUS
  <2>3. /\ x.key = target /\ x.predecessor = pred /\ x.status = "PENDING"
        /\ x.required = required /\ x.approvals = approvals
        /\ x.invited = {u \in Custodians : approvals[u] # <<>>}
        /\ x = [key |-> x.key, predecessor |-> x.predecessor, required |-> x.required,
                status |-> x.status, approvals |-> x.approvals, invited |-> x.invited]
    BY <2>2 DEF Seeded_ceremony
  <2>4. target \in Keys /\ pred \in Keys /\ required \in Nat
    BY <1>8, MasterKeysAssumption
  <2>5. /\ Len(<<>>) = 0 /\ Len(<<TRUE>>) = 1 /\ Len(<<FALSE>>) = 1
        /\ <<>> \in Seq(BOOLEAN) /\ <<TRUE>> \in Seq(BOOLEAN) /\ <<FALSE>> \in Seq(BOOLEAN)
    OBVIOUS
  <2>6. approvals \in [Custodians -> Seq(BOOLEAN)]
    BY <2>5
  <2>7. x \in KeyCeremony
    BY <2>3, <2>4, <2>6 DEF KeyCeremony
  <2>8. keys[target] = p /\ keys[target] # NULL
    BY <1>4, <1>5, <1>8, <2>4, NoRow
  <2>9. keys[pred] = f[pred] /\ keys[pred] # NULL /\ f[pred].status # "PENDING"
    BY <1>4, <1>5, <2>4, NoRow DEF Usable
  <2>10. Registered(x.key) /\ keys[x.key].status = "PENDING" /\ Started(x.predecessor)
    BY <1>4, <2>3, <2>4, <2>8, <2>9 DEF Registered, Started
  <2>11. \A u \in Custodians : /\ Len(approvals[u]) <= 1
                               /\ approvals[u] # <<>> => Len(approvals[u]) = 1
    <3> TAKE u \in Custodians
    <3>1. approvals[u] = <<>> \/ approvals[u] = <<TRUE>> \/ approvals[u] = <<FALSE>>
      OBVIOUS
    <3>2. CASE approvals[u] = <<>>
      BY <2>5, <3>2
    <3>3. CASE approvals[u] = <<TRUE>>
      <4>1. Len(approvals[u]) = 1
        BY <2>5, <3>3
      <4> QED
        BY <4>1
    <3>4. CASE approvals[u] = <<FALSE>>
      <4>1. Len(approvals[u]) = 1
        BY <2>5, <3>4
      <4> QED
        BY <4>1
    <3> QED
      BY <3>1, <3>2, <3>3, <3>4
  <2> QED
    BY <2>1, <2>2, <2>3, <2>7, <2>10, <2>11
<1> QED
  BY <1>1, <1>6, <1>7, <1>8

LEMMA CeremonyInductive == Spec => []CeremonyInv
<1>1. Init => CeremonyInv
  <2> SUFFICES ASSUME Init PROVE CeremonyInv
    OBVIOUS
  <2>1. overlapped \in BOOLEAN /\ keys \in [Keys -> MasterKey \cup {NULL}]
    BY InitTables DEF Init
  <2>2. req \in [Sessions -> Request] /\ \A s \in Sessions : req[s] = NoRequest
    BY DEF Init, NoRequest, Request
  <2>3. \A s \in Sessions : RequestSound(s)
    BY <2>2 DEF RequestSound, NoRequest
  <2>4. CASE ceremonies = <<>>
    BY <2>1, <2>2, <2>3, <2>4 DEF CeremonyInv, TypeOK
  <2>5. CASE ceremonies # <<>>
    <3>1. PICK x \in KeyCeremony :
            /\ ceremonies = <<x>> /\ x.status = "PENDING"
            /\ Registered(x.key) /\ keys[x.key].status = "PENDING"
            /\ Started(x.predecessor)
            /\ \A u \in x.invited : Len(x.approvals[u]) = 1
      BY <2>5, InitTables
    <3>2. ceremonies \in Seq(KeyCeremony) /\ DOMAIN ceremonies = {1} /\ ceremonies[1] = x
      BY <3>1
    <3>3. x.predecessor # x.key
      BY <3>1 DEF Started
    <3>4. CeremonySound(1)
      BY <3>1, <3>2, <3>3 DEF CeremonySound
    <3> QED
      BY <2>1, <2>2, <2>3, <3>2, <3>4 DEF CeremonyInv, TypeOK
  <2> QED
    BY <2>4, <2>5
<1> QED
  BY <1>1, CeremonyStep, PTL DEF Spec

(* Every handler keeps keys, ceremonies and its loaded rows well typed. *)
THEOREM MasterKeysTypeCorrect == Spec => []TypeOK
BY CeremonyInductive, PTL DEF CeremonyInv

(* A step that activates a pending key is the commit of a ceremony about it  *)
(* that is still pending and has its quorum.                                 *)
LEMMA ActivationStep ==
  ASSUME CeremonyInv, [Next]_vars
  PROVE  [ActivatedByQuorum]_vars
<1> SUFFICES ASSUME NEW k \in Keys, keys[k] # NULL, keys[k].status = "PENDING",
                    keys'[k].status \in Usable
             PROVE  \E c \in PendingCeremonies(k) :
                      ceremonies'[c].status = "COMPLETE" /\ quorum_met(c)
  BY DEF ActivatedByQuorum
<1>1. keys' # keys
  BY DEF Usable
<1>2. ASSUME NEW j \in Keys, create_key(j) PROVE FALSE
  BY <1>2 DEF create_key, CeremonyInv, TypeOK, Usable
<1>3. ASSUME NEW s \in Sessions, NEW successor \in Keys, CommitRotate(s, successor) PROVE FALSE
  <2>1. /\ keys[successor] = NULL
        /\ keys'[req[s].key] = [status |-> "RETIRED", superseded_by |-> successor]
        /\ \A j \in Keys \ {successor, req[s].key} : keys'[j] = keys[j]
    BY <1>3, RotateWrites
  <2>2. keys'[req[s].key].status = "RETIRED"
    BY <2>1
  <2> QED
    BY <2>1, <2>2 DEF Usable
<1>4. ASSUME NEW s \in Sessions, CommitDisable(s) PROVE FALSE
  BY <1>4, DisableWrites DEF Usable
<1>5. ASSUME NEW s \in Sessions, CommitComplete(s)
      PROVE  \E c \in PendingCeremonies(k) :
               ceremonies'[c].status = "COMPLETE" /\ quorum_met(c)
  <2>1. /\ Is(s, "complete", "ready") /\ CompleteSound(s) /\ CeremonySound(req[s].ceremony)
        /\ req[s].pred # NULL => keys'[req[s].pred].status \in {keys[req[s].pred].status, "RETIRED"}
        /\ \A j \in Keys \ {req[s].key, req[s].pred} : keys'[j] = keys[j]
    BY <1>5, CompleteKeys
  <2>2. k = req[s].key
    BY <2>1, MasterKeysAssumption DEF Usable
  <2>3. PICK c \in DOMAIN ceremonies : c = req[s].ceremony
    BY <2>1 DEF CompleteSound
  <2>4. ceremonies[c].key = k /\ quorum_met(c) /\ ceremonies[c].status # "COMPLETE"
    BY <2>1, <2>2, <2>3 DEF CompleteSound, CeremonySound, Is, Started
  <2>5. ceremonies[c].status = "PENDING"
    BY <2>4, CeremonyRow DEF CeremonyInv, KeyCeremony
  <2>6. ceremonies'[c].status = "COMPLETE"
    BY <1>5, <2>3, CompleteWrites
  <2> QED
    BY <2>4, <2>5, <2>6 DEF PendingCeremonies
<1>6. ASSUME NEW s \in Sessions, Step(s), keys' # keys
      PROVE  (\E j \in Keys : CommitRotate(s, j)) \/ CommitDisable(s) \/ CommitComplete(s)
  BY <1>6 DEF Step, LoadKey, InitiateLoadTarget, InitiateLoadPredecessor, InitiateCheckDuplicate,
     CommitInitiate, LoadCeremony, ApproveLoadRelated, CommitApprove, CompleteLoadRelated,
     CompleteLoadPredecessor, Rollback
<1> QED
  BY <1>1, <1>2, <1>3, <1>4, <1>5, <1>6 DEF Next, vars

(* A pending key becomes usable only by complete_ceremony, with a pending    *)
(* ceremony about it and a quorum of approvals whose approved_at is set, for *)
(* any number of sessions, keys, ceremonies and custodians, any interleaving.*)
THEOREM ActivationByQuorum == Spec => ActivationNeedsQuorum
BY CeremonyInductive, ActivationStep, PTL DEF Spec, ActivationNeedsQuorum

-----------------------------------------------------------------------------
(* Part 3: what holds until requests overlap. *)

LEMMA NoRequestFresh ==
  ASSUME NEW s \in Sessions, req'[s] = NoRequest
  PROVE  RequestFresh(s)'
BY DEF RequestFresh, NoRequest, Is

LEMMA SameTables ==
  ASSUME TablesSerial, UNCHANGED <<keys, ceremonies>>
  PROVE  TablesSerial'
BY DEF TablesSerial, ApprovedOnce, OnePending, PendingNotInUse, PredecessorsSettled,
   SuccessorsActivated, PendingCeremonies

(* A request that begins: nothing else is under way. *)
LEMMA SerialBegins ==
  ASSUME CeremonyInv, SerialInv, NEW s \in Sessions, NEW r \in Request, Begins(s),
         req' = [req EXCEPT ![s] = r], UNCHANGED <<keys, ceremonies>>,
         ~overlapped /\ req'[s] = r => RequestFresh(s)'
  PROVE  SerialInv'
<1> SUFFICES ASSUME ~overlapped'
             PROVE  OneRequest' /\ TablesSerial' /\ \A t \in Sessions : RequestFresh(t)'
  BY DEF SerialInv
<1>1. ~overlapped /\ \A t \in Sessions \ {s} : req[t] = NoRequest
  BY DEF Begins, CeremonyInv, TypeOK
<1>2. req'[s] = r /\ \A t \in Sessions \ {s} : req'[t] = NoRequest
  BY <1>1 DEF CeremonyInv, TypeOK
<1>3. TablesSerial'
  BY <1>1, SameTables DEF SerialInv
<1> QED
  BY <1>1, <1>2, <1>3, NoRequestFresh DEF OneRequest

(* A request that goes on reading is alone. *)
LEMMA SerialReads ==
  ASSUME CeremonyInv, SerialInv, NEW s \in Sessions, NEW r \in Request, req[s] # NoRequest,
         req' = [req EXCEPT ![s] = r], UNCHANGED <<keys, ceremonies, overlapped>>,
         ~overlapped /\ req'[s] = r => RequestFresh(s)'
  PROVE  SerialInv'
<1> SUFFICES ASSUME ~overlapped'
             PROVE  OneRequest' /\ TablesSerial' /\ \A t \in Sessions : RequestFresh(t)'
  BY DEF SerialInv
<1>1. ~overlapped /\ \A t \in Sessions \ {s} : req[t] = NoRequest
  BY DEF SerialInv, OneRequest
<1>2. req'[s] = r /\ \A t \in Sessions \ {s} : req'[t] = NoRequest
  BY <1>1 DEF CeremonyInv, TypeOK
<1>3. TablesSerial'
  BY <1>1, SameTables DEF SerialInv
<1> QED
  BY <1>1, <1>2, <1>3, NoRequestFresh DEF OneRequest

(* A request that ends leaves none under way. *)
LEMMA SerialEnds ==
  ASSUME CeremonyInv, SerialInv, NEW s \in Sessions, req[s] # NoRequest, Finish(s),
         ~overlapped => TablesSerial'
  PROVE  SerialInv'
<1> SUFFICES ASSUME ~overlapped'
             PROVE  OneRequest' /\ TablesSerial' /\ \A t \in Sessions : RequestFresh(t)'
  BY DEF SerialInv
<1>1. /\ overlapped' = overlapped
      /\ req'[s] = NoRequest /\ \A t \in Sessions \ {s} : req'[t] = req[t]
  BY Finished DEF CeremonyInv
<1>2. \A t \in Sessions : req'[t] = NoRequest
  BY <1>1 DEF SerialInv, OneRequest
<1> QED
  BY <1>1, <1>2, NoRequestFresh DEF OneRequest

LEMMA LoadKeySerial ==
  ASSUME CeremonyInv, SerialInv, NEW s \in Sessions, NEW op \in {"rotate", "disable"},
         NEW k \in Keys, LoadKey(s, op, k)
  PROVE  SerialInv'
<1>1. PICK r : r = [req[s] EXCEPT !.op = op, !.at = "ready", !.key = k, !.row = keys[k]]
  OBVIOUS
<1>2. r \in Request /\ r.op = op /\ r.key = k
  BY <1>1 DEF CeremonyInv, TypeOK, Request, Ops
<1>3. req' = [req EXCEPT ![s] = r] /\ UNCHANGED <<keys, ceremonies>> /\ Begins(s)
  BY <1>1 DEF LoadKey, CeremonyInv, TypeOK
<1>4. op = "rotate" => keys'[k].status \in Usable
  BY <1>3 DEF LoadKey
<1>5. req'[s] = r => RequestFresh(s)'
  BY <1>2, <1>4 DEF RequestFresh, Is
<1> QED
  BY <1>2, <1>3, <1>5, SerialBegins

LEMMA InitiateTargetSerial ==
  ASSUME CeremonyInv, SerialInv, NEW s \in Sessions, NEW k \in Keys,
         NEW pred \in Keys \cup {NULL}, InitiateLoadTarget(s, k, pred)
  PROVE  SerialInv'
<1>1. PICK r : r = [req[s] EXCEPT !.op = "initiate", !.key = k, !.pred = pred,
                                  !.at = IF pred = NULL THEN "related" ELSE "loaded"]
  OBVIOUS
<1>2. /\ r \in Request /\ r.op = "initiate" /\ r.key = k /\ r.pred = pred
      /\ r.at = IF pred = NULL THEN "related" ELSE "loaded"
  BY <1>1 DEF CeremonyInv, TypeOK, Request, Ops
<1>3. req' = [req EXCEPT ![s] = r] /\ UNCHANGED <<keys, ceremonies>> /\ Begins(s)
  BY <1>1 DEF InitiateLoadTarget, CeremonyInv, TypeOK
<1>4. keys'[k].status = "PENDING"
  BY <1>3 DEF InitiateLoadTarget
<1>5. req'[s] = r => RequestFresh(s)'
  BY <1>2, <1>4 DEF RequestFresh, Is
<1> QED
  BY <1>2, <1>3, <1>5, SerialBegins

LEMMA InitiateReadsSerial ==
  ASSUME CeremonyInv, SerialInv, NEW s \in Sessions,
         InitiateLoadPredecessor(s) \/ InitiateCheckDuplicate(s)
  PROVE  SerialInv'
<1>1. PICK at \in {"related", "ready"} :
        /\ req' = [req EXCEPT ![s].at = at]
        /\ at = "ready" => InitiateCheckDuplicate(s)
        /\ at = "related" => InitiateLoadPredecessor(s)
  BY DEF InitiateLoadPredecessor, InitiateCheckDuplicate
<1>2. PICK r : r = [req[s] EXCEPT !.at = at]
  OBVIOUS
<1>3. /\ r \in Request /\ r.op = req[s].op /\ r.key = req[s].key /\ r.pred = req[s].pred
      /\ r.at = at /\ req[s].op = "initiate" /\ req[s] # NoRequest
  <2>1. req[s] \in Request
    BY DEF CeremonyInv, TypeOK
  <2>2. req[s].op = "initiate" /\ req[s] # NoRequest
    BY DEF InitiateLoadPredecessor, InitiateCheckDuplicate, Is, NoRequest
  <2> QED
    BY <1>2, <2>1, <2>2 DEF Request
<1>4. req' = [req EXCEPT ![s] = r] /\ UNCHANGED <<keys, ceremonies, overlapped>>
  BY <1>1, <1>2 DEF CeremonyInv, TypeOK, InitiateLoadPredecessor, InitiateCheckDuplicate
<1>5. ASSUME ~overlapped, req'[s] = r PROVE RequestFresh(s)'
  <2>1. TablesSerial /\ RequestFresh(s)
    BY <1>5 DEF SerialInv
  <2>2. req[s].pred # NULL => PendingCeremonies(req[s].pred) = {}
    <3>1. CASE at = "related"
      <4>1. keys[req[s].pred].status \in Usable
        BY <1>1, <3>1 DEF InitiateLoadPredecessor
      <4> QED
        BY <2>1, <4>1 DEF TablesSerial, PendingNotInUse, PendingCeremonies, Usable
    <3>2. CASE at = "ready"
      BY <1>1, <2>1, <3>2 DEF InitiateCheckDuplicate, Is, RequestFresh
    <3> QED
      BY <3>1, <3>2
  <2>3. at = "ready" => PendingCeremonies(req[s].key) = {}
    BY <1>1 DEF InitiateCheckDuplicate
  <2>4. PICK k, p : k = req[s].key /\ p = req[s].pred
    OBVIOUS
  <2>5. PendingCeremonies(k)' = PendingCeremonies(k) /\ PendingCeremonies(p)' = PendingCeremonies(p)
    BY <1>4 DEF PendingCeremonies
  <2>6. PendingCeremonies(req[s].key)' = PendingCeremonies(k)' /\
        PendingCeremonies(req[s].pred)' = PendingCeremonies(p)'
    BY <1>3, <1>5, <2>4 DEF PendingCeremonies
  <2> QED
    BY <1>3, <1>4, <1>5, <2>1, <2>2, <2>3, <2>4, <2>5, <2>6 DEF RequestFresh, Is
<1> QED
  BY <1>3, <1>4, <1>5, SerialReads

LEMMA LoadCeremonySerial ==
  ASSUME CeremonyInv, SerialInv, NEW s \in Sessions, NEW op \in Ops,
         NEW c \in DOMAIN ceremonies, NEW u \in Custodians, LoadCeremony(s, op, c, u)
  PROVE  SerialInv'
<1>1. PICK r : r = [req[s] EXCEPT !.op = op, !.at = "loaded", !.ceremony = c,
                                  !.key = ceremonies[c].key,
                                  !.pred = ceremonies[c].predecessor,
                                  !.custodian = IF op = "approve" THEN u ELSE NULL]
  OBVIOUS
<1>2. /\ ceremonies[c].key \in Keys /\ ceremonies[c].predecessor \in Keys \cup {NULL}
      /\ c \in Nat
  BY CeremonyRow DEF CeremonyInv, TypeOK, KeyCeremony
<1>3. r \in Request /\ r.op = op /\ r.at = "loaded" /\ r.ceremony = c
  BY <1>1, <1>2 DEF CeremonyInv, TypeOK, Request
<1>4. req' = [req EXCEPT ![s] = r] /\ UNCHANGED <<keys, ceremonies>> /\ Begins(s)
  BY <1>1 DEF LoadCeremony, CeremonyInv, TypeOK
<1>5. ceremonies'[c].status = "PENDING" /\ op \in {"approve", "complete"}
  BY <1>4 DEF LoadCeremony
<1>6. req'[s] = r => RequestFresh(s)'
  BY <1>3, <1>5 DEF RequestFresh, Is
<1> QED
  BY <1>3, <1>4, <1>6, SerialBegins

LEMMA ApproveReadsSerial ==
  ASSUME CeremonyInv, SerialInv, NEW s \in Sessions, ApproveLoadRelated(s)
  PROVE  SerialInv'
<1>1. /\ req[s] \in Request /\ req[s].op = "approve" /\ req[s] # NoRequest /\ ApproveSound(s)
      /\ UNCHANGED <<keys, ceremonies, overlapped>>
  BY DEF CeremonyInv, TypeOK, RequestSound, ApproveLoadRelated, Is, NoRequest
<1>2. PICK mine : mine = ceremonies[req[s].ceremony].approvals[req[s].custodian]
  OBVIOUS
<1>3. PICK i \in IF mine = <<>> THEN {0} ELSE {n \in DOMAIN mine : ~mine[n]} :
        req' = [req EXCEPT ![s].at = "ready", ![s].approval = i]
  BY <1>2 DEF ApproveLoadRelated
<1>4. mine \in Seq(BOOLEAN)
  BY <1>1, <1>2, CeremonyRow DEF ApproveSound, CeremonyInv
<1>5. i \in Nat /\ (i = 0 => mine = <<>>)
  BY <1>3, <1>4
<1>6. PICK r : r = [req[s] EXCEPT !.at = "ready", !.approval = i]
  OBVIOUS
<1>7. /\ r \in Request /\ r.op = "approve" /\ r.ceremony = req[s].ceremony
      /\ r.custodian = req[s].custodian /\ r.approval = i
  BY <1>1, <1>5, <1>6 DEF Request
<1>8. req' = [req EXCEPT ![s] = r]
  BY <1>3, <1>6 DEF CeremonyInv, TypeOK
<1>9. req'[s] = r => RequestFresh(s)'
  BY <1>1, <1>2, <1>5, <1>7 DEF RequestFresh, Is
<1> QED
  BY <1>1, <1>7, <1>8, <1>9, SerialReads

LEMMA CompleteReadsSerial ==
  ASSUME CeremonyInv, SerialInv, NEW s \in Sessions,
         CompleteLoadRelated(s) \/ CompleteLoadPredecessor(s)
  PROVE  SerialInv'
<1>1. /\ req[s] \in Request /\ req[s].op = "complete" /\ req[s] # NoRequest
      /\ CompleteSound(s) /\ UNCHANGED <<keys, ceremonies, overlapped>>
  BY DEF CeremonyInv, TypeOK, RequestSound, CompleteLoadRelated, CompleteLoadPredecessor, Is,
     NoRequest
<1>2. Registered(req[s].key) /\ (req[s].pred # NULL => Started(req[s].pred))
  BY <1>1 DEF CeremonyInv, CompleteSound, CeremonySound
<1>3. ~overlapped => RequestFresh(s)
  BY DEF SerialInv
<1>4. CASE CompleteLoadRelated(s)
  <2>1. PICK r : r = [req[s] EXCEPT !.row = keys[req[s].key],
                                    !.at = IF req[s].pred = NULL THEN "ready" ELSE "related"]
    OBVIOUS
  <2>2. keys[req[s].key] \in MasterKey
    BY <1>2 DEF Registered, CeremonyInv, TypeOK
  <2>3. /\ r \in Request /\ r.op = "complete" /\ r.ceremony = req[s].ceremony
        /\ r.key = req[s].key /\ r.pred = req[s].pred /\ r.row = keys[req[s].key]
        /\ r.at = IF req[s].pred = NULL THEN "ready" ELSE "related"
    BY <1>1, <2>1, <2>2 DEF Request
  <2>4. req' = [req EXCEPT ![s] = r]
    BY <1>4, <2>1 DEF CompleteLoadRelated, CeremonyInv, TypeOK
  <2>5. ~overlapped /\ req'[s] = r => RequestFresh(s)'
    BY <1>1, <1>3, <2>3 DEF RequestFresh, Is
  <2> QED
    BY <1>1, <2>3, <2>4, <2>5, SerialReads
<1>5. CASE CompleteLoadPredecessor(s)
  <2>1. PICK r : r = [req[s] EXCEPT !.at = "ready", !.predRow = keys[req[s].pred]]
    OBVIOUS
  <2>2. keys[req[s].pred] \in MasterKey /\ req[s].at = "related"
    BY <1>1, <1>2, <1>5
       DEF CompleteLoadPredecessor, Is, CompleteSound, Started, Registered, CeremonyInv, TypeOK
  <2>3. /\ r \in Request /\ r.op = "complete" /\ r.ceremony = req[s].ceremony
        /\ r.key = req[s].key /\ r.pred = req[s].pred /\ r.row = req[s].row
        /\ r.at = "ready" /\ r.predRow = keys[req[s].pred]
    BY <1>1, <2>1, <2>2 DEF Request
  <2>4. req' = [req EXCEPT ![s] = r]
    BY <1>5, <2>1 DEF CompleteLoadPredecessor, CeremonyInv, TypeOK
  <2>5. ~overlapped /\ req'[s] = r => RequestFresh(s)'
    BY <1>1, <1>3, <2>2, <2>3 DEF RequestFresh, Is
  <2> QED
    BY <1>1, <2>3, <2>4, <2>5, SerialReads
<1> QED
  BY <1>4, <1>5

(* The writes.  A key that is created is nobody's successor yet. *)
LEMMA CreateSerial ==
  ASSUME CeremonyInv, SerialInv, NEW k \in Keys, create_key(k)
  PROVE  SerialInv'
<1> SUFFICES ASSUME ~overlapped'
             PROVE  OneRequest' /\ TablesSerial' /\ \A t \in Sessions : RequestFresh(t)'
  BY DEF SerialInv
<1>1. ~overlapped /\ \A t \in Sessions : req[t] = NoRequest
  BY DEF create_key, CeremonyInv, TypeOK
<1>2. TablesSerial /\ req' = req /\ ceremonies' = ceremonies
  BY <1>1 DEF SerialInv, create_key
<1>3. keys[k] = NULL /\ \A j \in Keys \ {k} : keys'[j] = keys[j]
  BY DEF create_key, CeremonyInv, TypeOK
<1>4. ApprovedOnce' /\ OnePending' /\ PredecessorsSettled'
  BY <1>2 DEF TablesSerial, ApprovedOnce, OnePending, PredecessorsSettled, PendingCeremonies
<1>5. PendingNotInUse'
  BY <1>2, <1>3 DEF TablesSerial, PendingNotInUse, CeremonyInv, CeremonySound, Registered
<1>6. keys'[k].status = "PENDING"
  BY DEF create_key, CeremonyInv, TypeOK
<1>7. SuccessorsActivated'
  <2> SUFFICES ASSUME NEW j \in Keys, keys'[j] # NULL, keys'[j].status = "RETIRED"
               PROVE  /\ keys'[j].superseded_by # NULL
                      /\ keys'[keys'[j].superseded_by] # NULL
                      /\ keys'[keys'[j].superseded_by].status # "PENDING"
    BY DEF SuccessorsActivated
  <2>1. j # k /\ keys'[j] = keys[j]
    BY <1>3, <1>6
  <2>2. /\ keys[j].superseded_by # NULL /\ keys[keys[j].superseded_by] # NULL
        /\ keys[keys[j].superseded_by].status # "PENDING"
    BY <1>2, <2>1 DEF TablesSerial, SuccessorsActivated
  <2>3. keys[j].superseded_by \in Keys
    BY <2>1, <2>2 DEF CeremonyInv, TypeOK, MasterKey
  <2> QED
    BY <1>3, <2>1, <2>2, <2>3
<1> QED
  BY <1>1, <1>2, <1>4, <1>5, <1>7, NoRequestFresh DEF OneRequest, TablesSerial

(* The successor of a retired key that is not written stays activated. *)
LEMMA SuccessorKept ==
  ASSUME CeremonyInv, TablesSerial, KeysKept, NEW j \in Keys, keys'[j] = keys[j],
         keys[j] # NULL, keys[j].status = "RETIRED"
  PROVE  /\ keys'[j].superseded_by # NULL
         /\ keys'[keys'[j].superseded_by] # NULL
         /\ keys'[keys'[j].superseded_by].status # "PENDING"
<1>1. /\ keys[j].superseded_by # NULL /\ keys[keys[j].superseded_by] # NULL
      /\ keys[keys[j].superseded_by].status # "PENDING"
  BY DEF TablesSerial, SuccessorsActivated
<1>2. keys[j].superseded_by \in Keys
  BY <1>1 DEF CeremonyInv, TypeOK, MasterKey
<1> QED
  BY <1>1, <1>2 DEF KeysKept

LEMMA RotateSerial ==
  ASSUME CeremonyInv, SerialInv, NEW s \in Sessions, NEW successor \in Keys,
         CommitRotate(s, successor)
  PROVE  SerialInv'
<1>1. req[s] # NoRequest /\ Finish(s) /\ ceremonies' = ceremonies
  BY DEF CommitRotate, Is, NoRequest
<1>2. /\ CeremonyInv' /\ req[s].op = "rotate" /\ req[s].key \in Keys /\ req[s].key # successor
      /\ keys[successor] = NULL
      /\ keys'[successor] = [status |-> "ACTIVE", superseded_by |-> NULL]
      /\ keys'[req[s].key] = [status |-> "RETIRED", superseded_by |-> successor]
      /\ \A k \in Keys \ {successor, req[s].key} : keys'[k] = keys[k]
  BY RotateWrites
<1>3. /\ keys'[successor].status = "ACTIVE" /\ keys'[successor] \in MasterKey
      /\ keys'[req[s].key].status = "RETIRED" /\ keys'[req[s].key].superseded_by = successor
      /\ keys'[req[s].key] \in MasterKey
  BY <1>2 DEF MasterKey
<1>4. KeysKept
  BY <1>2, <1>3, NoRow DEF KeysKept
<1>5. ASSUME ~overlapped PROVE TablesSerial'
  <2>1. TablesSerial /\ keys[req[s].key].status \in Usable
    BY <1>2, <1>5 DEF SerialInv, RequestFresh
  <2>2. ApprovedOnce' /\ OnePending' /\ PredecessorsSettled'
    BY <1>1, <2>1
       DEF TablesSerial, ApprovedOnce, OnePending, PredecessorsSettled, PendingCeremonies
  <2>3. ASSUME NEW c \in DOMAIN ceremonies, ceremonies[c].status = "PENDING"
        PROVE  keys'[ceremonies[c].key].status \in {"PENDING", "DISABLED"}
    <3>1. /\ ceremonies[c].key \in Keys /\ keys[ceremonies[c].key] # NULL
          /\ keys[ceremonies[c].key].status \in {"PENDING", "DISABLED"}
      BY <2>1, <2>3 DEF CeremonyInv, CeremonySound, Registered, TablesSerial, PendingNotInUse
    <3>2. ceremonies[c].key # successor /\ ceremonies[c].key # req[s].key
      BY <1>2, <2>1, <3>1 DEF Usable
    <3> QED
      BY <1>2, <3>1, <3>2
  <2>4. PendingNotInUse'
    BY <1>1, <2>3 DEF PendingNotInUse
  <2>5. SuccessorsActivated'
    <3> SUFFICES ASSUME NEW j \in Keys, keys'[j] # NULL, keys'[j].status = "RETIRED"
                 PROVE  /\ keys'[j].superseded_by # NULL
                        /\ keys'[keys'[j].superseded_by] # NULL
                        /\ keys'[keys'[j].superseded_by].status # "PENDING"
      BY DEF SuccessorsActivated
    <3>1. CASE j = req[s].key
      BY <1>3, <3>1, NoRow, MasterKeysAssumption
    <3>2. CASE j # req[s].key
      BY <1>2, <1>3, <1>4, <2>1, <3>2, SuccessorKept
    <3> QED
      BY <3>1, <3>2
  <2> QED
    BY <2>2, <2>4, <2>5 DEF TablesSerial
<1> QED
  BY <1>1, <1>5, SerialEnds

LEMMA DisableSerial ==
  ASSUME CeremonyInv, SerialInv, NEW s \in Sessions, CommitDisable(s)
  PROVE  SerialInv'
<1>1. req[s] # NoRequest /\ Finish(s) /\ ceremonies' = ceremonies
  BY DEF CommitDisable, Is, NoRequest
<1>2. /\ req[s].key \in Keys /\ keys[req[s].key] # NULL /\ keys'[req[s].key] # NULL
      /\ keys'[req[s].key].status = "DISABLED"
      /\ \A k \in Keys \ {req[s].key} : keys'[k] = keys[k]
  BY DisableWrites
<1>3. KeysKept
  BY <1>2 DEF KeysKept
<1>4. ASSUME ~overlapped PROVE TablesSerial'
  <2>1. TablesSerial
    BY <1>4 DEF SerialInv
  <2>2. ApprovedOnce' /\ OnePending' /\ PredecessorsSettled'
    BY <1>1, <2>1
       DEF TablesSerial, ApprovedOnce, OnePending, PredecessorsSettled, PendingCeremonies
  <2>3. PendingNotInUse'
    BY <1>1, <1>2, <2>1 DEF PendingNotInUse, TablesSerial, CeremonyInv, CeremonySound, Registered
  <2>4. SuccessorsActivated'
    BY <1>2, <1>3, <2>1, SuccessorKept DEF SuccessorsActivated
  <2> QED
    BY <2>2, <2>3, <2>4 DEF TablesSerial
<1> QED
  BY <1>1, <1>4, SerialEnds

LEMMA InitiateSerial ==
  ASSUME CeremonyInv, SerialInv, NEW s \in Sessions, NEW required \in Required,
         CommitInitiate(s, required)
  PROVE  SerialInv'
<1>1. req[s] # NoRequest /\ Finish(s) /\ keys' = keys
  BY DEF CommitInitiate, Is, NoRequest
<1>2. PICK n, k, p : n = Len(ceremonies) + 1 /\ k = req[s].key /\ p = req[s].pred
  OBVIOUS
<1>3. /\ CeremonyInv' /\ Is(s, "initiate", "ready")
      /\ Len(ceremonies') = Len(ceremonies) + 1 /\ Len(ceremonies) \in Nat
      /\ \A c \in DOMAIN ceremonies : ceremonies'[c] = ceremonies[c]
      /\ ceremonies'[n].key = k /\ ceremonies'[n].predecessor = p
      /\ \A u \in Custodians : ceremonies'[n].approvals[u] = <<>>
  BY <1>2, InitiateWrites DEF CeremonyInv, TypeOK
<1>4. DOMAIN ceremonies' = DOMAIN ceremonies \cup {n}
  BY <1>2, <1>3 DEF CeremonyInv, TypeOK
<1>5. InitiateSound(s)
  BY <1>3 DEF CeremonyInv, RequestSound, Is
<1>6. ASSUME ~overlapped PROVE TablesSerial'
  <2>1. /\ TablesSerial /\ keys[k].status = "PENDING" /\ PendingCeremonies(k) = {}
        /\ p # NULL => PendingCeremonies(p) = {}
    BY <1>2, <1>3, <1>6 DEF SerialInv, RequestFresh, Is
  <2>2. p # k /\ (p # NULL => Started(p))
    BY <1>2, <1>3, <1>5 DEF InitiateSound, Is
  <2>3. ApprovedOnce'
    BY <1>3, <1>4, <2>1 DEF TablesSerial, ApprovedOnce
  <2>4. OnePending'
    BY <1>3, <1>4, <2>1 DEF TablesSerial, OnePending, PendingCeremonies
  <2>5. PendingNotInUse'
    BY <1>1, <1>3, <1>4, <2>1 DEF TablesSerial, PendingNotInUse
  <2>6. \A c \in DOMAIN ceremonies : ceremonies[c].predecessor # NULL =>
          ceremonies[c].predecessor # k
    BY <2>1 DEF CeremonyInv, CeremonySound, Started
  <2>7. PredecessorsSettled'
    BY <1>3, <1>4, <2>1, <2>2, <2>6 DEF TablesSerial, PredecessorsSettled, PendingCeremonies
  <2>8. SuccessorsActivated'
    BY <1>1, <2>1 DEF TablesSerial, SuccessorsActivated
  <2> QED
    BY <2>3, <2>4, <2>5, <2>7, <2>8 DEF TablesSerial
<1> QED
  BY <1>1, <1>6, SerialEnds

LEMMA ApproveSerial ==
  ASSUME CeremonyInv, SerialInv, NEW s \in Sessions, CommitApprove(s)
  PROVE  SerialInv'
<1>1. req[s] # NoRequest /\ Finish(s) /\ keys' = keys
  BY DEF CommitApprove, Is, NoRequest
<1>2. /\ Is(s, "approve", "ready") /\ CeremonyInv'
      /\ Len(ceremonies') = Len(ceremonies)
      /\ \A c \in DOMAIN ceremonies :
           /\ ceremonies'[c].key = ceremonies[c].key
           /\ ceremonies'[c].predecessor = ceremonies[c].predecessor
           /\ ceremonies'[c].status = ceremonies[c].status
           /\ \A u \in Custodians :
                \/ Len(ceremonies'[c].approvals[u]) = Len(ceremonies[c].approvals[u])
                \/ /\ c = req[s].ceremony /\ u = req[s].custodian /\ req[s].approval = 0
                   /\ Len(ceremonies'[c].approvals[u]) = Len(ceremonies[c].approvals[u]) + 1
  BY ApproveWrites
<1>3. DOMAIN ceremonies' = DOMAIN ceremonies
  BY <1>2 DEF CeremonyInv, TypeOK
<1>4. \A k : PendingCeremonies(k)' = PendingCeremonies(k)
  BY <1>2, <1>3 DEF PendingCeremonies
<1>5. ASSUME ~overlapped PROVE TablesSerial'
  <2>1. /\ TablesSerial
        /\ req[s].approval = 0 => ceremonies[req[s].ceremony].approvals[req[s].custodian] = <<>>
    BY <1>2, <1>5 DEF SerialInv, RequestFresh
  <2>2. ApprovedOnce'
    <3>1. Len(<<>>) = 0
      OBVIOUS
    <3> QED
      BY <1>2, <1>3, <2>1, <3>1 DEF TablesSerial, ApprovedOnce
  <2>3. OnePending'
    BY <1>4, <2>1 DEF TablesSerial, OnePending
  <2>4. PendingNotInUse'
    BY <1>1, <1>2, <1>3, <2>1 DEF TablesSerial, PendingNotInUse
  <2>5. PredecessorsSettled'
    BY <1>2, <1>3, <2>1 DEF TablesSerial, PredecessorsSettled, PendingCeremonies
  <2>6. SuccessorsActivated'
    BY <1>1, <2>1 DEF TablesSerial, SuccessorsActivated
  <2> QED
    BY <2>2, <2>3, <2>4, <2>5, <2>6 DEF TablesSerial
<1> QED
  BY <1>1, <1>5, SerialEnds

LEMMA CompleteSerial ==
  ASSUME CeremonyInv, SerialInv, NEW s \in Sessions, CommitComplete(s)
  PROVE  SerialInv'
<1>1. req[s] # NoRequest /\ Finish(s)
  BY DEF CommitComplete, Is, NoRequest
<1>2. PICK k, p, n : k = req[s].key /\ p = req[s].pred /\ n = req[s].ceremony
  OBVIOUS
<1>3. /\ Is(s, "complete", "ready") /\ CompleteSound(s)
      /\ Registered(k) /\ p # k /\ (p # NULL => Started(p))
      /\ keys'[k] = NewKey(s, keys[k])
      /\ keys'[k] \in MasterKey /\ keys'[k].status # "PENDING"
      /\ p # NULL => keys'[p] = Predecessor(s, keys[p])
      /\ \A j \in Keys \ {k, p} : keys'[j] = keys[j]
      /\ KeysKept
  BY <1>2, CompleteKeys
<1>4. /\ CeremonyInv' /\ Len(ceremonies') = Len(ceremonies)
      /\ \A c \in DOMAIN ceremonies :
           /\ ceremonies'[c].key = ceremonies[c].key
           /\ ceremonies'[c].predecessor = ceremonies[c].predecessor
           /\ ceremonies'[c].approvals = ceremonies[c].approvals
           /\ ceremonies'[c].status = IF c = n THEN "COMPLETE" ELSE ceremonies[c].status
  BY <1>2, CompleteWrites
<1>5. DOMAIN ceremonies' = DOMAIN ceremonies
  BY <1>4 DEF CeremonyInv, TypeOK
<1>6. n \in DOMAIN ceremonies /\ ceremonies[n].key = k /\ ceremonies[n].predecessor = p
  BY <1>2, <1>3 DEF CompleteSound
<1>7. \A j : PendingCeremonies(j)' = PendingCeremonies(j) \ {n}
  BY <1>4, <1>5 DEF PendingCeremonies
<1>8. ASSUME ~overlapped PROVE TablesSerial'
  <2>1. TablesSerial /\ RequestFresh(s)
    BY <1>8 DEF SerialInv
  <2>2. /\ ceremonies[n].status = "PENDING" /\ req[s].row = keys[k]
        /\ p # NULL => req[s].predRow = keys[p]
    BY <1>2, <1>3, <2>1 DEF RequestFresh, Is
  <2>3. ApprovedOnce'
    BY <1>4, <1>5, <2>1 DEF TablesSerial, ApprovedOnce
  <2>4. OnePending'
    BY <1>7, <2>1 DEF TablesSerial, OnePending
  <2>5. PredecessorsSettled'
    BY <1>4, <1>5, <2>1 DEF TablesSerial, PredecessorsSettled, PendingCeremonies
  <2>6. ASSUME NEW c \in DOMAIN ceremonies, ceremonies'[c].status = "PENDING"
        PROVE  keys'[ceremonies[c].key].status \in {"PENDING", "DISABLED"}
    <3>1. c # n /\ ceremonies[c].status = "PENDING"
      BY <1>4, <2>6
    <3>2. ceremonies[c].key # k
      BY <1>3, <1>6, <2>1, <2>2, <3>1 DEF TablesSerial, OnePending, PendingCeremonies, Registered
    <3>3. ceremonies[c].key # p
      BY <1>6, <2>1, <2>2, <3>1, CeremonyRow, MasterKeysAssumption
         DEF TablesSerial, PredecessorsSettled, PendingCeremonies, CeremonyInv
    <3>4. ceremonies[c].key \in Keys
      BY CeremonyRow DEF CeremonyInv
    <3> QED
      BY <1>3, <2>1, <3>1, <3>2, <3>3, <3>4 DEF TablesSerial, PendingNotInUse
  <2>7. PendingNotInUse'
    BY <1>4, <1>5, <2>6 DEF PendingNotInUse
  <2>8. keys'[k].status = "ACTIVE"
    BY <1>3, <2>2 DEF NewKey, Flush
  <2>9. p # NULL => keys'[p].superseded_by = k
    BY <1>2, <1>3, <2>2 DEF Predecessor, Flush
  <2>10. SuccessorsActivated'
    <3> SUFFICES ASSUME NEW j \in Keys, keys'[j] # NULL, keys'[j].status = "RETIRED"
                 PROVE  /\ keys'[j].superseded_by # NULL
                        /\ keys'[keys'[j].superseded_by] # NULL
                        /\ keys'[keys'[j].superseded_by].status # "PENDING"
      BY DEF SuccessorsActivated
    <3>1. CASE j = p
      BY <1>3, <2>9, <3>1, NoRow, MasterKeysAssumption DEF Registered
    <3>2. CASE j # p
      <4>1. j # k /\ keys'[j] = keys[j]
        BY <1>3, <2>8, <3>2
      <4> QED
        BY <1>3, <2>1, <4>1, SuccessorKept
    <3> QED
      BY <3>1, <3>2
  <2> QED
    BY <2>3, <2>4, <2>5, <2>7, <2>10 DEF TablesSerial
<1> QED
  BY <1>1, <1>8, SerialEnds

LEMMA RollbackSerial ==
  ASSUME CeremonyInv, SerialInv, NEW s \in Sessions, Rollback(s)
  PROVE  SerialInv'
<1>1. ~overlapped => TablesSerial'
  BY SameTables DEF Rollback, SerialInv
<1> QED
  BY <1>1, SerialEnds DEF Rollback

LEMMA SerialStep ==
  ASSUME CeremonyInv, SerialInv, [Next]_vars
  PROVE  SerialInv'
<1>1. CASE UNCHANGED vars
  <2>1. ~overlapped => TablesSerial'
    BY <1>1, SameTables DEF SerialInv, vars
  <2>2. \A s \in Sessions : RequestFresh(s) => RequestFresh(s)'
    BY <1>1 DEF vars, RequestFresh, Is, PendingCeremonies
  <2> QED
    BY <1>1, <2>1, <2>2 DEF SerialInv, OneRequest, vars
<1>2. ASSUME NEW s \in Sessions, Step(s) PROVE SerialInv'
  BY <1>2, LoadKeySerial, RotateSerial, DisableSerial, InitiateTargetSerial, InitiateReadsSerial,
     InitiateSerial, LoadCeremonySerial, ApproveReadsSerial, ApproveSerial, CompleteReadsSerial,
     CompleteSerial, RollbackSerial DEF Step
<1> QED
  BY <1>1, <1>2, CreateSerial DEF Next

LEMMA SerialInductive == Spec => []SerialInv
<1>1. Init => SerialInv
  <2> SUFFICES ASSUME Init PROVE OneRequest /\ TablesSerial /\ \A s \in Sessions : RequestFresh(s)
    BY DEF SerialInv
  <2>1. \A s \in Sessions : req[s] = NoRequest
    BY DEF Init
  <2>2. OneRequest /\ \A s \in Sessions : RequestFresh(s)
    BY <2>1 DEF OneRequest, RequestFresh, NoRequest, Is
  <2>3. SuccessorsActivated
    BY InitTables DEF SuccessorsActivated, Usable
  <2>4. CASE ceremonies = <<>>
    BY <2>2, <2>3, <2>4 DEF TablesSerial, ApprovedOnce, OnePending, PendingNotInUse,
       PredecessorsSettled, PendingCeremonies
  <2>5. CASE ceremonies # <<>>
    <3>1. PICK x \in KeyCeremony :
            /\ ceremonies = <<x>>
            /\ Registered(x.key) /\ keys[x.key].status = "PENDING"
            /\ Started(x.predecessor)
            /\ \A u \in Custodians : Len(x.approvals[u]) <= 1
      BY <2>5, InitTables
    <3>2. DOMAIN ceremonies = {1} /\ ceremonies[1] = x
      BY <3>1
    <3>3. x.predecessor # x.key
      BY <3>1 DEF Started
    <3> QED
      BY <2>2, <2>3, <3>1, <3>2, <3>3 DEF TablesSerial, ApprovedOnce, OnePending,
         PendingNotInUse, PredecessorsSettled, PendingCeremonies
  <2> QED
    BY <2>4, <2>5
<1> QED
  BY <1>1, CeremonyInductive, SerialStep, PTL DEF Spec

(* Until requests overlap, every retired key names a successor that has been *)
(* activated (rotate_key, complete_ceremony), for any number of keys.        *)
THEOREM RetiredKeysAreSuperseded == Spec => []RetiredHasSuccessor
BY SerialInductive, PTL DEF SerialInv, TablesSerial, RetiredHasSuccessor

(* A completed ceremony none of whose approvers has two rows was approved by *)
(* as many custodians as it requires: its approved rows are as many.         *)
LEMMA QuorumOfGivers ==
  ASSUME CeremonyInv, NEW c \in DOMAIN ceremonies, ceremonies[c].status = "COMPLETE",
         \A u \in Approvers(c) : Len(ceremonies[c].approvals[u]) <= 1
  PROVE  Cardinality(Approvers(c)) >= ceremonies[c].required
<1>1. PICK a : a = ceremonies[c].approvals
  OBVIOUS
<1>2. a \in [Custodians -> Seq(BOOLEAN)] /\ ceremonies[c].required \in Nat
  BY <1>1, CeremonyRow DEF CeremonyInv
<1>3. Approvers(c) = Givers(a)
  BY <1>1 DEF Approvers, Givers
<1>4. /\ Cardinality(Given(a)) <= Cardinality(Givers(a))
      /\ Cardinality(Givers(a)) \in Nat /\ Cardinality(Given(a)) \in Nat
  BY <1>1, <1>2, <1>3, GivenByDifferentCustodians, RowsFinite
<1>5. Cardinality(Given(a)) >= ceremonies[c].required
  BY <1>1 DEF CeremonyInv, CeremonySound, quorum_met, approval_count, ApprovalRows, Rows, Given
<1> QED
  BY <1>2, <1>3, <1>4, <1>5

(* Until requests overlap, every completed m-of-n ceremony was approved by m *)
(* different custodians: approve_ceremony keeps one row of a custodian, the  *)
(* rows without approved_at do not count towards quorum_met, and the others  *)
(* then count people.                                                        *)
THEOREM SerialQuorumOfCustodians == Spec => []QuorumIfSerial
<1>1. ASSUME CeremonyInv, SerialInv PROVE QuorumIfSerial
  <2> SUFFICES ASSUME ~overlapped, NEW c \in DOMAIN ceremonies, ceremonies[c].status = "COMPLETE"
               PROVE  Cardinality(Approvers(c)) >= ceremonies[c].required
    BY DEF QuorumIfSerial, QuorumOfCustodians
  <2>1. \A u \in Approvers(c) : Len(ceremonies[c].approvals[u]) <= 1
    BY <1>1 DEF SerialInv, TablesSerial, ApprovedOnce, Approvers
  <2> QED
    BY <1>1, <2>1, QuorumOfGivers
<1> QED
  BY <1>1, CeremonyInductive, SerialInductive, PTL

(* Under every interleaving a completed ceremony that only invited custodians *)
(* approved has the quorum of different ones: each of them has the row made   *)
(* with the ceremony and no other, which approve_ceremony updates.            *)
THEOREM InvitedQuorum == Spec => []QuorumOfInvited
<1>1. ASSUME CeremonyInv PROVE QuorumOfInvited
  <2> SUFFICES ASSUME NEW c \in DOMAIN ceremonies, ceremonies[c].status = "COMPLETE",
                      Approvers(c) \subseteq ceremonies[c].invited
               PROVE  Cardinality(Approvers(c)) >= ceremonies[c].required
    BY DEF QuorumOfInvited
  <2>1. \A u \in Approvers(c) : Len(ceremonies[c].approvals[u]) = 1
    BY <1>1 DEF CeremonyInv, CeremonySound
  <2>2. ASSUME NEW u \in Approvers(c) PROVE Len(ceremonies[c].approvals[u]) <= 1
    <3>1. PICK n : n = Len(ceremonies[c].approvals[u])
      OBVIOUS
    <3>2. n = 1
      BY <2>1, <3>1
    <3> QED
      BY <3>1, <3>2
  <2> QED
    BY <1>1, <2>2, QuorumOfGivers
<1> QED
  BY <1>1, CeremonyInductive, PTL

(* The two together: approval_count counts people, unless two approvals of a *)
(* custodian without a row overlapped.                                       *)
THEOREM QuorumOfDifferentCustodians == Spec => []ApproversCountedOnce
<1>1. QuorumIfSerial /\ QuorumOfInvited => ApproversCountedOnce
  BY DEF ApproversCountedOnce
<1> QED
  BY <1>1, SerialQuorumOfCustodians, InvitedQuorum, PTL

(* Until requests overlap, a key has at most one pending ceremony, and none  *)
(* once it is in use (create_ceremony, rotate_key, complete_ceremony).       *)
THEOREM PendingCeremoniesAreCurrent == Spec => []PendingCeremonyIsCurrent
<1>1. ASSUME CeremonyInv, SerialInv PROVE PendingCeremonyIsCurrent
  <2> SUFFICES ASSUME ~overlapped, NEW k \in Keys
               PROVE  /\ Cardinality(PendingCeremonies(k)) <= 1
                      /\ PendingCeremonies(k) # {} => keys[k].status \in {"PENDING", "DISABLED"}
    BY DEF PendingCeremonyIsCurrent, OnePendingCeremony
  <2>1. TablesSerial
    BY <1>1 DEF SerialInv
  <2>2. PendingCeremonies(k) # {} => \E c : PendingCeremonies(k) = {c}
    BY <2>1 DEF TablesSerial, OnePending
  <2>3. Cardinality(PendingCeremonies(k)) <= 1
    <3>1. CASE PendingCeremonies(k) = {}
      <4>1. Cardinality(PendingCeremonies(k)) = 0
        BY <3>1, FS_EmptySet
      <4> QED
        BY <4>1
    <3>2. CASE PendingCeremonies(k) # {}
      <4>1. Cardinality(PendingCeremonies(k)) = 1
        BY <2>2, <3>2, FS_Singleton
      <4> QED
        BY <4>1
    <3> QED
      BY <3>1, <3>2
  <2>4. PendingCeremonies(k) # {} => keys[k].status \in {"PENDING", "DISABLED"}
    BY <2>1 DEF TablesSerial, PendingNotInUse, PendingCeremonies
  <2> QED
    BY <2>3, <2>4
<1> QED
  BY <1>1, CeremonyInductive, SerialInductive, PTL

=============================================================================
