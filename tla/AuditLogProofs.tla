--------------------------- MODULE AuditLogProofs ---------------------------
(***************************************************************************)
(* Theorems about AuditLog for any sets of sessions and contents.          *)
(*                                                                         *)
(* Part 1: under any interleaving no committed entry has a dangling        *)
(* prev_hash.  Part 2: when writers do not overlap the committed log is an *)
(* intact chain and implements the append-only ledger.  Part 3: whoever    *)
(* wrote an intact chain, which overwritten or removed rows of it          *)
(* verify_chain reports, and where.                                        *)
(***************************************************************************)
EXTENDS AuditLog, FiniteSetTheorems, WellFoundedInduction, TLAPS

-----------------------------------------------------------------------------
(* Facts about the tail of a set of rows. *)

(* A nonempty set of naturals has a least element. *)
LEMMA LeastNatural ==
  ASSUME NEW T, T \subseteq Nat, T # {}
  PROVE  \E m \in T : \A k \in T : m <= k
<1>1. PICK m \in T : \A k \in T : ~(<<k, m>> \in OpToRel(<, Nat))
  BY WFMin, NatLessThanWellFounded
<1>2. \A k \in T : ~(k < m)
  BY <1>1 DEF OpToRel
<1> QED
  BY <1>2

(* _get_tail is well defined: rows whose sequences are below a bound have   *)
(* one with the largest sequence.                                           *)
LEMMA LastInSet ==
  ASSUME NEW S, S \subseteq Entry, S # {},
         NEW n \in Nat, \A r \in S : r.sequence < n
  PROVE  /\ last(S) \in S
         /\ \A q \in S : q.sequence <= last(S).sequence
<1> DEFINE T == {n - r.sequence : r \in S}
<1>1. \A r \in S : r.sequence \in Nat
  BY DEF Entry
<1>2. T \subseteq Nat /\ T # {}
  BY <1>1
<1>3. PICK t \in T : \A k \in T : t <= k
  BY <1>2, LeastNatural
<1>4. PICK m \in S : t = n - m.sequence
  OBVIOUS
<1>5. \A q \in S : n - m.sequence <= n - q.sequence
  BY <1>3, <1>4
<1>6. \A q \in S : q.sequence <= m.sequence
  BY <1>1, <1>5
<1> QED
  BY <1>6 DEF last

(* The tail of a bounded set of rows is NULL or the hash of one of them. *)
LEMMA TailInSet ==
  ASSUME NEW S, S \subseteq Entry, NEW n \in Nat, \A r \in S : r.sequence < n
  PROVE  /\ get_tail(S) \in Hash
         /\ \/ S = {} /\ get_tail(S) = NoHash
            \/ \E q \in S : get_tail(S) = q.entry_hash
<1>1. CASE S = {}
  BY <1>1 DEF get_tail, NoHash, Hash
<1>2. CASE S # {}
  <2>1. last(S) \in S
    BY <1>2, LastInSet
  <2> QED
    BY <1>2, <2>1 DEF get_tail, Entry
<1> QED
  BY <1>1, <1>2

(* A row with a sequence above all others becomes the tail. *)
LEMMA TailOfExtended ==
  ASSUME NEW S, S \subseteq Entry, NEW e \in Entry,
         \A r \in S : r.sequence < e.sequence
  PROVE  get_tail(S \cup {e}) = e.entry_hash
<1> DEFINE U == S \cup {e}
<1>1. /\ U # {} /\ U \subseteq Entry
      /\ e.sequence + 1 \in Nat
      /\ \A r \in U : r.sequence \in Nat /\ r.sequence < e.sequence + 1
  BY DEF Entry
<1>2. last(U) \in U /\ e.sequence <= last(U).sequence
  BY <1>1, LastInSet
<1>3. last(U) = e
  BY <1>1, <1>2 DEF Entry
<1> QED
  BY <1>1, <1>3 DEF get_tail

(* The entry the handler builds is a well-formed row that extends prev[s]. *)
LEMMA NewEntryType ==
  ASSUME TypeOK, NEW s \in Sessions, NEW c \in Content, NEW u \in Unhashed
  PROVE  /\ new_entry(s, c, u) \in Entry
         /\ new_entry(s, c, u).sequence = nextSeq
         /\ new_entry(s, c, u).prev_hash = prev[s]
         /\ new_entry(s, c, u).content = c
         /\ new_entry(s, c, u).entry_hash = Append(prev[s], c)
         /\ new_entry(s, c, u).signature = Append(prev[s], c)
<1>1. Append(prev[s], c) \in Seq(Content) /\ prev[s] \in Seq(Content)
  BY DEF TypeOK, Hash
<1> QED
  BY <1>1 DEF new_entry, compute_entry_hash, sign_hex_digest, Entry, TypeOK, Hash

-----------------------------------------------------------------------------
(* Part 1: any interleaving. *)

(* Every step of every session keeps the variables in their types. *)
LEMMA TypeInvariant ==
  ASSUME TypeOK, LinkInv, [Next]_vars
  PROVE  TypeOK'
<1>1. ASSUME NEW s \in Sessions, Close(s)
      PROVE  /\ pc' \in [Sessions -> {"idle", "tail_read", "waiting", "open"}]
             /\ prev' \in [Sessions -> Hash]
             /\ pending' \in [Sessions -> SUBSET Entry]
  BY <1>1 DEF TypeOK, Close, NoHash, Hash
<1>2. ASSUME NEW s \in Sessions, ReadTail(s)
      PROVE  TypeOK'
  <2>1. get_tail(Visible(s)) \in Hash
    BY TailInSet DEF TypeOK, LinkInv, SequenceBound, Visible
  <2> QED
    BY <1>2, <2>1 DEF ReadTail, TypeOK
<1>3. ASSUME NEW s \in Sessions, NEW c \in Content, NEW u \in Unhashed, Insert(s, c, u)
      PROVE  TypeOK'
  <2>1. new_entry(s, c, u) \in Entry
    BY NewEntryType
  <2> QED
    BY <1>3, <2>1 DEF Insert, TypeOK, NoHash, Hash
<1>4. ASSUME NEW s \in Sessions, NEW c \in Content, InsertDuplicate(s, c)
      PROVE  TypeOK'
  BY <1>1, <1>4 DEF InsertDuplicate, TypeOK
<1>5. ASSUME NEW s \in Sessions, InsertResumes(s)
      PROVE  TypeOK'
  BY <1>5 DEF InsertResumes, TypeOK
<1>6. ASSUME NEW s \in Sessions, Commit(s)
      PROVE  TypeOK'
  BY <1>1, <1>6 DEF Commit, TypeOK
<1>7. ASSUME NEW s \in Sessions, Rollback(s)
      PROVE  TypeOK'
  BY <1>1, <1>7 DEF Rollback, TypeOK
<1>8. CASE UNCHANGED vars
  BY <1>8 DEF vars, TypeOK
<1> QED
  BY <1>2, <1>3, <1>4, <1>5, <1>6, <1>7, <1>8 DEF Next, Step

(* Seeing more rows never unlinks one. *)
LEMMA LinkedMonotone ==
  ASSUME NEW S, NEW T, S \subseteq T, NEW r, Linked(S, r)
  PROVE  Linked(T, r)
  BY DEF Linked

(* A transaction that ends without committing leaves the others' links alone. *)
LEMMA LinkAfterClose ==
  ASSUME TypeOK, LinkInv, NEW s \in Sessions, Close(s),
         rows' = rows, nextSeq' \in {nextSeq, nextSeq + 1}
  PROVE  LinkInv'
<1>1. /\ pending'[s] = {} /\ pc'[s] = "idle"
      /\ \A t \in Sessions \ {s} :
           pending'[t] = pending[t] /\ pc'[t] = pc[t] /\ prev'[t] = prev[t]
  BY DEF Close, TypeOK
<1>2. SequenceBound'
  BY <1>1 DEF LinkInv, SequenceBound, Visible, TypeOK, Entry
<1>3. PendingLinked'
  BY <1>1 DEF LinkInv, PendingLinked, Linked, Visible
<1>4. TailSeen'
  BY <1>1 DEF LinkInv, TailSeen, Visible
<1>5. PrevPersisted'
  BY DEF LinkInv, PrevPersisted, Linked
<1> QED
  BY <1>2, <1>3, <1>4, <1>5 DEF LinkInv

(* The SELECT of the tail returns the hash of a row the session sees. *)
LEMMA LinkReadTail ==
  ASSUME TypeOK, LinkInv, NEW s \in Sessions, ReadTail(s)
  PROVE  LinkInv'
<1>1. \/ get_tail(Visible(s)) = NoHash
      \/ \E q \in Visible(s) : q.entry_hash = get_tail(Visible(s))
  BY TailInSet DEF TypeOK, LinkInv, SequenceBound, Visible
<1>2. /\ rows' = rows /\ pending' = pending /\ nextSeq' = nextSeq
      /\ prev'[s] = get_tail(Visible(s))
      /\ \A t \in Sessions \ {s} : pc'[t] = pc[t] /\ prev'[t] = prev[t]
  BY DEF ReadTail, TypeOK
<1>3. TailSeen'
  BY <1>1, <1>2 DEF LinkInv, TailSeen, Visible
<1> QED
  BY <1>2, <1>3 DEF LinkInv, SequenceBound, PendingLinked, PrevPersisted, Linked, Visible

(* The INSERT links its row to the tail read before it, which the session   *)
(* still sees: it is committed, or its own.                                 *)
LEMMA LinkInsert ==
  ASSUME TypeOK, LinkInv, NEW s \in Sessions, NEW c \in Content, NEW u \in Unhashed, Insert(s, c, u)
  PROVE  LinkInv'
<1> DEFINE e == new_entry(s, c, u)
<1>1. /\ e \in Entry /\ e.sequence = nextSeq /\ e.prev_hash = prev[s]
  BY NewEntryType
<1>2. /\ rows' = rows /\ nextSeq' = nextSeq + 1
      /\ pc[s] = "tail_read" /\ pc'[s] # "tail_read"
      /\ pending'[s] = pending[s] \cup {e}
      /\ \A t \in Sessions \ {s} :
           pending'[t] = pending[t] /\ pc'[t] = pc[t] /\ prev'[t] = prev[t]
  BY DEF Insert, TypeOK
<1>3. \A t \in Sessions : Visible(t)' = IF t = s THEN Visible(t) \cup {e} ELSE Visible(t)
  BY <1>2 DEF Visible
<1>4. \A t \in Sessions : \A r \in Visible(t) :
         r.sequence \in Nat /\ r.sequence < nextSeq
  BY DEF TypeOK, Entry, Visible, LinkInv, SequenceBound
<1>5. SequenceBound'
  BY <1>1, <1>2, <1>3, <1>4 DEF SequenceBound, TypeOK
<1>6. Linked(Visible(s)', e)
  BY <1>1, <1>2, <1>3, <1>4 DEF LinkInv, TailSeen, Linked
<1>7. PendingLinked'
  <2>1. \A r \in pending[s] : Linked(Visible(s)', r)
    BY <1>3, LinkedMonotone DEF LinkInv, PendingLinked
  <2>2. \A t \in Sessions \ {s} : \A r \in pending[t] : Linked(Visible(t)', r)
    BY <1>3 DEF LinkInv, PendingLinked
  <2> QED
    BY <1>2, <1>6, <2>1, <2>2 DEF PendingLinked, Linked
<1>8. TailSeen'
  BY <1>2, <1>3 DEF LinkInv, TailSeen
<1>9. PrevPersisted'
  BY <1>2 DEF LinkInv, PrevPersisted, Linked
<1> QED
  BY <1>5, <1>7, <1>8, <1>9 DEF LinkInv

(* A commit publishes rows together with everything they are linked to. *)
LEMMA LinkCommit ==
  ASSUME TypeOK, LinkInv, NEW s \in Sessions, Commit(s)
  PROVE  LinkInv'
<1>1. /\ rows' = Visible(s) /\ nextSeq' = nextSeq
      /\ pending'[s] = {} /\ pc'[s] = "idle"
      /\ \A t \in Sessions \ {s} :
           pending'[t] = pending[t] /\ pc'[t] = pc[t] /\ prev'[t] = prev[t]
  BY DEF Commit, Close, TypeOK, Visible
<1>2. \A t \in Sessions \ {s} :
         Visible(t)' = Visible(s) \cup pending[t] /\ Visible(t) \subseteq Visible(t)'
  BY <1>1 DEF Visible
<1>3. Visible(s)' = Visible(s)
  BY <1>1 DEF Visible
<1>4. SequenceBound'
  BY <1>1, <1>2, <1>3 DEF LinkInv, SequenceBound, Visible
<1>5. PendingLinked'
  <2>1. \A t \in Sessions \ {s} : \A r \in pending[t] : Linked(Visible(t)', r)
    BY <1>2, LinkedMonotone DEF LinkInv, PendingLinked
  <2> QED
    BY <1>1, <2>1 DEF PendingLinked, Linked
<1>6. TailSeen'
  BY <1>1, <1>2 DEF LinkInv, TailSeen
<1>7. PrevPersisted'
  <2>1. \A r \in rows : Linked(Visible(s), r)
    BY LinkedMonotone DEF LinkInv, PrevPersisted, Visible
  <2>2. \A r \in pending[s] : Linked(Visible(s), r)
    BY DEF LinkInv, PendingLinked
  <2> QED
    BY <1>1, <2>1, <2>2 DEF PrevPersisted, Linked, Visible
<1> QED
  BY <1>4, <1>5, <1>6, <1>7 DEF LinkInv

LEMMA LinkInvariant ==
  ASSUME TypeOK, LinkInv, [Next]_vars
  PROVE  LinkInv'
<1>1. ASSUME NEW s \in Sessions, NEW c \in Content, InsertDuplicate(s, c)
      PROVE  LinkInv'
  BY <1>1, LinkAfterClose DEF InsertDuplicate
<1>2. ASSUME NEW s \in Sessions, InsertResumes(s)
      PROVE  LinkInv'
  BY <1>2 DEF InsertResumes, LinkInv, SequenceBound, PendingLinked, TailSeen,
              PrevPersisted, Linked, Visible, TypeOK
<1>3. ASSUME NEW s \in Sessions, Rollback(s)
      PROVE  LinkInv'
  BY <1>3, LinkAfterClose DEF Rollback
<1>4. CASE UNCHANGED vars
  BY <1>4 DEF vars, LinkInv, SequenceBound, PendingLinked, TailSeen,
              PrevPersisted, Linked, Visible
<1> QED
  BY <1>1, <1>2, <1>3, <1>4, LinkReadTail, LinkInsert, LinkCommit DEF Next, Step

LEMMA LinkInit ==
  ASSUME Init
  PROVE  TypeOK /\ LinkInv
  BY DEF Init, TypeOK, LinkInv, SequenceBound, PendingLinked, TailSeen,
         PrevPersisted, Linked, Visible, NoHash, Hash

(* The variables of the audit log keep their types, whatever the sessions do. *)
THEOREM AuditTypeCorrect == Spec => []TypeOK
<1>1. Init => TypeOK /\ LinkInv
  BY LinkInit
<1>2. TypeOK /\ LinkInv /\ [Next]_vars => TypeOK' /\ LinkInv'
  BY TypeInvariant, LinkInvariant
<1> QED
  BY <1>1, <1>2, PTL DEF Spec

(* Concurrent append_entry_in_transaction calls may fork the chain, but they *)
(* never leave a committed entry whose prev_hash names no committed entry.   *)
THEOREM NoDanglingPrevHash == Spec => []PrevPersisted
<1>1. Init => TypeOK /\ LinkInv
  BY LinkInit
<1>2. TypeOK /\ LinkInv /\ [Next]_vars => TypeOK' /\ LinkInv'
  BY TypeInvariant, LinkInvariant
<1>3. LinkInv => PrevPersisted
  BY DEF LinkInv
<1> QED
  BY <1>1, <1>2, <1>3, PTL DEF Spec

-----------------------------------------------------------------------------
(* Part 2: writers that do not overlap. *)

(* A serial step is a step of Next, so Part 1 applies to SerialSpec. *)
LEMMA SerialIsNext ==
  ASSUME [SerialNext]_vars
  PROVE  [Next]_vars
  BY DEF SerialNext, Next

(* What verify_chain says of a row depends only on the rows before it. *)
LEMMA EntryOkLocal ==
  ASSUME NEW S, S \subseteq Entry, NEW e \in Entry,
         \A r \in S : r.sequence < e.sequence,
         NEW r \in S, entry_ok(S, r)
  PROVE  entry_ok(S \cup {e}, r)
<1>1. {q \in S \cup {e} : q.sequence < r.sequence} = {q \in S : q.sequence < r.sequence}
  <2>1. e.sequence \in Nat /\ r.sequence \in Nat /\ r.sequence < e.sequence
    BY DEF Entry
  <2> QED
    BY <2>1
<1> QED
  BY <1>1 DEF entry_ok, hash_ok, expected_prev_hash

(* An entry hashed over the tail of S and placed after S verifies. *)
LEMMA EntryOkNew ==
  ASSUME NEW S, S \subseteq Entry, NEW e \in Entry,
         \A r \in S : r.sequence < e.sequence,
         e.prev_hash = get_tail(S),
         e.entry_hash = Append(get_tail(S), e.content),
         e.signature = e.entry_hash
  PROVE  entry_ok(S \cup {e}, e)
<1>1. {q \in S \cup {e} : q.sequence < e.sequence} = S
  BY DEF Entry
<1>2. expected_prev_hash(S \cup {e}, e) = get_tail(S)
  BY <1>1 DEF expected_prev_hash
<1> QED
  BY <1>2 DEF entry_ok, hash_ok, verify_hex_digest, compute_entry_hash

(* Appending one content extends a ledger. *)
LEMMA AppendExtends ==
  ASSUME NEW p \in Seq(Content), NEW q \in Seq(Content), NEW c \in Content,
         Ledger!Extends(p, q)
  PROVE  Ledger!Extends(p, Append(q, c))
<1>1. /\ Len(Append(q, c)) = Len(q) + 1
      /\ \A i \in 1 .. Len(q) : Append(q, c)[i] = q[i]
  OBVIOUS
<1>2. Len(p) \in Nat /\ Len(q) \in Nat /\ Len(p) <= Len(q)
  BY DEF Ledger!Extends
<1>3. SubSeq(Append(q, c), 1, Len(p)) = SubSeq(q, 1, Len(p))
  BY <1>1, <1>2
<1> QED
  BY <1>1, <1>2, <1>3 DEF Ledger!Extends

LEMMA ExtendsReflexive ==
  ASSUME NEW p \in Seq(Content)
  PROVE  Ledger!Extends(p, p)
  BY DEF Ledger!Extends

(* The transaction ends and leaves the committed rows as they are. *)
LEMMA SerialAfterClose ==
  ASSUME TypeOK, LinkInv', SerialInv, NEW s \in Sessions, Close(s), rows' = rows
  PROVE  SerialInv'
<1>1. /\ pending'[s] = {} /\ pc'[s] = "idle"
      /\ \A t \in Sessions \ {s} :
           pending'[t] = pending[t] /\ pc'[t] = pc[t] /\ prev'[t] = prev[t]
  BY DEF Close, TypeOK
<1>2. Visible(s)' = rows /\ \A t \in Sessions \ {s} : Visible(t)' = Visible(t)
  BY <1>1 DEF Visible
<1>3. OneWriter' /\ IdleOwnsNothing'
  BY <1>1 DEF SerialInv, OneWriter, IdleOwnsNothing
<1>4. ViewIntact'
  BY <1>2 DEF SerialInv, ViewIntact, ChainIntact
<1>5. ViewExtendsLog'
  <2>1. get_tail(rows) \in Seq(Content)
    BY TailInSet DEF SerialInv, SequenceBound, Visible, TypeOK, Hash
  <2> QED
    BY <1>2, <2>1, ExtendsReflexive DEF SerialInv, ViewExtendsLog
<1>6. TailFresh'
  BY <1>1, <1>2 DEF SerialInv, TailFresh
<1>7. ChainIntact'
  BY DEF SerialInv, ChainIntact
<1> QED
  BY <1>3, <1>4, <1>5, <1>6, <1>7 DEF SerialInv, LinkInv

(* The one writer reads the tail of the chain it is about to extend. *)
LEMMA SerialReadTail ==
  ASSUME TypeOK, LinkInv', SerialInv, NEW s \in Sessions, ReadTail(s),
         \A t \in Sessions \ {s} : pc[t] = "idle"
  PROVE  SerialInv'
<1>1. /\ rows' = rows /\ pending' = pending
      /\ pc'[s] = "tail_read" /\ prev'[s] = get_tail(Visible(s))
      /\ \A t \in Sessions \ {s} : pc'[t] = "idle"
  BY DEF ReadTail, TypeOK
<1>2. \A t \in Sessions : Visible(t)' = Visible(t)
  BY <1>1 DEF Visible
<1>3. OneWriter' /\ IdleOwnsNothing'
  BY <1>1 DEF SerialInv, OneWriter, IdleOwnsNothing
<1>4. TailFresh'
  BY <1>1, <1>2 DEF TailFresh
<1>5. ViewIntact' /\ ViewExtendsLog' /\ ChainIntact'
  BY <1>1, <1>2 DEF SerialInv, ViewIntact, ViewExtendsLog, ChainIntact
<1> QED
  BY <1>3, <1>4, <1>5 DEF SerialInv, LinkInv

(* The one writer extends its view of the chain; nobody else has moved the  *)
(* tail between its SELECT and its INSERT.                                  *)
LEMMA SerialInsert ==
  ASSUME TypeOK, LinkInv', SerialInv, NEW s \in Sessions, NEW c \in Content,
         NEW u \in Unhashed, Insert(s, c, u), \A t \in Sessions \ {s} : pc[t] = "idle"
  PROVE  SerialInv'
<1> DEFINE e == new_entry(s, c, u)
           V == Visible(s)
<1>1. /\ e \in Entry /\ e.sequence = nextSeq /\ e.prev_hash = prev[s] /\ e.content = c
      /\ e.entry_hash = Append(prev[s], c) /\ e.signature = Append(prev[s], c)
  BY NewEntryType
<1>2. /\ rows' = rows
      /\ pc[s] = "tail_read" /\ pc'[s] \notin {"tail_read", "idle"}
      /\ pending'[s] = pending[s] \cup {e}
      /\ \A t \in Sessions \ {s} : pending'[t] = pending[t] /\ pc'[t] = "idle"
  BY DEF Insert, TypeOK
<1>3. Visible(s)' = V \cup {e} /\ \A t \in Sessions \ {s} : Visible(t)' = Visible(t)
  BY <1>2 DEF Visible
<1>4. V \subseteq Entry /\ \A r \in V : r.sequence < e.sequence
  BY <1>1 DEF TypeOK, Visible, SerialInv, SequenceBound
<1>5. prev[s] = get_tail(V) /\ get_tail(V) \in Seq(Content)
  BY <1>2 DEF SerialInv, TailFresh, TypeOK, Hash
<1>6. ViewIntact'
  <2>1. \A r \in V : entry_ok(V, r)
    BY DEF SerialInv, ViewIntact
  <2>2. \A r \in V : entry_ok(V \cup {e}, r)
    BY <1>1, <1>4, <2>1, EntryOkLocal
  <2>3. entry_ok(V \cup {e}, e)
    BY <1>1, <1>4, <1>5, EntryOkNew
  <2> QED
    BY <1>3, <2>2, <2>3 DEF SerialInv, ViewIntact
<1>7. ViewExtendsLog'
  <2>1. get_tail(V \cup {e}) = Append(get_tail(V), c)
    BY <1>1, <1>4, <1>5, TailOfExtended
  <2>2. get_tail(rows) \in Seq(Content)
    BY TailInSet DEF SerialInv, SequenceBound, Visible, TypeOK, Hash
  <2>3. Ledger!Extends(get_tail(rows), get_tail(V \cup {e}))
    BY <1>5, <2>1, <2>2, AppendExtends DEF SerialInv, ViewExtendsLog
  <2> QED
    BY <1>2, <1>3, <2>3 DEF SerialInv, ViewExtendsLog
<1>8. OneWriter' /\ IdleOwnsNothing' /\ TailFresh'
  BY <1>2, <1>3 DEF SerialInv, OneWriter, IdleOwnsNothing, TailFresh
<1>9. ChainIntact'
  BY <1>2 DEF SerialInv, ChainIntact
<1> QED
  BY <1>6, <1>7, <1>8, <1>9 DEF SerialInv, LinkInv

(* The commit makes the writer's intact view the committed log. *)
LEMMA SerialCommit ==
  ASSUME TypeOK, LinkInv', SerialInv, NEW s \in Sessions, Commit(s),
         \A t \in Sessions \ {s} : pc[t] = "idle"
  PROVE  /\ SerialInv'
         /\ rows' = Visible(s)
<1>1. /\ rows' = Visible(s) /\ pending'[s] = {} /\ pc'[s] = "idle"
      /\ \A t \in Sessions \ {s} : pending'[t] = {} /\ pc'[t] = "idle"
  BY DEF Commit, Close, TypeOK, Visible, SerialInv, IdleOwnsNothing
<1>2. \A t \in Sessions : Visible(t)' = Visible(s) /\ pc'[t] = "idle" /\ pending'[t] = {}
  BY <1>1 DEF Visible
<1>3. OneWriter' /\ IdleOwnsNothing' /\ TailFresh'
  BY <1>2 DEF OneWriter, IdleOwnsNothing, TailFresh
<1>4. ViewIntact' /\ ChainIntact'
  BY <1>1, <1>2 DEF SerialInv, ViewIntact, ChainIntact
<1>5. ViewExtendsLog'
  <2>1. get_tail(Visible(s)) \in Seq(Content)
    BY TailInSet DEF SerialInv, SequenceBound, Visible, TypeOK, Hash
  <2> QED
    BY <1>1, <1>2, <2>1, ExtendsReflexive DEF ViewExtendsLog
<1> QED
  BY <1>1, <1>3, <1>4, <1>5 DEF SerialInv, LinkInv

(* Every serial step keeps SerialInv, and either leaves the committed rows   *)
(* alone or replaces them by the view of the committing session.            *)
LEMMA SerialStep ==
  ASSUME TypeOK, LinkInv, SerialInv, [SerialNext]_vars
  PROVE  /\ SerialInv'
         /\ rows' = rows \/ \E s \in Sessions : rows' = Visible(s)
<1> LinkInv'
  BY SerialIsNext, LinkInvariant
<1>1. CASE UNCHANGED vars
  BY <1>1 DEF vars, SerialInv, SequenceBound, OneWriter, IdleOwnsNothing, ViewIntact,
              ViewExtendsLog, TailFresh, ChainIntact, Visible
<1>2. ASSUME NEW s \in Sessions, \A t \in Sessions \ {s} : pc[t] = "idle", Step(s)
      PROVE  /\ SerialInv'
             /\ rows' = rows \/ \E t \in Sessions : rows' = Visible(t)
  <2>1. CASE ReadTail(s)
    BY <1>2, <2>1, SerialReadTail DEF ReadTail
  <2>2. ASSUME NEW c \in Content, NEW u \in Unhashed, Insert(s, c, u)
        PROVE  SerialInv' /\ rows' = rows
    BY <1>2, <2>2, SerialInsert DEF Insert
  <2>3. ASSUME NEW c \in Content, InsertDuplicate(s, c)
        PROVE  SerialInv' /\ rows' = rows
    BY <2>3, SerialAfterClose DEF InsertDuplicate
  <2>4. CASE InsertResumes(s)
    <3>1. /\ rows' = rows /\ pending' = pending /\ prev' = prev
          /\ \A t \in Sessions : Visible(t)' = Visible(t)
          /\ pc[s] = "waiting" /\ pc'[s] = "open"
          /\ \A t \in Sessions \ {s} : pc'[t] = pc[t]
      BY <2>4 DEF InsertResumes, Visible, TypeOK
    <3>2. OneWriter' /\ IdleOwnsNothing' /\ TailFresh'
      BY <3>1 DEF SerialInv, OneWriter, IdleOwnsNothing, TailFresh
    <3>3. ViewIntact' /\ ViewExtendsLog' /\ ChainIntact'
      BY <3>1 DEF SerialInv, ViewIntact, ViewExtendsLog, ChainIntact
    <3> QED
      BY <3>1, <3>2, <3>3 DEF SerialInv, LinkInv
  <2>5. CASE Commit(s)
    BY <1>2, <2>5, SerialCommit
  <2>6. CASE Rollback(s)
    BY <2>6, SerialAfterClose DEF Rollback
  <2> QED
    BY <1>2, <2>1, <2>2, <2>3, <2>4, <2>5, <2>6 DEF Step
<1> QED
  BY <1>1, <1>2 DEF SerialNext

LEMMA SerialInit ==
  ASSUME Init
  PROVE  TypeOK /\ LinkInv /\ SerialInv
<1>1. get_tail({}) = <<>> /\ Ledger!Extends(<<>>, <<>>)
  BY DEF get_tail, NoHash, Ledger!Extends
<1>2. \A s \in Sessions : Visible(s) = {}
  BY DEF Init, Visible
<1> QED
  BY <1>1, <1>2, LinkInit DEF Init, SerialInv, SequenceBound, OneWriter, IdleOwnsNothing,
     ViewIntact, ViewExtendsLog, TailFresh, ChainIntact

LEMMA SerialInductive == SerialSpec => [](TypeOK /\ LinkInv /\ SerialInv)
<1>1. Init => TypeOK /\ LinkInv /\ SerialInv
  BY SerialInit
<1>2. TypeOK /\ LinkInv /\ SerialInv /\ [SerialNext]_vars
         => TypeOK' /\ LinkInv' /\ SerialInv'
  BY SerialIsNext, TypeInvariant, LinkInvariant, SerialStep
<1> QED
  BY <1>1, <1>2, PTL DEF SerialSpec

(* With writers that do not overlap verify_chain never reports a break: every *)
(* committed entry extends the committed entry before it.                     *)
THEOREM SerialChainIntact == SerialSpec => []ChainIntact
<1>1. SerialInv => ChainIntact
  BY DEF SerialInv
<1> QED
  BY <1>1, SerialInductive, PTL

(* With writers that do not overlap the audit log implements the append-only *)
(* ledger: the published root hash is only ever extended.                    *)
THEOREM SerialImplementsLedger == SerialSpec => ImplementsLedger
<1>1. Init => Ledger!Init
  BY DEF Init, Ledger!Init, get_tail, NoHash
<1>2. TypeOK /\ LinkInv /\ SerialInv /\ TypeOK' /\ LinkInv' /\ SerialInv' /\ [SerialNext]_vars
         => [Ledger!Publish]_(get_tail(rows))
  <2> SUFFICES ASSUME TypeOK, LinkInv, SerialInv, TypeOK', LinkInv', [SerialNext]_vars
               PROVE  Ledger!Publish \/ get_tail(rows)' = get_tail(rows)
    OBVIOUS
  <2>1. CASE rows' = rows
    BY <2>1
  <2>2. ASSUME NEW s \in Sessions, rows' = Visible(s)
        PROVE  Ledger!Publish \/ get_tail(rows)' = get_tail(rows)
    <3>1. get_tail(rows)' = get_tail(Visible(s))
      BY <2>2
    <3>2. get_tail(Visible(s)) \in Seq(Content)
      BY TailInSet DEF SerialInv, SequenceBound, Visible, TypeOK, Hash
    <3>3. Ledger!Extends(get_tail(rows), get_tail(Visible(s)))
      BY DEF SerialInv, ViewExtendsLog
    <3> QED
      BY <3>1, <3>2, <3>3 DEF Ledger!Publish
  <2> QED
    BY <2>1, <2>2, SerialStep
<1> QED
  BY <1>1, <1>2, SerialInductive, PTL DEF SerialSpec, ImplementsLedger, Ledger!Spec

-----------------------------------------------------------------------------
(* Part 3: what verify_chain notices. *)

(* Every step of every session keeps the sequences of the rows distinct: it *)
(* adds no row, or one row with the next value of the identity.             *)
LEMMA UniqueInvariant ==
  ASSUME TypeOK, LinkInv, SequenceUnique, [Next]_vars
  PROVE  SequenceUnique'
<1>1. ASSUME NEW s \in Sessions, Close(s), rows' = rows \/ rows' = rows \cup pending[s]
      PROVE  AllRows' \subseteq AllRows
  <2>1. \A t \in Sessions : pending'[t] \subseteq pending[t]
    BY <1>1 DEF Close, TypeOK
  <2> QED
    BY <1>1, <2>1 DEF AllRows
<1>2. ASSUME NEW s \in Sessions, NEW c \in Content, NEW u \in Unhashed, Insert(s, c, u)
      PROVE  SequenceUnique'
  <2> DEFINE e == new_entry(s, c, u)
  <2>1. e.sequence = nextSeq
    BY NewEntryType
  <2>2. \A q \in AllRows : q.sequence \in Nat /\ q.sequence < nextSeq
    BY DEF TypeOK, Entry, AllRows, Visible, LinkInv, SequenceBound
  <2>3. AllRows' \subseteq AllRows \cup {e}
    <3>1. rows' = rows /\ \A t \in Sessions : pending'[t] \subseteq pending[t] \cup {e}
      BY <1>2 DEF Insert, TypeOK
    <3> HIDE DEF e
    <3> QED
      BY <3>1 DEF AllRows
  <2>4. nextSeq \in Nat
    BY DEF TypeOK
  <2> HIDE DEF e
  <2> QED
    BY <2>1, <2>2, <2>3, <2>4 DEF SequenceUnique
<1>3. ASSUME NEW s \in Sessions, ReadTail(s) \/ InsertResumes(s)
      PROVE  AllRows' = AllRows
  BY <1>3 DEF ReadTail, InsertResumes, AllRows
<1>4. CASE UNCHANGED vars
  BY <1>4 DEF vars, SequenceUnique, AllRows
<1> QED
  BY <1>1, <1>2, <1>3, <1>4 DEF Next, Step, InsertDuplicate, Commit, Rollback, SequenceUnique

(* Of rows with distinct sequences the greatest one is the last. *)
LEMMA LastIs ==
  ASSUME NEW S, S \subseteq Entry, \A q, r \in S : q.sequence = r.sequence => q = r,
         NEW m \in S, \A q \in S : q.sequence <= m.sequence
  PROVE  last(S) = m /\ get_tail(S) = m.entry_hash
<1>1. last(S) \in S /\ \A q \in S : q.sequence <= last(S).sequence
  BY DEF last
<1>2. last(S).sequence \in Nat /\ m.sequence \in Nat
  BY <1>1 DEF Entry
<1>3. last(S) = m
  BY <1>1, <1>2
<1> QED
  BY <1>3 DEF get_tail

(* verify_chain's count and first break, when a row is the first to fail. *)
LEMMA FirstBreak ==
  ASSUME NEW U, U \subseteq Entry, NEW b \in U, ~entry_ok(U, b),
         \A q \in U : ~entry_ok(U, q) => b.sequence <= q.sequence
  PROVE  /\ verify_chain(U).is_valid = FALSE
         /\ verify_chain(U).first_break_sequence = b.sequence
<1> DEFINE failed == {r \in U : ~entry_ok(U, r)}
           first == CHOOSE r \in failed : \A q \in failed : r.sequence <= q.sequence
<1>1. b \in failed /\ \A q \in failed : b.sequence <= q.sequence
  OBVIOUS
<1>2. first \in failed /\ \A q \in failed : first.sequence <= q.sequence
  BY <1>1
<1>3. first.sequence \in Nat /\ b.sequence \in Nat
  BY <1>2 DEF Entry
<1>4. first.sequence = b.sequence
  BY <1>1, <1>2, <1>3
<1>5. failed # {}
  BY <1>1
<1> QED
  BY <1>4, <1>5 DEF verify_chain

(* Overwriting one column of a row leaves its sequence and breaks its hash, *)
(* its link or its signature.                                               *)
LEMMA AlteredFails ==
  ASSUME NEW r \in rows, rows \subseteq Entry, NEW p \in Hash,
         r.prev_hash = p, r.entry_hash = Append(p, r.content), r.signature = r.entry_hash,
         NEW bad \in Altered(r), bad # r
  PROVE  /\ bad \in Entry /\ bad.sequence = r.sequence
         /\ ~(/\ Append(p, bad.content) = bad.entry_hash
              /\ bad.prev_hash = p
              /\ bad.signature = bad.entry_hash)
<1> r \in Entry
  OBVIOUS
<1> USE DEF Hash
<1>1. \A c, d \in Content : Append(p, c) = Append(p, d) => c = d
  <2>1. \A c \in Content : Append(p, c)[Len(p) + 1] = c
    OBVIOUS
  <2> QED
    BY <2>1
<1>2. ASSUME NEW c \in Content, c # r.content, bad = [r EXCEPT !.content = c]
      PROVE  /\ bad \in Entry /\ bad.sequence = r.sequence
             /\ Append(p, bad.content) # bad.entry_hash
  <2>1. bad.content = c /\ bad.entry_hash = r.entry_hash /\ bad.sequence = r.sequence /\ bad \in Entry
    BY <1>2 DEF Entry
  <2>2. r.content \in Content
    BY DEF Entry
  <2> QED
    BY <1>1, <1>2, <2>1, <2>2
<1>3. ASSUME NEW h \in Hash, bad = [r EXCEPT !.prev_hash = h]
      PROVE  bad \in Entry /\ bad.sequence = r.sequence /\ bad.prev_hash # p
  <2>1. bad.prev_hash = h /\ bad.sequence = r.sequence /\ bad \in Entry
    BY <1>3 DEF Entry
  <2>2. h = p => bad = r
    BY <1>3 DEF Entry
  <2> QED
    BY <2>1, <2>2
<1>4. ASSUME NEW c \in Content, bad = [r EXCEPT !.entry_hash = Append(p, c)]
      PROVE  /\ bad \in Entry /\ bad.sequence = r.sequence
             /\ Append(p, bad.content) # bad.entry_hash
  <2>1. Append(p, c) \in Seq(Content)
    OBVIOUS
  <2>2. PICK h \in Seq(Content) : h = Append(p, c)
    BY <2>1
  <2>3. bad = [r EXCEPT !.entry_hash = h]
    BY <1>4, <2>2
  <2>4. bad.entry_hash = h /\ bad.content = r.content /\ bad.sequence = r.sequence /\ bad \in Entry
    BY <2>3 DEF Entry
  <2>5. h = r.entry_hash => bad = r
    BY <2>3 DEF Entry
  <2> QED
    BY <2>4, <2>5
<1>5. ASSUME NEW h \in Hash, bad = [r EXCEPT !.signature = h]
      PROVE  bad \in Entry /\ bad.sequence = r.sequence /\ bad.signature # bad.entry_hash
  <2>1. bad.signature = h /\ bad.entry_hash = r.entry_hash /\ bad.sequence = r.sequence /\ bad \in Entry
    BY <1>5 DEF Entry
  <2>2. h = r.signature => bad = r
    BY <1>5 DEF Entry
  <2> QED
    BY <2>1, <2>2
<1>6. \/ \E c \in Content \ {r.content} : bad = [r EXCEPT !.content = c]
      \/ \E h \in Hash : bad = [r EXCEPT !.prev_hash = h]
      \/ \E c \in Content : bad = [r EXCEPT !.entry_hash = Append(p, c)]
      \/ \E h \in Hash : bad = [r EXCEPT !.signature = h]
  <2>1. {q.entry_hash : q \in rows} \cup {NoHash} \subseteq Hash
    <3>1. \A q \in rows : q.entry_hash \in Hash
      BY DEF Entry
    <3>2. NoHash \in Hash
      BY DEF NoHash
    <3> QED
      BY <3>1, <3>2
  <2>2. {q.signature : q \in rows} \subseteq Hash
    BY DEF Entry
  <2> QED
    BY <2>1, <2>2 DEF Altered, compute_entry_hash
<1> QED
  BY <1>2, <1>3, <1>4, <1>5, <1>6

(* A row with another one changed or gone after it verifies as before. *)
LEMMA SamePrefixSameVerdict ==
  ASSUME NEW S, NEW U, NEW q,
         {x \in S : x.sequence < q.sequence} = {x \in U : x.sequence < q.sequence}
  PROVE  entry_ok(U, q) = entry_ok(S, q)
  BY DEF entry_ok, hash_ok, expected_prev_hash

(* An altered row is the first one verify_chain rejects. *)
LEMMA AlterationNoticed ==
  ASSUME rows \subseteq Entry, \A q, x \in rows : q.sequence = x.sequence => q = x,
         ChainIntact, NEW r \in rows, NEW bad \in Altered(r), bad # r,
         NEW v, v = verify_chain(Replaced(r, bad))
  PROVE  v.is_valid = FALSE /\ v.first_break_sequence = r.sequence
<1> USE DEF Replaced
<1> DEFINE U == (rows \ {r}) \cup {bad}
<1>1. /\ r.prev_hash = expected_prev_hash(rows, r) /\ r.prev_hash \in Hash
      /\ r.entry_hash = Append(r.prev_hash, r.content) /\ r.signature = r.entry_hash
  BY DEF ChainIntact, Entry, entry_ok, hash_ok, verify_hex_digest, compute_entry_hash
<1>2. /\ bad \in Entry /\ bad.sequence = r.sequence
      /\ ~(/\ Append(r.prev_hash, bad.content) = bad.entry_hash
           /\ bad.prev_hash = r.prev_hash
           /\ bad.signature = bad.entry_hash)
  BY <1>1, AlteredFails
<1>3. \A q \in rows : q.sequence \in Nat
  BY DEF Entry
<1>4. {x \in U : x.sequence < r.sequence} = {x \in rows : x.sequence < r.sequence}
  BY <1>2, <1>3
<1>5. expected_prev_hash(U, bad) = r.prev_hash
  BY <1>1, <1>2, <1>4 DEF expected_prev_hash
<1>6. ~entry_ok(U, bad)
  BY <1>2, <1>5 DEF entry_ok, hash_ok, verify_hex_digest, compute_entry_hash
<1>7. ASSUME NEW q \in U, ~entry_ok(U, q)
      PROVE  bad.sequence <= q.sequence
  <2>1. CASE q = bad
    BY <2>1, <1>2, <1>3
  <2>2. CASE q \in rows \ {r} /\ q.sequence < r.sequence
    <3>1. {x \in U : x.sequence < q.sequence} = {x \in rows : x.sequence < q.sequence}
      BY <1>2, <1>3, <2>2
    <3>2. entry_ok(rows, q)
      BY <2>2 DEF ChainIntact
    <3>3. entry_ok(U, q) = entry_ok(rows, q)
      BY <3>1, SamePrefixSameVerdict
    <3> QED
      BY <1>7, <3>2, <3>3
  <2> QED
    BY <1>2, <1>3, <2>1, <2>2
<1>8. U \subseteq Entry /\ bad \in U
  BY <1>2
<1> QED
  BY <1>2, <1>6, <1>7, <1>8, FirstBreak

(* Removing the newest row goes unnoticed. *)
LEMMA LastRemovalUnnoticed ==
  ASSUME rows \subseteq Entry, \A q, x \in rows : q.sequence = x.sequence => q = x,
         ChainIntact, NEW r \in rows, {q \in rows : q.sequence > r.sequence} = {}
  PROVE  verify_chain(rows \ {r}).is_valid = TRUE
<1> DEFINE U == rows \ {r}
<1>1. \A q \in rows : q.sequence \in Nat
  BY DEF Entry
<1>2. ASSUME NEW q \in U
      PROVE  entry_ok(U, q)
  <2>1. q.sequence < r.sequence
    BY <1>1
  <2>2. {x \in U : x.sequence < q.sequence} = {x \in rows : x.sequence < q.sequence}
    BY <1>1, <2>1
  <2>3. entry_ok(rows, q)
    BY DEF ChainIntact
  <2> QED
    BY <2>2, <2>3, SamePrefixSameVerdict
<1>3. {q \in U : ~entry_ok(U, q)} = {}
  BY <1>2
<1> QED
  BY <1>3 DEF verify_chain

(* Removing another row breaks the link of the row after it, and that one   *)
(* only: the walk goes on from the hash stored in each row.                 *)
LEMMA RemovalNoticed ==
  ASSUME rows \subseteq Entry, \A q, x \in rows : q.sequence = x.sequence => q = x,
         ChainIntact, NEW r \in rows, NEW m \in rows, m.sequence > r.sequence,
         \A q \in rows : q.sequence > r.sequence => m.sequence <= q.sequence
  PROVE  /\ verify_chain(rows \ {r}).failed_count = 1
         /\ verify_chain(rows \ {r}).first_break_sequence = m.sequence
<1> DEFINE U == rows \ {r}
           Before(S, q) == {x \in S : x.sequence < q.sequence}
<1>1. \A q \in rows : /\ q.sequence \in Nat /\ q.prev_hash \in Seq(Content)
                      /\ q.content \in Content
  BY DEF Entry, Hash
<1>2. \A q \in rows : /\ q.prev_hash = get_tail(Before(rows, q))
                      /\ q.entry_hash = Append(q.prev_hash, q.content)
  BY DEF ChainIntact, entry_ok, hash_ok, expected_prev_hash, compute_entry_hash
<1>3. m \in U /\ ~entry_ok(U, m)
  <2>1. get_tail(Before(rows, m)) = r.entry_hash
    <3>1. r \in Before(rows, m) /\ \A q \in Before(rows, m) : q.sequence <= r.sequence
      BY <1>1
    <3>2. /\ Before(rows, m) \subseteq Entry
          /\ \A q, x \in Before(rows, m) : q.sequence = x.sequence => q = x
      OBVIOUS
    <3> HIDE DEF Before
    <3> QED
      BY <3>1, <3>2, LastIs
  <2>2. Before(U, m) = Before(rows, r)
    BY <1>1
  <2>3. m.prev_hash = Append(r.prev_hash, r.content) /\ get_tail(Before(U, m)) = r.prev_hash
    BY <1>2, <2>1, <2>2
  <2>4. Append(r.prev_hash, r.content) # r.prev_hash
    <3>1. Len(Append(r.prev_hash, r.content)) = Len(r.prev_hash) + 1 /\ Len(r.prev_hash) \in Nat
      BY <1>1
    <3> QED
      BY <3>1
  <2>5. m # r
    BY <1>1
  <2> QED
    BY <2>3, <2>4, <2>5 DEF entry_ok, hash_ok, expected_prev_hash
<1>4. ASSUME NEW q \in U, q # m
      PROVE  entry_ok(U, q)
  <2>1. entry_ok(rows, q)
    BY DEF ChainIntact
  <2>2. CASE q.sequence < r.sequence
    <3>1. Before(U, q) = Before(rows, q)
      BY <1>1, <2>2
    <3> QED
      BY <2>1, <3>1, SamePrefixSameVerdict
  <2>3. CASE q.sequence > m.sequence
    <3>1. m \in Before(U, q) /\ Before(U, q) \subseteq Before(rows, q) /\ Before(rows, q) \subseteq Entry
      BY <1>3, <2>3
    <3>2. \A x, y \in Before(rows, q) : x.sequence = y.sequence => x = y
      OBVIOUS
    <3>3. \A x \in Before(rows, q) : x.sequence < q.sequence
      OBVIOUS
    <3>4. q.sequence \in Nat /\ Before(rows, q) # {}
      BY <1>1, <3>1
    <3>5. PICK y \in Before(rows, q) : \A x \in Before(rows, q) : x.sequence <= y.sequence
      <4> HIDE DEF Before
      <4> QED
        BY <3>1, <3>3, <3>4, LastInSet
    <3>6. y # r
      BY <1>1, <3>1, <3>5
    <3>7. y \in Before(U, q)
      BY <3>5, <3>6
    <3>8. get_tail(Before(U, q)) = y.entry_hash /\ get_tail(Before(rows, q)) = y.entry_hash
      <4> HIDE DEF Before
      <4> QED
        BY <3>1, <3>2, <3>5, <3>7, LastIs
    <3> QED
      BY <2>1, <3>8 DEF entry_ok, hash_ok, expected_prev_hash
  <2>4. q.sequence # r.sequence /\ q.sequence # m.sequence
    BY <1>4
  <2> QED
    BY <1>1, <2>2, <2>3, <2>4
<1>5. {q \in U : ~entry_ok(U, q)} = {m}
  BY <1>3, <1>4
<1>6. Cardinality({m}) = 1
  BY FS_Singleton
<1>7. verify_chain(U).failed_count = 1
  BY <1>5, <1>6 DEF verify_chain
<1>8. verify_chain(U).first_break_sequence = m.sequence
  BY <1>1, <1>3, <1>4, FirstBreak
<1> QED
  BY <1>7, <1>8

(* A digest is never the one it extends. *)
LEMMA AppendGrows ==
  ASSUME NEW h \in Hash, NEW c \in Content
  PROVE  Append(h, c) # h
<1>1. Len(Append(h, c)) = Len(h) + 1 /\ Len(h) \in Nat
  BY DEF Hash
<1> QED
  BY <1>1

(* What an overwrite of a column outside the hash leaves as it was. *)
LEMMA OutsideHashKeeps ==
  ASSUME rows \subseteq Entry, NEW r \in rows, nextSeq \in Nat,
         \A q, x \in rows : q.sequence = x.sequence => q = x,
         NEW bad \in OutsideHash(r)
  PROVE  /\ bad \in Entry
         /\ bad.content = r.content /\ bad.prev_hash = r.prev_hash
         /\ bad.entry_hash = r.entry_hash /\ bad.signature = r.signature
         /\ \A q \in rows \ {r} : q.sequence # bad.sequence
<1>1. ASSUME NEW u \in Unhashed, bad = [r EXCEPT !.unhashed = u]
      PROVE  /\ bad \in Entry /\ bad.sequence = r.sequence
             /\ bad.content = r.content /\ bad.prev_hash = r.prev_hash
             /\ bad.entry_hash = r.entry_hash /\ bad.signature = r.signature
  BY <1>1 DEF Entry
<1>2. ASSUME NEW n \in Nat, bad = [r EXCEPT !.sequence = n]
      PROVE  /\ bad \in Entry /\ bad.sequence = n
             /\ bad.content = r.content /\ bad.prev_hash = r.prev_hash
             /\ bad.entry_hash = r.entry_hash /\ bad.signature = r.signature
  BY <1>2 DEF Entry
<1>3. CASE \E u \in Unhashed : bad = [r EXCEPT !.unhashed = u]
  BY <1>1, <1>3
<1>4. CASE \E n \in (0 .. nextSeq) \ {q.sequence : q \in rows} : bad = [r EXCEPT !.sequence = n]
  <2>1. PICK n \in Nat : n \notin {q.sequence : q \in rows} /\ bad = [r EXCEPT !.sequence = n]
    BY <1>4
  <2> QED
    BY <2>1, <1>2
<1> QED
  BY <1>3, <1>4 DEF OutsideHash

(* A row that differs outside the hash and comes where it came verifies, and *)
(* so do all the others: each finds the same hash stored in the row before.  *)
LEMMA InPlaceUnnoticed ==
  ASSUME rows \subseteq Entry, \A q, x \in rows : q.sequence = x.sequence => q = x,
         ChainIntact, NEW r \in rows, nextSeq \in Nat,
         NEW bad \in OutsideHash(r), KeepsPlace(r, bad)
  PROVE  verify_chain(Replaced(r, bad)).is_valid = TRUE
<1> DEFINE U == (rows \ {r}) \cup {bad}
           Before(S, q) == {x \in S : x.sequence < q.sequence}
<1>1. /\ bad \in Entry
      /\ bad.content = r.content /\ bad.prev_hash = r.prev_hash
      /\ bad.entry_hash = r.entry_hash /\ bad.signature = r.signature
      /\ \A q \in rows \ {r} : q.sequence # bad.sequence
  BY OutsideHashKeeps
<1>2. /\ \A q \in rows : q.sequence \in Nat
      /\ bad.sequence \in Nat
      /\ \A q \in rows \ {r} : q.sequence # r.sequence
      /\ \A q \in rows \ {r} : q.sequence < r.sequence <=> q.sequence < bad.sequence
  BY <1>1 DEF Entry, KeepsPlace
<1>3. U \subseteq Entry /\ \A q, x \in U : q.sequence = x.sequence => q = x
  BY <1>1, <1>2
<1>4. \A q \in rows : entry_ok(rows, q)
  BY DEF ChainIntact
<1>5. entry_ok(U, bad)
  <2>1. Before(U, bad) = Before(rows, r)
    BY <1>2
  <2>2. expected_prev_hash(U, bad) = expected_prev_hash(rows, r)
    BY <2>1 DEF expected_prev_hash
  <2>3. entry_ok(rows, r)
    BY <1>4
  <2> QED
    BY <1>1, <2>2, <2>3 DEF entry_ok, hash_ok
<1>6. ASSUME NEW q \in rows \ {r}
      PROVE  entry_ok(U, q)
  <2>1. entry_ok(rows, q)
    BY <1>4
  <2>2. CASE q.sequence < r.sequence
    <3>1. Before(U, q) = Before(rows, q)
      BY <1>2, <2>2
    <3> QED
      BY <2>1, <3>1, SamePrefixSameVerdict
  <2>3. CASE r.sequence < q.sequence
    <3>1. bad.sequence < q.sequence
      BY <1>1, <1>2, <2>3
    <3>2. r \in Before(rows, q) /\ bad \in Before(U, q)
      BY <2>3, <3>1
    <3>3. /\ Before(rows, q) \subseteq Entry /\ Before(U, q) \subseteq Entry
          /\ \A x, y \in Before(rows, q) : x.sequence = y.sequence => x = y
          /\ \A x, y \in Before(U, q) : x.sequence = y.sequence => x = y
      BY <1>3
    <3>4. PICK y \in Before(rows, q) : \A x \in Before(rows, q) : x.sequence <= y.sequence
      <4>1. q.sequence \in Nat /\ Before(rows, q) # {}
        BY <1>2, <3>2
      <4>2. \A x \in Before(rows, q) : x.sequence < q.sequence
        OBVIOUS
      <4> HIDE DEF Before
      <4> QED
        BY <3>3, <4>1, <4>2, LastInSet
    <3>5. get_tail(Before(rows, q)) = y.entry_hash
      <4> HIDE DEF Before
      <4> QED
        BY <3>3, <3>4, LastIs
    <3>6. get_tail(Before(U, q)) = y.entry_hash
      <4>1. CASE y = r
        <5>1. \A x \in Before(U, q) : x.sequence <= bad.sequence
          BY <1>2, <3>4, <4>1
        <5>2. get_tail(Before(U, q)) = bad.entry_hash
          <6> HIDE DEF Before
          <6> QED
            BY <3>2, <3>3, <5>1, LastIs
        <5> QED
          BY <1>1, <4>1, <5>2
      <4>2. CASE y # r
        <5>1. y \in rows \ {r} /\ r.sequence <= y.sequence
          BY <3>2, <3>4, <4>2
        <5>2. bad.sequence < y.sequence
          BY <1>1, <1>2, <5>1
        <5>3. y \in Before(U, q) /\ \A x \in Before(U, q) : x.sequence <= y.sequence
          BY <1>2, <3>4, <5>1, <5>2
        <5> HIDE DEF Before
        <5> QED
          BY <3>3, <5>3, LastIs
      <4> QED
        BY <4>1, <4>2
    <3> QED
      BY <2>1, <3>5, <3>6 DEF entry_ok, hash_ok, expected_prev_hash
  <2> QED
    BY <1>2, <2>2, <2>3
<1>7. {q \in U : ~entry_ok(U, q)} = {}
  BY <1>5, <1>6
<1> QED
  BY <1>7 DEF verify_chain, Replaced

(* A row moved past another one is noticed: one of the rows that now meet    *)
(* does not extend the other.                                                *)
LEMMA MoveNoticed ==
  ASSUME rows \subseteq Entry, \A q, x \in rows : q.sequence = x.sequence => q = x,
         ChainIntact, NEW r \in rows, nextSeq \in Nat,
         NEW bad \in OutsideHash(r), ~KeepsPlace(r, bad)
  PROVE  verify_chain(Replaced(r, bad)).is_valid = FALSE
<1> DEFINE U == (rows \ {r}) \cup {bad}
           Before(S, q) == {x \in S : x.sequence < q.sequence}
           Above(n) == {x \in rows \ {r} : n < x.sequence}
<1>1. /\ bad \in Entry
      /\ bad.content = r.content /\ bad.prev_hash = r.prev_hash
      /\ bad.entry_hash = r.entry_hash
      /\ \A q \in rows \ {r} : q.sequence # bad.sequence
  BY OutsideHashKeeps
<1>2. /\ \A q \in rows : q.sequence \in Nat
      /\ bad.sequence \in Nat
      /\ \A q \in rows \ {r} : q.sequence # r.sequence
  BY <1>1 DEF Entry
<1>3. U \subseteq Entry /\ \A q, x \in U : q.sequence = x.sequence => q = x
  BY <1>1, <1>2
<1>4. \A q \in rows : /\ q.prev_hash = get_tail(Before(rows, q))
                      /\ q.entry_hash = Append(q.prev_hash, q.content)
  BY DEF ChainIntact, entry_ok, hash_ok, expected_prev_hash, compute_entry_hash
<1>5. Append(r.prev_hash, r.content) # r.prev_hash
  BY AppendGrows DEF Entry
<1>6. ASSUME NEW n \in Nat, Above(n) # {}
      PROVE  \E p \in Above(n) : \A x \in Above(n) : p.sequence <= x.sequence
  <2>1. {x.sequence : x \in Above(n)} \subseteq Nat /\ {x.sequence : x \in Above(n)} # {}
    BY <1>2, <1>6
  <2>2. PICK k \in {x.sequence : x \in Above(n)} : \A j \in {x.sequence : x \in Above(n)} : k <= j
    BY <2>1, LeastNatural
  <2> QED
    BY <2>2
<1>7. \E q \in U : ~entry_ok(U, q)
  <2> SUFFICES ASSUME \A q \in U : entry_ok(U, q)
               PROVE  FALSE
    OBVIOUS
  <2>1. \A q \in U : q.prev_hash = get_tail(Before(U, q))
    BY DEF entry_ok, hash_ok, expected_prev_hash
  <2>2. ASSUME NEW z \in rows \ {r}, r.sequence < z.sequence, z.sequence < bad.sequence
        PROVE  FALSE
    <3>1. PICK p \in Above(r.sequence) : \A x \in Above(r.sequence) : p.sequence <= x.sequence
      BY <1>2, <1>6, <2>2
    <3>2. p \in rows \ {r} /\ r.sequence < p.sequence /\ p.sequence < bad.sequence
      BY <1>2, <2>2, <3>1
    <3>3. Before(U, p) = Before(rows, r)
      BY <1>2, <3>1, <3>2
    <3>4. get_tail(Before(rows, p)) = r.entry_hash
      <4>1. r \in Before(rows, p) /\ \A x \in Before(rows, p) : x.sequence <= r.sequence
        BY <1>2, <3>1, <3>2
      <4>2. /\ Before(rows, p) \subseteq Entry
            /\ \A x, y \in Before(rows, p) : x.sequence = y.sequence => x = y
        OBVIOUS
      <4> HIDE DEF Before
      <4> QED
        BY <4>1, <4>2, LastIs
    <3>5. p.prev_hash = r.prev_hash
      BY <1>4, <2>1, <3>2, <3>3
    <3>6. p.prev_hash = r.entry_hash
      BY <1>4, <3>2, <3>4
    <3> QED
      BY <1>4, <1>5, <3>5, <3>6
  <2>3. ASSUME NEW z \in rows \ {r}, z.sequence < r.sequence, bad.sequence < z.sequence
        PROVE  FALSE
    <3>1. PICK p \in Above(bad.sequence) : \A x \in Above(bad.sequence) : p.sequence <= x.sequence
      BY <1>2, <1>6, <2>3
    <3>2. p \in rows \ {r} /\ bad.sequence < p.sequence /\ p.sequence < r.sequence
      BY <1>2, <2>3, <3>1
    <3>3. Before(U, bad) = Before(rows, p)
      BY <1>1, <1>2, <3>1, <3>2
    <3>4. get_tail(Before(U, p)) = bad.entry_hash
      <4>1. bad \in Before(U, p) /\ \A x \in Before(U, p) : x.sequence <= bad.sequence
        BY <1>1, <1>2, <3>1, <3>2
      <4>2. /\ Before(U, p) \subseteq Entry
            /\ \A x, y \in Before(U, p) : x.sequence = y.sequence => x = y
        BY <1>3
      <4> HIDE DEF Before, U
      <4> QED
        BY <4>1, <4>2, LastIs
    <3>5. p.prev_hash = r.prev_hash
      BY <1>1, <1>4, <2>1, <3>2, <3>3
    <3>6. p.prev_hash = r.entry_hash
      BY <1>1, <2>1, <3>2, <3>4
    <3> QED
      BY <1>4, <1>5, <3>5, <3>6
  <2>4. \E z \in rows \ {r} : ~(z.sequence < r.sequence <=> z.sequence < bad.sequence)
    BY DEF KeepsPlace
  <2> QED
    BY <1>1, <1>2, <2>2, <2>3, <2>4
<1>8. {q \in U : ~entry_ok(U, q)} # {}
  BY <1>7
<1> QED
  BY <1>8 DEF verify_chain, Replaced

(* verify_chain's verdict, for rows with distinct sequences. *)
LEMMA VerdictOfUnique ==
  ASSUME rows \subseteq Entry, \A q, x \in rows : q.sequence = x.sequence => q = x,
         nextSeq \in Nat
  PROVE  VerifyChainVerdict
<1> SUFFICES ASSUME ChainIntact, NEW r \in rows
             PROVE  /\ \A bad \in Altered(r) \ {r} :
                         LET v == verify_chain(Replaced(r, bad))
                         IN  ~v.is_valid /\ v.first_break_sequence = r.sequence
                    /\ \A bad \in OutsideHash(r) :
                         verify_chain(Replaced(r, bad)).is_valid <=> KeepsPlace(r, bad)
                    /\ LET v    == verify_chain(rows \ {r})
                           next == {q \in rows : q.sequence > r.sequence}
                       IN  IF next = {} THEN v.is_valid
                           ELSE /\ v.failed_count = 1
                                /\ v.first_break_sequence \in {q.sequence : q \in next}
                                /\ \A q \in next : v.first_break_sequence <= q.sequence
  BY DEF VerifyChainVerdict
<1> DEFINE next == {q \in rows : q.sequence > r.sequence}
           v == verify_chain(rows \ {r})
<1>1. \A bad \in Altered(r) \ {r} :
        LET w == verify_chain(Replaced(r, bad))
        IN  ~w.is_valid /\ w.first_break_sequence = r.sequence
  BY AlterationNoticed
<1>2. \A bad \in OutsideHash(r) :
        verify_chain(Replaced(r, bad)).is_valid <=> KeepsPlace(r, bad)
  BY InPlaceUnnoticed, MoveNoticed
<1>3. next = {} => v.is_valid
  BY LastRemovalUnnoticed
<1>4. ASSUME next # {}
      PROVE  /\ v.failed_count = 1
             /\ v.first_break_sequence \in {q.sequence : q \in next}
             /\ \A q \in next : v.first_break_sequence <= q.sequence
  <2>1. {q.sequence : q \in next} \subseteq Nat /\ {q.sequence : q \in next} # {}
    BY <1>4 DEF Entry
  <2>2. PICK m \in next : \A q \in next : m.sequence <= q.sequence
    <3>1. PICK k \in {q.sequence : q \in next} : \A j \in {q.sequence : q \in next} : k <= j
      BY <2>1, LeastNatural
    <3> QED
      BY <3>1
  <2>3. v.failed_count = 1 /\ v.first_break_sequence = m.sequence
    BY <2>2, RemovalNoticed
  <2> HIDE DEF v
  <2> QED
    BY <2>2, <2>3
<1>5. IF next = {} THEN v.is_valid
      ELSE /\ v.failed_count = 1
           /\ v.first_break_sequence \in {q.sequence : q \in next}
           /\ \A q \in next : v.first_break_sequence <= q.sequence
  <2> HIDE DEF v
  <2> QED
    BY <1>3, <1>4
<1> QED
  BY <1>1, <1>2, <1>5

(* Whatever the interleaving of the sessions that wrote the log: as long as *)
(* it is an intact chain, verify_chain reports an overwritten hashed column, *)
(* link, hash or signature at exactly the row it is in; it does not report   *)
(* an overwritten id, tenant_id, signing_key_id or created_at, nor another   *)
(* sequence that leaves the row where it comes, but any that moves it past   *)
(* another row; and it reports a removed row at the row after it only.       *)
THEOREM VerdictIsExact == Spec => []VerifyChainVerdict
<1>1. Init => TypeOK /\ LinkInv /\ SequenceUnique /\ rows = {}
  BY LinkInit DEF Init, SequenceUnique, AllRows
<1>2. TypeOK /\ LinkInv /\ SequenceUnique /\ [Next]_vars => TypeOK' /\ LinkInv' /\ SequenceUnique'
  BY TypeInvariant, LinkInvariant, UniqueInvariant
<1>3. TypeOK /\ SequenceUnique => VerifyChainVerdict
  <2> SUFFICES ASSUME TypeOK, SequenceUnique
               PROVE  \A q, x \in rows : q.sequence = x.sequence => q = x
    BY VerdictOfUnique DEF TypeOK
  <2> QED
    BY DEF SequenceUnique, AllRows
<1> QED
  BY <1>1, <1>2, <1>3, PTL DEF Spec

=============================================================================
