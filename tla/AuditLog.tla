------------------------------ MODULE AuditLog ------------------------------
(***************************************************************************)
(* The hash-chained audit log (app/services/audit_service.py) as it is     *)
(* written by concurrent request handlers.  Every handler owns one         *)
(* database session, that is one READ COMMITTED transaction: it appends    *)
(* any number of entries (append_entry_in_transaction) and then commits or *)
(* rolls back.  An append is two database steps with other requests in     *)
(* between: the SELECT of the tail, and the INSERT that takes the next     *)
(* value of the identity column `sequence'.                                *)
(***************************************************************************)
EXTENDS Naturals, Sequences, FiniteSets

CONSTANTS
    Sessions,       \* database sessions, one per request in flight
    Content,        \* the hashed fields of an entry other than prev_hash
    Unhashed,       \* the columns the hash leaves out: id, tenant_id,
                    \* signing_key_id and created_at
    MaxSeq          \* bound: the last value the identity column hands out

ASSUME MaxSeqAssumption == MaxSeq \in Nat

VARIABLES
    rows,           \* committed rows of audit_log_entries
    nextSeq,        \* next value of the identity; never rolled back
    pc,             \* per session: "idle", "open", "tail_read" or "waiting"
    prev,           \* per session: local prev_hash of the append under way
    pending         \* per session: rows inserted and not yet committed

vars == <<rows, nextSeq, pc, prev, pending>>

-----------------------------------------------------------------------------
(* SHA-256 over the canonical payload is taken as injective: a digest is   *)
(* the sequence of contents it commits to.  The empty sequence stands for  *)
(* the NULL prev_hash of the first entry.                                  *)

Hash == Seq(Content)

NoHash == <<>>

Nests_payload(prev_hash, c) == <<prev_hash, c>>

compute_entry_hash(prev_hash, c) == Append(prev_hash, c)

\* ECDSA with the one signing key of the deployment: a signature is good for
\* exactly the digest it was made from.
sign_hex_digest(digest) == digest

verify_hex_digest(digest, signature) == signature = digest

Entry == [sequence   : Nat,
          content    : Content,
          unhashed   : Unhashed,
          prev_hash  : Hash,
          entry_hash : Hash,
          signature  : Hash]

-----------------------------------------------------------------------------
(* _get_tail: ORDER BY sequence DESC LIMIT 1 over what the session sees,   *)
(* its own uncommitted rows and everyone's committed ones.                 *)

Visible(s) == rows \cup pending[s]

last(S) == CHOOSE r \in S : \A q \in S : q.sequence <= r.sequence

get_tail(S) == IF S = {} THEN NoHash ELSE last(S).entry_hash

-----------------------------------------------------------------------------
(* verify_chain: walk the rows in sequence order.  The hash each row is    *)
(* expected to extend is the one STORED in the row before it.              *)

expected_prev_hash(S, r) == get_tail({q \in S : q.sequence < r.sequence})

Compares_hash_only(S, r) ==
    compute_entry_hash(expected_prev_hash(S, r), r.content) = r.entry_hash

hash_ok(S, r) ==
    /\ compute_entry_hash(expected_prev_hash(S, r), r.content) = r.entry_hash
    /\ r.prev_hash = expected_prev_hash(S, r)

entry_ok(S, r) == hash_ok(S, r) /\ verify_hex_digest(r.entry_hash, r.signature)

verify_chain(S) ==
    LET failed == {r \in S : ~entry_ok(S, r)}
        first  == CHOOSE r \in failed : \A q \in failed : r.sequence <= q.sequence
    IN  [verified_count       |-> Cardinality(S \ failed),
         failed_count         |-> Cardinality(failed),
         is_valid             |-> failed = {},
         first_break_sequence |-> IF failed = {} THEN 0 ELSE first.sequence,
         root_hash            |-> get_tail(S)]

-----------------------------------------------------------------------------
Init ==
    /\ rows = {}
    /\ nextSeq = 1
    /\ pc = [s \in Sessions |-> "idle"]
    /\ prev = [s \in Sessions |-> NoHash]
    /\ pending = [s \in Sessions |-> {}]

\* End of a transaction: the session goes back to the pool with no rows of its own.
Close(s) ==
    /\ pc' = [pc EXCEPT ![s] = "idle"]
    /\ prev' = [prev EXCEPT ![s] = NoHash]
    /\ pending' = [pending EXCEPT ![s] = {}]

\* append_entry_in_transaction up to the await of _get_tail; opens the
\* transaction when the session has none.
ReadTail(s) ==
    /\ pc[s] \in {"idle", "open"}
    /\ prev' = [prev EXCEPT ![s] = get_tail(Visible(s))]
    /\ pc' = [pc EXCEPT ![s] = "tail_read"]
    /\ UNCHANGED <<rows, nextSeq, pending>>

Leaves_prev_null(s, c, u) ==
    LET h == compute_entry_hash(prev[s], c)
    IN  [sequence |-> nextSeq, content |-> c, unhashed |-> u, prev_hash |-> NoHash,
         entry_hash |-> h, signature |-> sign_hex_digest(h)]

Hashes_content_only(s, c, u) ==
    LET h == compute_entry_hash(NoHash, c)
    IN  [sequence |-> nextSeq, content |-> c, unhashed |-> u, prev_hash |-> prev[s],
         entry_hash |-> h, signature |-> sign_hex_digest(h)]

new_entry(s, c, u) ==
    LET h == compute_entry_hash(prev[s], c)
    IN  [sequence |-> nextSeq, content |-> c, unhashed |-> u, prev_hash |-> prev[s],
         entry_hash |-> h, signature |-> sign_hex_digest(h)]

Holds_hash(S, h) == \E r \in S : r.entry_hash = h

\* What session t has in the table: an INSERT that waits on the unique index is
\* the last row of its transaction and is not in yet.
Inserted(t) == {r \in pending[t] : pc[t] = "waiting" => r # last(pending[t])}

Conflict(s, h) == \E t \in Sessions \ {s} : Holds_hash(Inserted(t), h)

\* The rest of the append: the entry is hashed and signed over the tail read
\* earlier, INSERTed (flush) and given the next sequence value.  When another
\* open transaction has inserted the same entry_hash the INSERT waits for that
\* transaction to end, its sequence value already taken.
Insert(s, c, u) ==
    LET e == new_entry(s, c, u) IN
    /\ pc[s] = "tail_read"
    /\ nextSeq <= MaxSeq
    /\ ~Holds_hash(Visible(s), e.entry_hash)
    /\ pending' = [pending EXCEPT ![s] = @ \cup {e}]
    /\ pc' = [pc EXCEPT ![s] = IF Conflict(s, e.entry_hash) THEN "waiting" ELSE "open"]
    /\ prev' = [prev EXCEPT ![s] = NoHash]
    /\ nextSeq' = nextSeq + 1
    /\ UNCHANGED rows

\* The unique index on entry_hash rejects the INSERT: IntegrityError, the
\* session rolls back; the identity value is spent all the same.
InsertDuplicate(s, c) ==
    /\ pc[s] = "tail_read"
    /\ nextSeq <= MaxSeq
    /\ Holds_hash(Visible(s), compute_entry_hash(prev[s], c))
    /\ nextSeq' = nextSeq + 1
    /\ Close(s)
    /\ UNCHANGED rows

\* The transaction a waiting INSERT waited for has ended.  Had it committed,
\* the row is a duplicate and only Rollback is left.
InsertResumes(s) ==
    /\ pc[s] = "waiting"
    /\ ~Conflict(s, last(pending[s]).entry_hash)
    /\ ~Holds_hash(rows, last(pending[s]).entry_hash)
    /\ pc' = [pc EXCEPT ![s] = "open"]
    /\ UNCHANGED <<rows, nextSeq, prev, pending>>

Commits_last_row(s) ==
    /\ pc[s] = "open"
    /\ rows' = rows \cup {last(pending[s])}
    /\ Close(s)
    /\ UNCHANGED nextSeq

\* db.commit() by append_entry or by the handler that called
\* append_entry_in_transaction: all the rows of the transaction at once.
Commit(s) ==
    /\ pc[s] = "open"
    /\ rows' = rows \cup pending[s]
    /\ Close(s)
    /\ UNCHANGED nextSeq

\* The handler raises after it opened the transaction, the connection is
\* lost, a waiting INSERT proves a duplicate, or PostgreSQL picks the
\* transaction as a deadlock victim.
Rollback(s) ==
    /\ pc[s] # "idle"
    /\ Close(s)
    /\ UNCHANGED <<rows, nextSeq>>

Step(s) ==
    \/ ReadTail(s)
    \/ \E c \in Content : \/ \E u \in Unhashed : Insert(s, c, u)
                          \/ InsertDuplicate(s, c)
    \/ InsertResumes(s)
    \/ Commit(s)
    \/ Rollback(s)

Next == \E s \in Sessions : Step(s)

Spec == Init /\ [][Next]_vars

\* The same handlers when requests that write audit entries never overlap.
SerialNext ==
    \E s \in Sessions : /\ \A t \in Sessions \ {s} : pc[t] = "idle"
                        /\ Step(s)

SerialSpec == Init /\ [][SerialNext]_vars

-----------------------------------------------------------------------------
(* Type invariant. *)
TypeOK ==
    /\ rows \subseteq Entry
    /\ nextSeq \in Nat \ {0}
    /\ pc \in [Sessions -> {"idle", "tail_read", "waiting", "open"}]
    /\ prev \in [Sessions -> Hash]
    /\ pending \in [Sessions -> SUBSET Entry]

\* A row's prev_hash is NULL or the entry_hash of an older row of S.
Linked(S, r) ==
    \/ r.prev_hash = NoHash
    \/ \E q \in S : q.entry_hash = r.prev_hash /\ q.sequence < r.sequence

(* Whatever the interleaving of appends, commits and rollbacks, no committed *)
(* entry points at a row that is not there: its prev_hash is the hash of a   *)
(* committed entry with a smaller sequence.  (A tail that its transaction    *)
(* rolled back is never extended by another session.)                        *)
PrevPersisted == \A r \in rows : Linked(rows, r)

\* Inductive strengthening of PrevPersisted: the identity is ahead of every row,
\* the rows a session is about to commit are linked to rows it can see, and so
\* is the tail it holds between its SELECT and its INSERT.
SequenceBound ==
    \A s \in Sessions : \A r \in Visible(s) : r.sequence < nextSeq

PendingLinked ==
    \A s \in Sessions : \A r \in pending[s] : Linked(Visible(s), r)

TailSeen ==
    \A s \in Sessions :
      pc[s] = "tail_read" =>
        prev[s] = NoHash \/ \E q \in Visible(s) : q.entry_hash = prev[s]

LinkInv == SequenceBound /\ PendingLinked /\ TailSeen /\ PrevPersisted

(* verify_chain finds no break in a log nobody tampered with: every entry    *)
(* extends the row before it in sequence order.                              *)
ChainIntact == \A r \in rows : entry_ok(rows, r)

\* The committed log as a ledger: the root hash get_chain_summary publishes.
Ledger == INSTANCE AuditLedger WITH ledger <- get_tail(rows)

\* Inductive strengthening for serial writers: one transaction at a time, what
\* its session sees is an intact chain that extends the committed one, and the
\* tail it holds is still the tail.
OneWriter ==
    \A s, t \in Sessions : s # t => pc[s] = "idle" \/ pc[t] = "idle"

IdleOwnsNothing ==
    \A s \in Sessions : pc[s] = "idle" => pending[s] = {}

ViewIntact ==
    \A s \in Sessions : \A r \in Visible(s) : entry_ok(Visible(s), r)

ViewExtendsLog ==
    \A s \in Sessions : Ledger!Extends(get_tail(rows), get_tail(Visible(s)))

TailFresh ==
    \A s \in Sessions : pc[s] = "tail_read" => prev[s] = get_tail(Visible(s))

SerialInv ==
    /\ SequenceBound /\ OneWriter /\ IdleOwnsNothing
    /\ ViewIntact /\ ViewExtendsLog /\ TailFresh /\ ChainIntact

\* The table with row r overwritten.
Replaced(r, bad) == (rows \ {r}) \cup {bad}

\* Row r with a hashed column, its link, its hash or its signature overwritten.
Altered(r) ==
    {[r EXCEPT !.content = c] : c \in Content \ {r.content}}
    \cup {[r EXCEPT !.prev_hash = h] : h \in {q.entry_hash : q \in rows} \cup {NoHash}}
    \cup {[r EXCEPT !.entry_hash = compute_entry_hash(r.prev_hash, c)] : c \in Content}
    \cup {[r EXCEPT !.signature = q.signature] : q \in rows}

\* Row r with a column overwritten that goes into no hash: one of the Unhashed
\* ones, or the sequence, which the unique constraint keeps off the other rows.
OutsideHash(r) ==
    {[r EXCEPT !.unhashed = u] : u \in Unhashed}
    \cup {[r EXCEPT !.sequence = n] : n \in (0 .. nextSeq) \ {q.sequence : q \in rows}}

\* The overwritten row still comes after the rows it came after.
KeepsPlace(r, bad) ==
    \A q \in rows \ {r} : q.sequence < r.sequence <=> q.sequence < bad.sequence

(* What verify_chain says of an intact log in which one row was tampered     *)
(* with.  A hashed column, the link, the hash or the signature overwritten:  *)
(* a break, at exactly that row.  A column no hash covers overwritten: no    *)
(* break, unless the new sequence moves the row past another one.  The row   *)
(* removed: one break, at the row after it, or none when it was the newest.  *)
VerifyChainVerdict ==
    ChainIntact =>
      \A r \in rows :
        /\ \A bad \in Altered(r) \ {r} :
             LET v == verify_chain(Replaced(r, bad))
             IN  ~v.is_valid /\ v.first_break_sequence = r.sequence
        /\ \A bad \in OutsideHash(r) :
             verify_chain(Replaced(r, bad)).is_valid <=> KeepsPlace(r, bad)
        /\ LET v    == verify_chain(rows \ {r})
               next == {q \in rows : q.sequence > r.sequence}
           IN  IF next = {} THEN v.is_valid
               ELSE /\ v.failed_count = 1
                    /\ v.first_break_sequence \in {q.sequence : q \in next}
                    /\ \A q \in next : v.first_break_sequence <= q.sequence

(* "Mutating or deleting any historical row breaks the hash of every entry   *)
(* after it, which verify_chain detects" (models/audit.py): whichever column *)
(* was altered, every later row fails too, and so it does after a deletion.  *)
BreaksEveryLaterRow ==
    ChainIntact =>
      \A r \in rows :
        LET mutated == {[r EXCEPT !.content = c] : c \in Content}
                       \cup {[r EXCEPT !.unhashed = u] : u \in Unhashed}
            broken  == {Replaced(r, bad) : bad \in mutated \ {r}} \cup {rows \ {r}}
        IN  \A S \in broken : \A q \in rows : q.sequence > r.sequence => ~entry_ok(S, q)

\* The identity hands a value out once: two rows, committed or not, have
\* different sequences unless they are the same row.
AllRows == rows \cup UNION {pending[s] : s \in Sessions}

SequenceUnique == \A q, r \in AllRows : q.sequence = r.sequence => q = r

(* What the log promises when writers do not overlap: the root hash that    *)
(* get_chain_summary publishes is only ever extended.                       *)
ImplementsLedger == Ledger!Spec

=============================================================================
