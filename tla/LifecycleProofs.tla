-------------------------- MODULE LifecycleProofs --------------------------
(***************************************************************************)
(* Theorems about what outlives a request, for any number of processes and *)
(* entries.                                                                *)
(*                                                                         *)
(* Part 1: the signing key.  Part 2: the readers of the audit log.         *)
(* Part 3: anomalies and their history.  Part 4: the revisions of the      *)
(* schema.  Part 5: the seed script.  Part 6: all of them together.        *)
(***************************************************************************)
EXTENDS MCLifecycle, RequestsProofs, FiniteSetTheorems, SequenceTheorems,
        WellFoundedInduction, TLAPS

-----------------------------------------------------------------------------
(* Part 1: the signing key. *)

(* The sentinel of a truncated file is neither a key nor the missing file. *)
LEMMA TruncatedIsNoKey ==
  /\ Truncated \in Nat /\ Truncated \notin Keys /\ Truncated # 0
  /\ 0 \notin Keys /\ Keys \subseteq Nat
BY SigningKeyAssumption DEF Truncated, Keys

(* Types, and that a process past the generation of its key holds one. *)
LEMMA KeyTypeStep ==
  ASSUME KeyTypeOK, HoldsKey, [KeyNext]_keyVars
  PROVE  KeyTypeOK' /\ HoldsKey'
<1> USE SigningKeyAssumption DEF KeyTypeOK, HoldsKey, Keys
<1>1. ASSUME NEW p \in Processes, get_signing_key(p) PROVE KeyTypeOK' /\ HoldsKey'
  BY <1>1 DEF get_signing_key, Truncated
<1>2. ASSUME NEW p \in Processes, generate_private_key(p) PROVE KeyTypeOK' /\ HoldsKey'
  BY <1>2 DEF generate_private_key
<1>3. ASSUME NEW p \in Processes, write_bytes(p) PROVE KeyTypeOK' /\ HoldsKey'
  BY <1>3 DEF write_bytes, Truncated
<1>4. ASSUME NEW p \in Processes, sign_hex_digest(p) PROVE KeyTypeOK' /\ HoldsKey'
  BY <1>4 DEF sign_hex_digest
<1>5. ASSUME NEW p \in Processes, Crash(p) PROVE KeyTypeOK' /\ HoldsKey'
  BY <1>5 DEF Crash, Fresh
<1>6. CASE UNCHANGED keyVars
  BY <1>6 DEF keyVars
<1> QED
  BY <1>1, <1>2, <1>3, <1>4, <1>5, <1>6 DEF KeyNext

LEMMA KeyInvStep ==
  ASSUME KeyTypeOK, KeyInv, [KeyNext]_keyVars
  PROVE  KeyTypeOK' /\ KeyInv'
<1>1. KeyTypeOK' /\ HoldsKey'
  BY KeyTypeStep DEF KeyInv
<1> SUFFICES ASSUME ~raced'
             PROVE  OneMaker' /\ FileWhileMaking' /\ ReadyHoldsFile' /\ SignedWithFile'
  BY <1>1 DEF KeyInv
<1> USE DEF KeyTypeOK, Making
<1>2. ASSUME NEW p \in Processes, get_signing_key(p)
      PROVE  OneMaker' /\ FileWhileMaking' /\ ReadyHoldsFile' /\ SignedWithFile'
  <2>1. /\ ~raced
        /\ \A q \in Processes \ {p} : process'[q] = process[q]
        /\ \/ keyFile \in Keys /\ process'[p] = [at |-> "ready", key |-> keyFile]
           \/ /\ keyFile = 0 /\ process'[p].at = "generate"
              /\ \A q \in Processes \ {p} : ~Making(q)
        /\ UNCHANGED <<keyFile, signers>>
    BY <1>2 DEF get_signing_key
  <2> QED
    BY <2>1, TruncatedIsNoKey DEF KeyInv, OneMaker, FileWhileMaking, ReadyHoldsFile, SignedWithFile
<1>3. ASSUME NEW p \in Processes, generate_private_key(p)
      PROVE  OneMaker' /\ FileWhileMaking' /\ ReadyHoldsFile' /\ SignedWithFile'
  BY <1>3 DEF generate_private_key, KeyInv, OneMaker, FileWhileMaking, ReadyHoldsFile, SignedWithFile
<1>4. ASSUME NEW p \in Processes, write_bytes(p)
      PROVE  OneMaker' /\ FileWhileMaking' /\ ReadyHoldsFile' /\ SignedWithFile'
  <2>1. /\ ~raced
        /\ process[p].key \in Keys
        /\ \A q \in Processes \ {p} : process'[q] = process[q] /\ ~Making(q)
        /\ \A q \in Processes : process[q].at # "ready"
        /\ signers = {}
    BY <1>4, TruncatedIsNoKey
       DEF write_bytes, KeyInv, HoldsKey, OneMaker, FileWhileMaking, ReadyHoldsFile, SignedWithFile
  <2> QED
    BY <1>4, <2>1 DEF write_bytes, OneMaker, FileWhileMaking, ReadyHoldsFile, SignedWithFile
<1>5. ASSUME NEW p \in Processes, sign_hex_digest(p)
      PROVE  OneMaker' /\ FileWhileMaking' /\ ReadyHoldsFile' /\ SignedWithFile'
  BY <1>5 DEF sign_hex_digest, KeyInv, HoldsKey, OneMaker, FileWhileMaking, ReadyHoldsFile,
     SignedWithFile
<1>6. ASSUME NEW p \in Processes, Crash(p)
      PROVE  OneMaker' /\ FileWhileMaking' /\ ReadyHoldsFile' /\ SignedWithFile'
  BY <1>6 DEF Crash, Fresh, KeyInv, OneMaker, FileWhileMaking, ReadyHoldsFile, SignedWithFile
<1>7. CASE UNCHANGED keyVars
  BY <1>7 DEF keyVars, KeyInv, OneMaker, FileWhileMaking, ReadyHoldsFile, SignedWithFile
<1> QED
  BY <1>2, <1>3, <1>4, <1>5, <1>6, <1>7 DEF KeyNext

LEMMA KeyStart == KeyInit => KeyTypeOK /\ KeyInv
<1> SUFFICES ASSUME KeyInit PROVE KeyTypeOK /\ KeyInv
  OBVIOUS
<1>1. \A p \in Processes : process[p] = Fresh
  BY DEF KeyInit
<1>2. KeyTypeOK
  <2>1. raced \in BOOLEAN /\ signers \subseteq Keys
    BY DEF KeyInit
  <2>2. keyFile \in 0..Truncated /\ generated \in 0..MaxKeys
    BY SigningKeyAssumption, TruncatedIsNoKey DEF KeyInit
  <2>3. process \in [Processes -> [at : {"start", "generate", "write", "writing", "ready"},
                                  key : 0..MaxKeys]]
    BY SigningKeyAssumption DEF KeyInit, Fresh
  <2> QED
    BY <2>1, <2>2, <2>3 DEF KeyTypeOK
<1> QED
  BY <1>1, <1>2 DEF KeyInit, KeyInv, HoldsKey, OneMaker, FileWhileMaking, ReadyHoldsFile,
     SignedWithFile, Making, Fresh

LEMMA KeyInductive == KeySpec => [](KeyTypeOK /\ KeyInv)
<1>1. KeyTypeOK /\ KeyInv /\ [KeyNext]_keyVars => KeyTypeOK' /\ KeyInv'
  BY KeyInvStep
<1> QED
  BY <1>1, KeyStart, PTL DEF KeySpec

(* Unless two processes made a key at once, every process with a key, now or *)
(* after any crash and restart, verifies every entry ever signed             *)
(* (get_signing_key, sign_hex_digest, verify_hex_digest).                    *)
THEOREM SignedEntriesVerify == KeySpec => []SignaturesVerify
<1>1. KeyTypeOK /\ KeyInv => SignaturesVerify
  BY DEF KeyTypeOK, KeyInv, ReadyHoldsFile, SignedWithFile, SignaturesVerify, verify_hex_digest
<1> QED
  BY <1>1, KeyInductive, PTL

-----------------------------------------------------------------------------
(* Part 2: the readers of the audit log. *)

(* A nonempty set of naturals has a least element. *)
LEMMA LeastNatural ==
  ASSUME NEW T, T \subseteq Nat, T # {}
  PROVE  \E m \in T : \A k \in T : m <= k
<1>1. PICK m \in T : \A k \in T : ~(<<k, m>> \in OpToRel(<, Nat))
  BY WFMin, NatLessThanWellFounded
<1>2. \A k \in T : ~(k < m)
  BY <1>1 DEF OpToRel
<1> QED
  BY <1>2

(* Entries whose sequence numbers differ, as committed ones do. *)
Numbered(M) ==
  /\ IsFiniteSet(M)
  /\ \A e \in M : e.sequence \in Nat
  /\ \A d, e \in M : d.sequence = e.sequence => d = e

(* The entry before one that is not the newest has one entry less after it. *)
LEMMA PositionBefore ==
  ASSUME NEW M, Numbered(M), NEW e \in M, Cardinality(Later(M, e)) > 0
  PROVE  \E d \in M : Cardinality(Later(M, d)) = Cardinality(Later(M, e)) - 1
<1> DEFINE T == {x.sequence : x \in Later(M, e)}
<1>1. IsFiniteSet(Later(M, e))
  BY FS_Subset DEF Numbered, Later
<1>2. Later(M, e) # {}
  BY <1>1, FS_EmptySet
<1>3. T \subseteq Nat /\ T # {}
  BY <1>2 DEF Numbered, Later
<1>4. PICK d \in Later(M, e) : \A x \in Later(M, e) : d.sequence <= x.sequence
  <2>1. PICK m \in T : \A k \in T : m <= k
    BY <1>3, LeastNatural
  <2> QED
    BY <2>1
<1>5. Later(M, d) = Later(M, e) \ {d}
  BY <1>4 DEF Numbered, Later
<1> QED
  BY <1>1, <1>4, <1>5, FS_RemoveElement DEF Later

(* Every position up to that of an entry is taken. *)
LEMMA PositionsTaken ==
  ASSUME NEW M, Numbered(M), NEW e \in M,
         NEW j \in Nat, j <= Cardinality(Later(M, e))
  PROVE  \E d \in M : Cardinality(Later(M, d)) = j
<1> DEFINE J == {Cardinality(Later(M, x)) : x \in M}
           B == {i \in J : i > j}
<1>1. \A x \in M : Cardinality(Later(M, x)) \in Nat
  BY FS_Subset, FS_CardinalityType DEF Numbered, Later
<1>2. SUFFICES ASSUME j \notin J
               PROVE  FALSE
  OBVIOUS
<1>3. B \subseteq Nat /\ Cardinality(Later(M, e)) \in B
  BY <1>1, <1>2
<1>4. PICK i \in B : \A k \in B : i <= k
  BY <1>3, LeastNatural
<1>5. PICK x \in M : i = Cardinality(Later(M, x))
  BY <1>4
<1>6. i \in Nat /\ i > j
  BY <1>3, <1>4
<1>7. i - 1 \in J
  BY <1>5, <1>6, PositionBefore
<1>8. i - 1 # j
  BY <1>2, <1>7
<1>9. i - 1 \in B
  BY <1>6, <1>7, <1>8
<1> QED
  BY <1>4, <1>6, <1>9

(* A page that ends before an entry is full. *)
LEMMA PageIsFull ==
  ASSUME NEW M, Numbered(M), NEW e \in M, NEW a \in Nat, NEW k \in Nat \ {0},
         Cardinality(Later(M, e)) >= a + k
  PROVE  Cardinality({x \in M : Cardinality(Later(M, x)) \in a..(a + k - 1)}) >= k
<1> DEFINE R == {x \in M : Cardinality(Later(M, x)) \in a..(a + k - 1)}
           f == [x \in R |-> Cardinality(Later(M, x))]
<1>1. Cardinality(Later(M, e)) \in Nat
  BY FS_Subset, FS_CardinalityType DEF Numbered, Later
<1>2. \A j \in a..(a + k - 1) : \E x \in R : f[x] = j
  <2> SUFFICES ASSUME NEW j \in a..(a + k - 1)
               PROVE  \E x \in R : f[x] = j
    OBVIOUS
  <2>1. j \in Nat /\ j <= Cardinality(Later(M, e))
    BY <1>1
  <2>2. PICK x \in M : Cardinality(Later(M, x)) = j
    BY <2>1, PositionsTaken
  <2> QED
    BY <2>2
<1>3. f \in Surjection(R, a..(a + k - 1))
  BY <1>2 DEF Surjection
<1>4. IsFiniteSet(R)
  BY FS_Subset DEF Numbered
<1>5. Cardinality(a..(a + k - 1)) <= Cardinality(R)
  BY <1>3, <1>4, FS_Surjection
<1>6. Cardinality(a..(a + k - 1)) = k
  BY FS_Interval
<1>7. Cardinality(R) \in Nat
  BY <1>4, FS_CardinalityType
<1> QED
  BY <1>5, <1>6, <1>7

LEMMA OffsetSteps ==
  ASSUME NEW page \in Nat, page >= 1
  PROVE  /\ Offset(page) \in Nat
         /\ Offset(page + 1) = Offset(page) + PageSize
         /\ Offset(1) = 0
BY ReadersAssumption DEF Offset

(* Committed entries have different sequence numbers, and so are finitely many. *)
LEMMA LogNumbered ==
  ASSUME ReadersTypeOK, SequencesDistinct, NEW f
  PROVE  Numbered(log) /\ Numbered(Matching(f))
<1> DEFINE g == [e \in log |-> e.sequence]
<1>1. \A e \in log : e.sequence \in 1..MaxEntries
  BY DEF ReadersTypeOK, Entry
<1>2. g \in Injection(log, 1..MaxEntries)
  BY <1>1 DEF SequencesDistinct, Injection, IsInjective
<1>3. IsFiniteSet(log)
  BY <1>2, FS_Injection, FS_Interval, ReadersAssumption
<1>4. Numbered(log)
  BY <1>1, <1>3, ReadersAssumption DEF Numbered, SequencesDistinct
<1>5. Matching(f) \subseteq log
  BY DEF Matching
<1> QED
  BY <1>4, <1>5, FS_Subset DEF Numbered

LEMMA ReadersTypeStep ==
  ASSUME ReadersTypeOK, SequencesDistinct, [ReadersNext]_readerVars
  PROVE  ReadersTypeOK'
<1> USE DEF ReadersTypeOK
<1>1. ASSUME NEW k \in Kinds, append_entry_in_transaction(k) PROVE ReadersTypeOK'
  BY <1>1, ReadersAssumption DEF append_entry_in_transaction, Entry
<1>2. ASSUME NEW e \in pending, append_entry(e) PROVE ReadersTypeOK'
  <2>1. reordered' \in BOOLEAN
    BY <1>2 DEF append_entry
  <2> QED
    BY <1>2, <2>1 DEF append_entry
<1>3. ASSUME NEW e \in pending, Rollback(e) PROVE ReadersTypeOK'
  BY <1>3 DEF Rollback
<1>4. ASSUME NEW f \in Kinds \cup {None}, CountEntries(f) PROVE ReadersTypeOK'
  <2>1. Cardinality(Matching(f)) \in Nat /\ Matching(f) \subseteq Entry
    BY LogNumbered, FS_CardinalityType DEF Numbered, Matching
  <2> QED
    BY <1>4, <2>1 DEF CountEntries, AuditExportResponse
<1>5. ASSUME export_entries PROVE ReadersTypeOK'
  <2>1. Oldest(Matching(export.filter)) \subseteq Entry
    BY DEF Oldest, Matching
  <2>2. export \in AuditExportResponse
    BY <1>5 DEF export_entries
  <2>3. ASSUME NEW S \in SUBSET Entry, NEW b \in BOOLEAN
        PROVE  [export EXCEPT !.answered = TRUE, !.entries = S, !.truncated = b]
                  \in AuditExportResponse
    BY <2>2 DEF AuditExportResponse
  <2>4. export' \in AuditExportResponse
    <3> DEFINE S == Oldest(Matching(export.filter))
               b == export.total > Cardinality(S)
    <3>1. b \in BOOLEAN
      OBVIOUS
    <3>2. export' = [export EXCEPT !.answered = TRUE, !.entries = S, !.truncated = b]
      BY <1>5 DEF export_entries
    <3> HIDE DEF S, b
    <3> QED
      BY <2>1, <2>3, <3>1, <3>2 DEF S
  <2> QED
    BY <1>5, <2>4 DEF export_entries
<1>6. ASSUME ReadPage PROVE ReadersTypeOK'
  <2>1. /\ list_entries(listing.filter, listing.page) \subseteq Entry
        /\ Matching(listing.filter) \subseteq Entry
    BY DEF list_entries, Matching
  <2> QED
    BY <1>6, <2>1 DEF ReadPage, Listing
<1>7. CASE UNCHANGED readerVars
  BY <1>7 DEF readerVars
<1> QED
  BY <1>1, <1>2, <1>3, <1>4, <1>5, <1>6, <1>7 DEF ReadersNext

LEMMA SequencesStep ==
  ASSUME ReadersTypeOK, SequencesDistinct, [ReadersNext]_readerVars
  PROVE  SequencesDistinct'
<1> USE DEF ReadersTypeOK, SequencesDistinct
<1>1. ASSUME NEW k \in Kinds, append_entry_in_transaction(k) PROVE SequencesDistinct'
  BY <1>1, ReadersAssumption DEF append_entry_in_transaction, Entry
<1>2. ASSUME NEW e \in pending, append_entry(e) PROVE SequencesDistinct'
  BY <1>2 DEF append_entry
<1>3. ASSUME NEW e \in pending, Rollback(e) PROVE SequencesDistinct'
  BY <1>3 DEF Rollback
<1>4. ASSUME UNCHANGED <<inserted, pending, log>> PROVE SequencesDistinct'
  BY <1>4
<1> QED
  BY <1>1, <1>2, <1>3, <1>4
     DEF ReadersNext, readerVars, CountEntries, export_entries, ReadPage

(* No step takes an entry out of the log. *)
LEMMA LogGrows ==
  ASSUME [ReadersNext]_readerVars, NEW f
  PROVE  Matching(f) \subseteq Matching(f)'
BY DEF ReadersNext, readerVars, append_entry_in_transaction, append_entry, Rollback, CountEntries,
   export_entries, ReadPage, Matching

LEMMA CountedStep ==
  ASSUME ReadersTypeOK, SequencesDistinct, CountedFirst, [ReadersNext]_readerVars
  PROVE  CountedFirst'
<1>1. ASSUME NEW e \in pending, append_entry(e) PROVE CountedFirst'
  <2> SUFFICES ASSUME export # None
               PROVE  CountedFirst'
    BY <1>1 DEF append_entry, CountedFirst
  <2>1. export' = export /\ log' = log \cup {e}
    BY <1>1 DEF append_entry
  <2>2. export.counted \subseteq Matching(export.filter)'
    BY <2>1, LogGrows DEF CountedFirst
  <2>3. ASSUME ~reordered' PROVE ~reordered /\ \A d \in log : d.sequence <= e.sequence
    <3>1. ~reordered /\ Later(log, e) = {}
      BY <1>1, <2>3 DEF append_entry
    <3> QED
      BY <3>1 DEF Later, ReadersTypeOK, Entry
  <2>4. ASSUME ~reordered', NEW d \in export.counted,
               NEW x \in Matching(export.filter)' \ export.counted
        PROVE  d.sequence < x.sequence
    <3>1. d \in log
      BY DEF CountedFirst, Matching
    <3>2. CASE x = e
      <4>1. d # e
        BY <3>2
      <4>2. d.sequence # e.sequence
        BY <3>1, <4>1 DEF SequencesDistinct
      <4> QED
        BY <2>3, <2>4, <3>1, <3>2, <4>2 DEF ReadersTypeOK, Entry
    <3>3. CASE x # e
      <4>1. x \in Matching(export.filter)
        BY <2>1, <3>3 DEF Matching
      <4> QED
        BY <2>3, <2>4, <4>1 DEF CountedFirst
    <3> QED
      BY <3>2, <3>3
  <2> QED
    BY <2>1, <2>2, <2>4 DEF CountedFirst
<1>2. ASSUME NEW f \in Kinds \cup {None}, CountEntries(f) PROVE CountedFirst'
  BY <1>2 DEF CountEntries, CountedFirst, Matching
<1>3. ASSUME export_entries PROVE CountedFirst'
  <2>1. export \in AuditExportResponse
    BY <1>3 DEF export_entries, ReadersTypeOK
  <2>2. /\ export'.counted = export.counted /\ export'.filter = export.filter
        /\ export'.total = export.total
        /\ UNCHANGED <<log, reordered>>
    BY <1>3, <2>1 DEF export_entries, AuditExportResponse
  <2> QED
    BY <1>3, <2>2 DEF export_entries, CountedFirst, Matching
<1>4. ASSUME UNCHANGED <<log, reordered, export>> PROVE CountedFirst'
  BY <1>4 DEF CountedFirst, Matching
<1> QED
  BY <1>1, <1>2, <1>3, <1>4
     DEF ReadersNext, readerVars, append_entry_in_transaction, Rollback, ReadPage

(* The oldest rows of a set leave one out only when all of them are older. *)
LEMMA OldestAreOlder ==
  ASSUME NEW M, Numbered(M), NEW e \in M \ Oldest(M)
  PROVE  Oldest(M) \subseteq Earlier(M, e)
<1> SUFFICES ASSUME NEW d \in Oldest(M), ~(d.sequence < e.sequence)
             PROVE  FALSE
  BY DEF Oldest, Earlier
<1>1. Earlier(M, e) \subseteq Earlier(M, d)
  BY DEF Oldest, Earlier, Numbered
<1>2. IsFiniteSet(Earlier(M, d)) /\ IsFiniteSet(Earlier(M, e))
  BY FS_Subset DEF Earlier, Numbered
<1>3. Cardinality(Earlier(M, e)) <= Cardinality(Earlier(M, d))
  BY <1>1, <1>2, FS_Subset
<1>4. Cardinality(Earlier(M, e)) \in Nat /\ Cardinality(Earlier(M, d)) \in Nat
  BY <1>2, FS_CardinalityType
<1>5. Cardinality(Earlier(M, d)) < EXPORT_MAX_ROWS
  BY DEF Oldest
<1>6. ~(Cardinality(Earlier(M, e)) < EXPORT_MAX_ROWS)
  BY DEF Oldest
<1> QED
  BY <1>3, <1>4, <1>5, <1>6, ReadersAssumption

LEMMA ExportStep ==
  ASSUME ReadersTypeOK, SequencesDistinct, CountedFirst, ExportHonest, [ReadersNext]_readerVars
  PROVE  ExportHonest'
<1>1. ASSUME export_entries PROVE ExportHonest'
  <2> DEFINE M == Matching(export.filter)
             S == Oldest(M)
             C == export.counted
  <2>1. /\ export \in AuditExportResponse /\ export # None
        /\ log' = log /\ reordered' = reordered
    BY <1>1 DEF export_entries, ReadersTypeOK
  <2>2. /\ export'.filter = export.filter /\ export'.counted = C /\ export'.entries = S
        /\ export'.truncated <=> export.total > Cardinality(S)
    BY <1>1, <2>1 DEF export_entries, AuditExportResponse
  <2>3. Matching(export.filter)' = M \/ export' = None
    BY <2>1, <2>2 DEF Matching
  <2>4. Numbered(M) /\ C \subseteq M /\ S \subseteq M /\ export.total = Cardinality(C)
    BY <2>1, LogNumbered DEF CountedFirst, Oldest
  <2>5. IsFiniteSet(C) /\ IsFiniteSet(S)
    BY <2>4, FS_Subset DEF Numbered
  <2>6. Cardinality(C) \in Nat /\ Cardinality(S) \in Nat
    BY <2>5, FS_CardinalityType
  <2>7. ASSUME export.total > Cardinality(S) PROVE M \ S # {}
    <3>1. ~(C \subseteq S)
      BY <2>4, <2>5, <2>6, <2>7, FS_Subset
    <3> QED
      BY <2>4, <3>1
  <2>8. ASSUME ~(export.total > Cardinality(S)), ~reordered PROVE C \subseteq S
    <3> SUFFICES ASSUME NEW e \in C, e \notin S
                 PROVE  FALSE
      OBVIOUS
    <3>1. S \subseteq Earlier(M, e)
      BY <2>4, OldestAreOlder
    <3>2. Earlier(M, e) \subseteq C \ {e}
      <4> SUFFICES ASSUME NEW d \in Earlier(M, e), d \notin C
                   PROVE  FALSE
        BY <2>4 DEF Earlier, Numbered
      <4>1. d \in M /\ d.sequence < e.sequence /\ e.sequence < d.sequence
        BY <2>1, <2>8 DEF Earlier, CountedFirst
      <4> QED
        BY <2>4, <4>1 DEF Numbered
    <3>3. Cardinality(S) <= Cardinality(C \ {e})
      BY <3>1, <3>2, <2>5, FS_RemoveElement, FS_Subset
    <3>4. Cardinality(C \ {e}) = Cardinality(C) - 1
      BY <2>5, FS_RemoveElement
    <3> QED
      BY <3>3, <3>4, <2>4, <2>6, <2>8
  <2> HIDE DEF M, S, C
  <2> QED
    BY <2>1, <2>2, <2>3, <2>7, <2>8 DEF ExportHonest, M
<1>2. ASSUME NEW f \in Kinds \cup {None}, CountEntries(f) PROVE ExportHonest'
  BY <1>2 DEF CountEntries, ExportHonest
<1>3. ASSUME export' = export, reordered => reordered' PROVE ExportHonest'
  BY <1>3, LogGrows DEF ExportHonest
<1>4. ASSUME NEW e \in pending, append_entry(e) PROVE ExportHonest'
  BY <1>3, <1>4 DEF append_entry
<1>5. ASSUME UNCHANGED <<export, reordered>> PROVE ExportHonest'
  BY <1>3, <1>5
<1> QED
  BY <1>1, <1>2, <1>4, <1>5 DEF ReadersNext, readerVars, append_entry_in_transaction, Rollback,
     ReadPage

(* Entries that are committed move the others down, never up. *)
LEMMA PositionsGrow ==
  ASSUME ReadersTypeOK, SequencesDistinct, [ReadersNext]_readerVars, NEW f, NEW e
  PROVE  /\ Cardinality(Later(Matching(f), e)) \in Nat
         /\ Cardinality(Later(Matching(f)', e)) \in Nat
         /\ Cardinality(Later(Matching(f), e)) <= Cardinality(Later(Matching(f)', e))
<1>1. Numbered(Matching(f))
  BY LogNumbered
<1>2. Numbered(Matching(f))'
  <2>1. ReadersTypeOK' /\ SequencesDistinct'
    BY ReadersTypeStep, SequencesStep
  <2> QED
    BY <2>1, LogNumbered, PTL
<1> QED
  BY <1>1, <1>2, LogGrows, FS_Subset, FS_CardinalityType DEF Numbered, Later

LEMMA ListingStep ==
  ASSUME ReadersTypeOK, SequencesDistinct, UnseenAhead, ListingComplete, [ReadersNext]_readerVars
  PROVE  UnseenAhead' /\ ListingComplete'
<1>1. ASSUME ReadPage PROVE UnseenAhead' /\ ListingComplete'
  <2> DEFINE M    == Matching(listing.filter)
             page == listing.page
             shown == list_entries(listing.filter, page)
             first == IF page = 1 THEN M ELSE listing.first
  <2>1. /\ page \in Nat /\ page >= 1
        /\ Offset(page) \in Nat
        /\ Offset(page + 1) = Offset(page) + PageSize
    BY OffsetSteps DEF UnseenAhead, ReadersTypeOK, Listing
  <2>2. /\ listing'.filter = listing.filter /\ listing'.page = page + 1
        /\ listing'.first = first /\ listing'.seen = listing.seen \cup shown
        /\ listing'.complete <=> Cardinality(shown) < PageSize
        /\ log' = log
    BY <1>1 DEF ReadPage
  <2>3. Matching(listing.filter)' = M
    BY <2>2 DEF Matching
  <2>4. Numbered(M) /\ first \subseteq M
    BY LogNumbered DEF UnseenAhead
  <2>5. \A e \in M : Cardinality(Later(M, e)) \in Nat
    BY <2>4, FS_Subset, FS_CardinalityType DEF Numbered, Later
  <2>6. ASSUME NEW e \in first, e \notin listing.seen \cup shown
        PROVE  Cardinality(Later(M, e)) >= Offset(page) + PageSize
    <3>1. Cardinality(Later(M, e)) >= Offset(page)
      BY <2>1, <2>4, <2>5, <2>6, OffsetSteps DEF UnseenAhead
    <3>2. Cardinality(Later(M, e)) \notin Offset(page)..(Offset(page) + PageSize - 1)
      BY <2>4, <2>6 DEF list_entries
    <3> QED
      BY <2>1, <2>4, <2>5, <3>1, <3>2, ReadersAssumption
  <2>7. ASSUME NEW e \in first, e \notin listing.seen \cup shown
        PROVE  ~(Cardinality(shown) < PageSize)
    <3>1. PageSize \in Nat \ {0}
      BY ReadersAssumption
    <3>2. Cardinality(shown) >= PageSize
      BY <2>1, <2>4, <2>6, <2>7, <3>1, PageIsFull DEF list_entries
    <3>3. Cardinality(shown) \in Nat
      BY <2>4, FS_Subset, FS_CardinalityType DEF Numbered, list_entries
    <3> QED
      BY <3>1, <3>2, <3>3
  <2> HIDE DEF M, page, shown, first
  <2>8. UnseenAhead'
    BY <2>1, <2>2, <2>3, <2>4, <2>6 DEF UnseenAhead
  <2> QED
    BY <2>2, <2>7, <2>8 DEF ListingComplete
<1>2. ASSUME UNCHANGED listing PROVE UnseenAhead' /\ ListingComplete'
  <2>1. ListingComplete' /\ listing'.page >= 1
    BY <1>2 DEF ListingComplete, UnseenAhead
  <2>2. listing.first \subseteq Matching(listing.filter)'
    BY <1>2, LogGrows DEF UnseenAhead
  <2>3. ASSUME NEW e \in listing.first \ listing.seen
        PROVE  Cardinality(Later(Matching(listing.filter)', e)) >= Offset(listing.page)
    <3>1. Cardinality(Later(Matching(listing.filter), e)) >= Offset(listing.page)
      BY DEF UnseenAhead
    <3>2. Offset(listing.page) \in Nat
      BY OffsetSteps DEF UnseenAhead, ReadersTypeOK, Listing
    <3>3. PICK f : f = listing.filter
      OBVIOUS
    <3>4. Matching(listing.filter)' = Matching(f)'
      BY <1>2, <3>3 DEF Matching
    <3>5. Cardinality(Later(Matching(f), e)) <= Cardinality(Later(Matching(f)', e))
      BY PositionsGrow
    <3>6. /\ Cardinality(Later(Matching(f), e)) \in Nat
          /\ Cardinality(Later(Matching(f)', e)) \in Nat
      BY PositionsGrow
    <3> QED
      BY <3>1, <3>2, <3>3, <3>4, <3>5, <3>6
  <2> QED
    BY <1>2, <2>1, <2>2, <2>3 DEF UnseenAhead, Matching, Later, Offset
<1> QED
  BY <1>1, <1>2 DEF ReadersNext, readerVars, append_entry_in_transaction, append_entry,
     Rollback, CountEntries, export_entries

LEMMA ReadersStart == ReadersInit => ReadersTypeOK /\ ReadersInv
<1> SUFFICES ASSUME ReadersInit PROVE ReadersTypeOK /\ ReadersInv
  OBVIOUS
<1>1. reordered \in BOOLEAN
  BY DEF ReadersInit
<1>2. ReadersTypeOK
  <2>1. listing \in Listing
    <3>1. PICK b \in BOOLEAN : b = FALSE
      OBVIOUS
    <3>2. listing \in [filter : Kinds \cup {None}, page : {1}, first : {{}}, seen : {{}},
                       complete : {b}]
      BY <3>1 DEF ReadersInit
    <3> HIDE <3>1
    <3> QED
      BY <3>2 DEF Listing
  <2>2. inserted \in 0..MaxEntries /\ pending \subseteq Entry /\ log \subseteq Entry
    BY ReadersAssumption DEF ReadersInit
  <2> QED
    BY <1>1, <2>1, <2>2 DEF ReadersInit, ReadersTypeOK
<1>3. SequencesDistinct /\ CountedFirst /\ ExportHonest
  BY DEF ReadersInit, SequencesDistinct, CountedFirst, ExportHonest
<1>4. UnseenAhead /\ ListingComplete
  BY DEF ReadersInit, UnseenAhead, ListingComplete
<1> QED
  BY <1>2, <1>3, <1>4 DEF ReadersInv

LEMMA ReadersStep ==
  ReadersTypeOK /\ ReadersInv /\ [ReadersNext]_readerVars => ReadersTypeOK' /\ ReadersInv'
BY ReadersTypeStep, SequencesStep, CountedStep, ExportStep, ListingStep DEF ReadersInv

LEMMA ReadersInductive == ReadersSpec => [](ReadersTypeOK /\ ReadersInv)
BY ReadersStart, ReadersStep, PTL DEF ReadersSpec

(* An export that is marked truncated leaves out entries that match, and one *)
(* that is not marked has every entry that was counted, provided commits     *)
(* keep the order of the sequence numbers (export_entries); for every cap,   *)
(* every filter and any number of writers.                                   *)
THEOREM TruncationIsTold == ReadersSpec => []ExportHonest
BY ReadersInductive, PTL DEF ReadersInv

(* A client that pages to the end has seen every entry that matched when it  *)
(* began, whatever is committed meanwhile (list_entries); for every page     *)
(* size.                                                                     *)
THEOREM PagingMissesNothing == ReadersSpec => []ListingComplete
BY ReadersInductive, PTL DEF ReadersInv

-----------------------------------------------------------------------------
(* Part 3: anomalies and their history. *)

LEMMA AnomalyRequestUnderWay ==
  ASSUME AnomaliesInv, NEW s \in Sessions, req[s] # Idle
  PROVE  /\ req[s] \in AnomalyRequest /\ req[s].status \in AnomalyStatus
         /\ req[s].loaded \in [Events -> {NULL} \cup AnomalyEvent]
         /\ req[s].todo \in Seq(Events)
         /\ req[s].mine \subseteq AnomalyHistoryEntry
         /\ RequestRecords(s)
<1>1. req[s] \in AnomalyRequest
  BY DEF AnomaliesInv
<1> QED
  BY <1>1 DEF AnomaliesInv, AnomalyRequest

LEMMA AnomalyRequestNotIdle ==
  ASSUME NEW r \in AnomalyRequest
  PROVE  r # Idle
BY DEF AnomalyRequest, Idle

(* The row of a transition that a request has flushed is locked by it. *)
LEMMA TransitionsAreLocked ==
  ASSUME AnomaliesInv, NEW s \in Sessions, req[s] # Idle,
         NEW h \in req[s].mine, Moves(h)
  PROVE  /\ h.event \in Events /\ req[s].loaded[h.event].status # req[s].status
         /\ Dirty(req[s].loaded[h.event], req[s].status)
         /\ h.event \in Locked(s)
<1>1. /\ h.event \in Events /\ h.previous = req[s].loaded[h.event].status
      /\ h.new = req[s].status
  <2>1. h \in AnomalyHistoryEntry
    BY AnomalyRequestUnderWay
  <2>2. h.event \in Events
    BY <2>1 DEF AnomalyHistoryEntry
  <2> QED
    BY <2>2, AnomalyRequestUnderWay DEF RequestRecords
<1>2. PICK row, v : row = req[s].loaded[h.event] /\ v = req[s].status
  OBVIOUS
<1>3. row.status # v
  BY <1>1, <1>2 DEF Moves
<1>4. Assigned(row, v).status = v
  BY DEF Assigned
<1>5. Dirty(row, v)
  BY <1>3, <1>4 DEF Dirty
<1>6. h.event \in Flushed(s)
  BY DEF Flushed
<1> QED
  BY <1>1, <1>2, <1>3, <1>5, <1>6 DEF Locked

(* A request that begins has recorded nothing yet. *)
LEMMA UpdateBegins ==
  ASSUME AnomaliesInv, NEW s \in Sessions, NEW r \in AnomalyRequest,
         req' = [req EXCEPT ![s] = r], UNCHANGED anomalyTables,
         r.mine = {}, r.loaded = events,
         \A i \in 1..Len(r.todo) : /\ events[r.todo[i]] # NULL
                                   /\ \A j \in 1..Len(r.todo) : r.todo[i] = r.todo[j] => i = j
  PROVE  AnomaliesInv'
<1>1. req'[s] = r /\ \A t \in Sessions \ {s} : req'[t] = req[t]
  BY DEF AnomaliesInv
<1>2. req' \in [Sessions -> AnomalyRequest \cup {Idle}]
  BY DEF AnomaliesInv
<1>3. events' = events /\ history' = history /\ sequence' = sequence
  BY DEF anomalyTables
<1>4. AnomaliesTypeOK' /\ \A h \in history' : h.sequence <= sequence'
  BY <1>3 DEF AnomaliesInv, AnomaliesTypeOK
<1>5. ASSUME NEW t \in Sessions PROVE RequestRecords(t)'
  <2>1. CASE t = s
    BY <2>1, <1>1, <1>3 DEF RequestRecords
  <2>2. CASE t # s
    BY <2>2, <1>1, <1>3 DEF RequestRecords, AnomaliesInv
  <2> QED
    BY <2>1, <2>2
<1>6. LocksExclude'
  BY <1>1 DEF AnomaliesInv, LocksExclude
<1>7. FlushedLast'
  BY <1>1, <1>3 DEF AnomaliesInv, FlushedLast
<1>8. HistoryEndsInStatus'
  BY <1>3 DEF AnomaliesInv, HistoryEndsInStatus
<1> QED
  BY <1>2, <1>4, <1>5, <1>6, <1>7, <1>8 DEF AnomaliesInv

LEMMA update_anomaly_status_keeps ==
  ASSUME AnomaliesInv, NEW s \in Sessions, NEW e \in Events, NEW v \in AnomalyStatus,
         update_anomaly_status(s, e, v)
  PROVE  AnomaliesInv'
<1>1. PICK r, ev : /\ r = [op |-> "update", status |-> v, todo |-> <<e>>, loaded |-> ev,
                           mine |-> {}]
                   /\ ev = events
  OBVIOUS
<1>2. /\ events[e] # NULL /\ req' = [req EXCEPT ![s] = r] /\ UNCHANGED anomalyTables
  BY <1>1 DEF update_anomaly_status, Begin
<1>3. ev \in [Events -> {NULL} \cup AnomalyEvent] /\ <<e>> \in Seq(Events)
  BY <1>1 DEF AnomaliesInv, AnomaliesTypeOK
<1>4. r \in AnomalyRequest
  BY <1>1, <1>3 DEF AnomalyRequest
<1>5. /\ r.mine = {} /\ r.loaded = events
      /\ \A i \in 1..Len(r.todo) : i = 1 /\ r.todo[i] = e
  BY <1>1
<1> QED
  BY <1>2, <1>4, <1>5, UpdateBegins

LEMMA bulk_update_anomaly_status_keeps ==
  ASSUME AnomaliesInv, NEW s \in Sessions, NEW E \in SUBSET Events,
         NEW v \in {"INVESTIGATING", "RESOLVED"}, bulk_update_anomaly_status(s, E, v)
  PROVE  AnomaliesInv'
<1>1. PICK S, ev : S = {e \in E : events[e] # NULL} /\ ev = events
  OBVIOUS
<1>2. PICK q \in SetToSeqs(S) :
        Begin(s, [op |-> "update", status |-> v, todo |-> q, loaded |-> ev, mine |-> {}])
  BY <1>1 DEF bulk_update_anomaly_status
<1>3. PICK r : r = [op |-> "update", status |-> v, todo |-> q, loaded |-> ev, mine |-> {}]
  OBVIOUS
<1>4. Cardinality(S) \in Nat /\ S \subseteq Events
  <2>1. S \subseteq Events
    BY <1>1
  <2>2. IsFiniteSet(S)
    BY <2>1, AnomaliesAssumption, FS_Subset
  <2> QED
    BY <2>1, <2>2, FS_CardinalityType
<1>5. /\ q \in [1..Cardinality(S) -> S]
      /\ \A i, j \in 1..Cardinality(S) : i # j => q[i] # q[j]
  BY <1>2 DEF SetToSeqs
<1>6. q \in Seq(Events) /\ Len(q) = Cardinality(S)
  BY <1>4, <1>5
<1>7. r \in AnomalyRequest
  <2>1. ev \in [Events -> {NULL} \cup AnomalyEvent]
    BY <1>1 DEF AnomaliesInv, AnomaliesTypeOK
  <2> QED
    BY <1>3, <1>6, <2>1 DEF AnomalyRequest, AnomalyStatus
<1>8. r.mine = {} /\ r.loaded = events /\ r.todo = q
  BY <1>1, <1>3
<1>9. req' = [req EXCEPT ![s] = r] /\ UNCHANGED anomalyTables
  BY <1>2, <1>3 DEF Begin, bulk_update_anomaly_status
<1>10. \A i \in 1..Len(q) : /\ events[q[i]] # NULL
                            /\ \A j \in 1..Len(q) : q[i] = q[j] => i = j
  BY <1>1, <1>5, <1>6
<1> QED
  BY <1>7, <1>8, <1>9, <1>10, UpdateBegins

(* A request that ends without a commit. *)
LEMMA UpdateFails ==
  ASSUME AnomaliesInv, NEW s \in Sessions, Finish(s), UNCHANGED anomalyTables
  PROVE  AnomaliesInv'
<1>1. req'[s] = Idle /\ \A t \in Sessions \ {s} : req'[t] = req[t]
  BY DEF AnomaliesInv, Finish, Continue
<1>2. req' \in [Sessions -> AnomalyRequest \cup {Idle}]
  BY DEF AnomaliesInv, Finish, Continue
<1>3. events' = events /\ history' = history /\ sequence' = sequence
  BY DEF anomalyTables
<1>4. AnomaliesTypeOK' /\ \A h \in history' : h.sequence <= sequence'
  BY <1>3 DEF AnomaliesInv, AnomaliesTypeOK
<1>5. \A t \in Sessions : RequestRecords(t)'
  BY <1>1, <1>3 DEF RequestRecords, AnomaliesInv
<1>6. LocksExclude'
  BY <1>1 DEF AnomaliesInv, LocksExclude
<1>7. FlushedLast'
  BY <1>1, <1>3 DEF AnomaliesInv, FlushedLast
<1>8. HistoryEndsInStatus'
  BY <1>3 DEF AnomaliesInv, HistoryEndsInStatus
<1> QED
  BY <1>2, <1>4, <1>5, <1>6, <1>7, <1>8 DEF AnomaliesInv

(* The creation is recorded after everything else. *)
LEMMA create_anomaly_event_keeps ==
  ASSUME AnomaliesInv, NEW s \in Sessions, NEW e \in Events, create_anomaly_event(s, e)
  PROVE  AnomaliesInv'
<1>0. PICK b \in BOOLEAN : b = FALSE
  OBVIOUS
<1>1. PICK row, c : /\ row = [status |-> "OPEN", resolved |-> b]
                    /\ c = [sequence |-> sequence + 1, event |-> e, previous |-> NULL,
                            new |-> "OPEN"]
  OBVIOUS
<1>2. /\ req' = req /\ sequence' = sequence + 1 /\ history' = history \cup {c}
      /\ events[e] = NULL /\ events' = [events EXCEPT ![e] = row]
  BY <1>0, <1>1 DEF create_anomaly_event, Instant
<1> HIDE <1>0
<1>3. sequence \in Nat /\ \A h \in history : h.sequence <= sequence /\ h.sequence \in Nat
  BY DEF AnomaliesInv, AnomaliesTypeOK, AnomalyHistoryEntry
<1>4. row \in AnomalyEvent /\ row.status = "OPEN" /\ row # NULL
  <2>1. row \in AnomalyEvent /\ row.status = "OPEN"
    BY <1>1 DEF AnomalyEvent, AnomalyStatus
  <2> QED
    BY <2>1, AnomaliesNoRow
<1>5. /\ c \in AnomalyHistoryEntry /\ c.sequence = sequence + 1 /\ c.event = e
      /\ c.new = "OPEN" /\ Moves(c)
  BY <1>1, <1>3, AnomaliesNoRow DEF AnomalyHistoryEntry, AnomalyStatus, Moves
<1>6. /\ events' \in [Events -> {NULL} \cup AnomalyEvent] /\ events'[e] = row
      /\ \A x \in Events \ {e} : events'[x] = events[x]
  BY <1>2, <1>4 DEF AnomaliesInv, AnomaliesTypeOK
<1>7. AnomaliesTypeOK' /\ \A h \in history' : h.sequence <= sequence'
  BY <1>2, <1>3, <1>5, <1>6 DEF AnomaliesInv, AnomaliesTypeOK
<1>8. ASSUME NEW t \in Sessions PROVE RequestRecords(t)'
  <2> SUFFICES ASSUME req[t] # Idle PROVE RequestRecords(t)'
    BY <1>2 DEF RequestRecords
  <2>1. RequestRecords(t)
    BY DEF AnomaliesInv
  <2>2. \A x \in Events : req[t].loaded[x] # NULL => events'[x] # NULL
    BY <2>1, <1>4, <1>6 DEF RequestRecords
  <2>3. \A h \in req[t].mine : h.sequence <= sequence'
    <3>1. \A h \in req[t].mine : h.sequence \in Nat
      BY AnomalyRequestUnderWay DEF AnomalyHistoryEntry
    <3> QED
      BY <3>1, <2>1, <1>2, <1>3 DEF RequestRecords
  <2> QED
    BY <2>1, <2>2, <2>3, <1>2 DEF RequestRecords
<1>9. LocksExclude'
  BY <1>2 DEF AnomaliesInv, LocksExclude
<1>10. FlushedLast'
  <2> SUFFICES ASSUME NEW t \in Sessions, req[t] # Idle, NEW h \in req[t].mine,
                      NEW k \in history', Moves(h), Moves(k), k.event = h.event
               PROVE  k.sequence < h.sequence
    BY <1>2 DEF FlushedLast, Moves
  <2>1. events[h.event] # NULL
    BY TransitionsAreLocked, AnomalyRequestUnderWay DEF RequestRecords
  <2>2. k \in history
    BY <2>1, <1>2, <1>5
  <2> QED
    BY <2>2 DEF AnomaliesInv, FlushedLast
<1>11. HistoryEndsInStatus'
  <2> SUFFICES ASSUME NEW x \in Events, events'[x] # NULL
               PROVE  \E h \in history' :
                        /\ h.event = x /\ Moves(h) /\ h.new = events'[x].status
                        /\ \A k \in history' : k.event = x /\ Moves(k) =>
                             k.sequence <= h.sequence
    BY DEF HistoryEndsInStatus, Moves
  <2>1. CASE x = e
    <3>1. \A k \in history' : k.sequence <= c.sequence
      BY <1>2, <1>3, <1>5
    <3> QED
      BY <2>1, <3>1, <1>2, <1>4, <1>5, <1>6
  <2>2. CASE x # e
    <3>1. PICK h \in history : /\ h.event = x /\ Moves(h) /\ h.new = events[x].status
                               /\ \A k \in history : k.event = x /\ Moves(k) =>
                                    k.sequence <= h.sequence
      BY <2>2, <1>6 DEF AnomaliesInv, HistoryEndsInStatus, Moves
    <3> QED
      BY <2>2, <3>1, <1>2, <1>5, <1>6
  <2> QED
    BY <2>1, <2>2
<1>12. req' \in [Sessions -> AnomalyRequest \cup {Idle}]
  BY <1>2 DEF AnomaliesInv
<1> QED
  BY <1>7, <1>8, <1>9, <1>10, <1>11, <1>12 DEF AnomaliesInv

(* The flush of a row waits until nobody else has it locked, and its entry   *)
(* takes the next sequence number.                                           *)
LEMMA append_anomaly_audit_keeps ==
  ASSUME AnomaliesInv, NEW s \in Sessions, append_anomaly_audit(s)
  PROVE  AnomaliesInv'
<1>1. PICK q, e, n : q = req[s] /\ e = Head(q.todo) /\ n = sequence
  OBVIOUS
<1>2. /\ q # Idle /\ q.todo # << >> /\ WaitsFor(s) = {} /\ req[s] # Idle
      /\ events' = events /\ history' = history /\ sequence' = n + 1
  BY <1>1 DEF append_anomaly_audit
<1>3. /\ q \in AnomalyRequest /\ q.status \in AnomalyStatus /\ q.todo \in Seq(Events)
      /\ q.loaded \in [Events -> {NULL} \cup AnomalyEvent]
      /\ q.mine \subseteq AnomalyHistoryEntry /\ RequestRecords(s)
  BY <1>1, <1>2, AnomalyRequestUnderWay
<1>4. n \in Nat /\ \A h \in history : h.sequence <= n /\ h.sequence \in Nat
  BY <1>1 DEF AnomaliesInv, AnomaliesTypeOK, AnomalyHistoryEntry
<1>5. /\ Len(q.todo) \in Nat /\ 1 \in 1..Len(q.todo) /\ e = q.todo[1] /\ e \in Events
      /\ q.loaded[e] # NULL
  <2>1. /\ Len(q.todo) \in Nat /\ 1 \in 1..Len(q.todo) /\ e = q.todo[1] /\ e \in Events
    BY <1>1, <1>2, <1>3
  <2> QED
    BY <2>1, <1>1, <1>2, <1>3 DEF RequestRecords
<1>6. PICK c : c = [sequence |-> n + 1, event |-> e, previous |-> q.loaded[e].status,
                    new |-> q.status]
  OBVIOUS
<1>7. /\ c \in AnomalyHistoryEntry /\ c.sequence = n + 1 /\ c.event = e
      /\ c.previous = q.loaded[e].status /\ c.new = q.status
  <2>1. q.loaded[e] \in AnomalyEvent
    BY <1>3, <1>5
  <2>2. q.loaded[e].status \in AnomalyStatus
    BY <2>1 DEF AnomalyEvent
  <2> QED
    BY <2>2, <1>3, <1>4, <1>5, <1>6 DEF AnomalyHistoryEntry
<1>8. PICK r, T, M : r = [q EXCEPT !.todo = T, !.mine = M] /\ T = Tail(q.todo)
                     /\ M = q.mine \cup {c}
  OBVIOUS
<1>9. req' = [req EXCEPT ![s] = r]
  BY <1>1, <1>6, <1>8 DEF append_anomaly_audit, Continue, audit_metadata
<1>10. /\ T \in Seq(Events) /\ Len(T) = Len(q.todo) - 1
       /\ \A i \in 1..Len(T) : i + 1 \in 1..Len(q.todo) /\ T[i] = q.todo[i + 1]
  BY <1>2, <1>3, <1>5, <1>8
<1>11. /\ r \in AnomalyRequest /\ r.todo = T /\ r.mine = M /\ r.loaded = q.loaded
       /\ r.status = q.status
  <2>1. M \subseteq AnomalyHistoryEntry
    BY <1>3, <1>7, <1>8
  <2> QED
    BY <2>1, <1>3, <1>8, <1>10 DEF AnomalyRequest
<1>12. /\ req' \in [Sessions -> AnomalyRequest \cup {Idle}] /\ req'[s] = r
       /\ \A t \in Sessions \ {s} : req'[t] = req[t]
  BY <1>9, <1>11 DEF AnomaliesInv
<1>13. AnomaliesTypeOK' /\ \A h \in history' : h.sequence <= sequence'
  BY <1>1, <1>2, <1>4 DEF AnomaliesInv, AnomaliesTypeOK
<1>14. ASSUME NEW t \in Sessions PROVE RequestRecords(t)'
  <2>1. CASE t # s
    <3> SUFFICES ASSUME req[t] # Idle PROVE RequestRecords(t)'
      BY <2>1, <1>12 DEF RequestRecords
    <3>1. \A h \in req[t].mine : h.sequence \in Nat
      BY AnomalyRequestUnderWay DEF AnomalyHistoryEntry
    <3>2. RequestRecords(t) /\ req'[t] = req[t]
      BY <2>1, <1>12 DEF AnomaliesInv
    <3>3. \A h \in req[t].mine : h.sequence <= sequence'
      BY <3>1, <3>2, <1>1, <1>2, <1>4 DEF RequestRecords
    <3> QED
      BY <3>2, <3>3, <1>2 DEF RequestRecords
  <2>2. CASE t = s
    <3>1. /\ \A x \in Events : q.loaded[x] # NULL => events[x] # NULL
          /\ \A i \in 1..Len(q.todo) :
               /\ q.loaded[q.todo[i]] # NULL
               /\ \A h \in q.mine : h.event # q.todo[i]
               /\ \A j \in 1..Len(q.todo) : q.todo[i] = q.todo[j] => i = j
          /\ \A h \in q.mine :
               /\ q.loaded[h.event] # NULL
               /\ h.previous = q.loaded[h.event].status /\ h.new = q.status
               /\ h.sequence <= n
               /\ \A k \in q.mine : k.event = h.event => k = h
      BY <1>1, <1>2, <1>3 DEF RequestRecords
    <3>2. \A i \in 1..Len(T) :
               /\ r.loaded[T[i]] # NULL
               /\ \A h \in M : h.event # T[i]
               /\ \A j \in 1..Len(T) : T[i] = T[j] => i = j
      <4> SUFFICES ASSUME NEW i \in 1..Len(T)
                   PROVE  /\ r.loaded[T[i]] # NULL
                          /\ \A h \in M : h.event # T[i]
                          /\ \A j \in 1..Len(T) : T[i] = T[j] => i = j
        OBVIOUS
      <4>1. i \in Nat /\ i + 1 \in 1..Len(q.todo) /\ T[i] = q.todo[i + 1] /\ i + 1 # 1
        BY <1>5, <1>10
      <4>2. T[i] # e
        BY <4>1, <3>1, <1>5
      <4>3. \A h \in M : h.event # T[i]
        BY <4>1, <4>2, <3>1, <1>7, <1>8
      <4>4. \A j \in 1..Len(T) : T[i] = T[j] => i + 1 = j + 1
        BY <4>1, <3>1, <1>10
      <4>5. \A j \in 1..Len(T) : T[i] = T[j] => i = j
        BY <4>1, <4>4
      <4> QED
        BY <4>1, <4>3, <4>5, <3>1, <1>11
    <3>3. \A h \in M :
               /\ r.loaded[h.event] # NULL
               /\ h.previous = r.loaded[h.event].status /\ h.new = r.status
               /\ \A k \in M : k.event = h.event => k = h
      BY <3>1, <1>5, <1>7, <1>8, <1>11
    <3>4. \A h \in M : h.sequence <= n + 1
      <4>1. \A h \in q.mine : h.sequence \in Nat
        BY <1>3 DEF AnomalyHistoryEntry
      <4> QED
        BY <4>1, <3>1, <1>4, <1>7, <1>8
    <3> QED
      BY <2>2, <3>1, <3>2, <3>3, <3>4, <1>2, <1>11, <1>12 DEF RequestRecords
  <2> QED
    BY <2>1, <2>2
<1>15. ASSUME Moves(c), NEW t \in Sessions \ {s}, req[t] # Idle, NEW k \in req[t].mine, Moves(k)
       PROVE  k.event # e
  <2> SUFFICES ASSUME k.event = e PROVE FALSE
    OBVIOUS
  <2>1. e \in Locked(t)
    BY <1>15, TransitionsAreLocked
  <2>2. Assigned(q.loaded[e], q.status).status = q.status
    BY DEF Assigned
  <2>3. Dirty(q.loaded[e], q.status)
    BY <2>2, <1>7, <1>15 DEF Dirty, Moves
  <2>4. t \in WaitsFor(s)
    BY <2>1, <2>3, <1>1, <1>2 DEF WaitsFor
  <2> QED
    BY <2>4, <1>2
<1>16. LocksExclude'
  <2> SUFFICES ASSUME NEW t \in Sessions, NEW u \in Sessions, t # u, req'[t] # Idle,
                      req'[u] # Idle, NEW h \in req'[t].mine, NEW k \in req'[u].mine,
                      Moves(h), Moves(k)
               PROVE  h.event # k.event
    BY DEF LocksExclude, Moves
  <2>1. CASE t # s /\ u # s
    BY <2>1, <1>12 DEF AnomaliesInv, LocksExclude
  <2>2. CASE t = s
    <3>1. u # s /\ req[u] # Idle /\ k \in req[u].mine /\ h \in M
      BY <2>2, <1>11, <1>12
    <3>2. CASE h = c
      BY <3>1, <3>2, <1>7, <1>15
    <3>3. CASE h \in q.mine
      BY <2>2, <3>1, <3>3, <1>1, <1>2 DEF AnomaliesInv, LocksExclude
    <3> QED
      BY <3>1, <3>2, <3>3, <1>8
  <2>3. CASE u = s
    <3>1. t # s /\ req[t] # Idle /\ h \in req[t].mine /\ k \in M
      BY <2>3, <1>11, <1>12
    <3>2. CASE k = c
      BY <3>1, <3>2, <1>7, <1>15
    <3>3. CASE k \in q.mine
      BY <2>3, <3>1, <3>3, <1>1, <1>2 DEF AnomaliesInv, LocksExclude
    <3> QED
      BY <3>1, <3>2, <3>3, <1>8
  <2> QED
    BY <2>1, <2>2, <2>3
<1>17. FlushedLast'
  <2> SUFFICES ASSUME NEW t \in Sessions, req'[t] # Idle, NEW h \in req'[t].mine,
                      NEW k \in history, Moves(h), Moves(k), k.event = h.event
               PROVE  k.sequence < h.sequence
    BY <1>2 DEF FlushedLast, Moves
  <2>1. CASE h \in req[t].mine /\ req[t] # Idle
    BY <2>1 DEF AnomaliesInv, FlushedLast
  <2>2. CASE h = c
    BY <2>2, <1>4, <1>7
  <2>3. CASE t = s
    BY <2>1, <2>2, <2>3, <1>1, <1>2, <1>8, <1>11, <1>12
  <2>4. CASE t # s
    BY <2>1, <2>4, <1>12
  <2> QED
    BY <2>3, <2>4
<1>18. HistoryEndsInStatus'
  BY <1>2 DEF AnomaliesInv, HistoryEndsInStatus
<1> QED
  BY <1>12, <1>13, <1>14, <1>16, <1>17, <1>18 DEF AnomaliesInv

(* The row after the commit: a well-typed row, whose status is the one       *)
(* requested if the request saw another one, and stays if it saw the same.   *)
LEMMA UpdatedAnomaly ==
  ASSUME NEW row \in AnomalyEvent, NEW current \in AnomalyEvent, NEW v \in AnomalyStatus
  PROVE  /\ Updated(current, row, v) \in AnomalyEvent
         /\ Updated(current, row, v).status = IF v = row.status THEN current.status ELSE v
<1>1. PICK b, c : /\ b = (v = "RESOLVED" \/ (row.resolved /\ v # "OPEN"))
                  /\ c = IF v = "RESOLVED" THEN TRUE
                         ELSE Column(current.resolved, row.resolved, b)
  OBVIOUS
<1>2. current.resolved \in BOOLEAN /\ current.status \in AnomalyStatus
  BY DEF AnomalyEvent
<1>3. b \in BOOLEAN
  BY <1>1
<1>4. c \in BOOLEAN
  BY <1>1, <1>2, <1>3 DEF Column
<1>5. PICK w : w = IF v = row.status THEN current.status ELSE v
  OBVIOUS
<1>6. Updated(current, row, v) = [status |-> w, resolved |-> c]
  BY <1>1, <1>5 DEF Updated, Assigned, Column
<1>7. w \in AnomalyStatus
  BY <1>2, <1>5
<1> HIDE <1>1
<1>8. [status |-> w, resolved |-> c] \in AnomalyEvent
  BY <1>4, <1>7 DEF AnomalyEvent
<1> QED
  BY <1>5, <1>6, <1>8

(* The commit: a transition is the last one recorded for its row. *)
LEMMA UpdateCommitKeeps ==
  ASSUME AnomaliesInv, NEW s \in Sessions, UpdateCommit(s)
  PROVE  AnomaliesInv'
<1>1. PICK q, L : q = req[s] /\ L = Locked(s)
  OBVIOUS
<1>2. /\ req[s] # Idle /\ sequence' = sequence /\ history' = history \cup q.mine
      /\ events' = [e \in Events |-> IF e \in L THEN Updated(events[e], q.loaded[e], q.status)
                                     ELSE events[e]]
  BY <1>1 DEF UpdateCommit
<1>3. /\ q.status \in AnomalyStatus /\ q.loaded \in [Events -> {NULL} \cup AnomalyEvent]
      /\ q.mine \subseteq AnomalyHistoryEntry /\ RequestRecords(s)
  BY <1>1, <1>2, AnomalyRequestUnderWay
<1>4. /\ req'[s] = Idle /\ \A t \in Sessions \ {s} : req'[t] = req[t]
      /\ req' \in [Sessions -> AnomalyRequest \cup {Idle}]
  BY DEF AnomaliesInv, UpdateCommit, Finish, Continue
<1>5. ASSUME NEW e \in Events
      PROVE  /\ events'[e] \in {NULL} \cup AnomalyEvent
             /\ events'[e] = NULL <=> events[e] = NULL
             /\ events[e] # NULL =>
                  events'[e].status = IF e \in L /\ q.status # q.loaded[e].status
                                      THEN q.status ELSE events[e].status
  <2>1. CASE e \notin L
    BY <2>1, <1>2 DEF AnomaliesInv, AnomaliesTypeOK
  <2>2. CASE e \in L
    <3>1. PICK h \in q.mine : h.event = e
      BY <2>2, <1>1, <1>2 DEF Locked, Flushed
    <3>2. q.loaded[e] \in AnomalyEvent /\ events[e] \in AnomalyEvent /\ events[e] # NULL
      <4>1. q.loaded[e] # NULL /\ events[e] # NULL
        BY <3>1, <1>1, <1>2, <1>3 DEF RequestRecords
      <4> QED
        BY <4>1, <1>3 DEF AnomaliesInv, AnomaliesTypeOK
    <3>3. PICK row, cur, v : row = q.loaded[e] /\ cur = events[e] /\ v = q.status
      OBVIOUS
    <3>4. /\ Updated(cur, row, v) \in AnomalyEvent
          /\ Updated(cur, row, v).status = IF v = row.status THEN cur.status ELSE v
      <4>1. row \in AnomalyEvent /\ cur \in AnomalyEvent /\ v \in AnomalyStatus
        BY <3>2, <3>3, <1>3
      <4> HIDE <3>3
      <4> QED
        BY <4>1, UpdatedAnomaly
    <3>5. events'[e] = Updated(cur, row, v)
      BY <2>2, <3>3, <1>2
    <3> QED
      BY <2>2, <3>2, <3>3, <3>4, <3>5, AnomaliesNoRow
  <2> QED
    BY <2>1, <2>2
<1>6. AnomaliesTypeOK' /\ \A h \in history' : h.sequence <= sequence'
  <2>1. events' \in [Events -> {NULL} \cup AnomalyEvent]
    BY <1>2, <1>5
  <2>2. \A h \in q.mine : h.sequence <= sequence
    BY <1>1, <1>2, <1>3 DEF RequestRecords
  <2> QED
    BY <2>1, <2>2, <1>2, <1>3 DEF AnomaliesInv, AnomaliesTypeOK
<1>7. ASSUME NEW t \in Sessions PROVE RequestRecords(t)'
  <2>1. CASE t = s
    BY <2>1, <1>4 DEF RequestRecords
  <2>2. CASE t # s
    <3>1. RequestRecords(t) /\ req'[t] = req[t]
      BY <2>2, <1>4 DEF AnomaliesInv
    <3> QED
      BY <3>1, <1>2, <1>5 DEF RequestRecords
  <2> QED
    BY <2>1, <2>2
<1>8. LocksExclude'
  BY <1>4 DEF AnomaliesInv, LocksExclude
<1>9. FlushedLast'
  <2> SUFFICES ASSUME NEW t \in Sessions, req'[t] # Idle, NEW h \in req'[t].mine,
                      NEW k \in history', Moves(h), Moves(k), k.event = h.event
               PROVE  k.sequence < h.sequence
    BY DEF FlushedLast, Moves
  <2>1. t # s /\ req[t] # Idle /\ h \in req[t].mine
    BY <1>4
  <2>2. k \notin q.mine
    BY <2>1, <1>1, <1>2 DEF AnomaliesInv, LocksExclude
  <2>3. k \in history
    BY <2>2, <1>2
  <2> QED
    BY <2>1, <2>3 DEF AnomaliesInv, FlushedLast
<1>10. HistoryEndsInStatus'
  <2> SUFFICES ASSUME NEW x \in Events, events'[x] # NULL
               PROVE  \E h \in history' :
                        /\ h.event = x /\ Moves(h) /\ h.new = events'[x].status
                        /\ \A k \in history' : k.event = x /\ Moves(k) =>
                             k.sequence <= h.sequence
    BY DEF HistoryEndsInStatus, Moves
  <2>1. events[x] # NULL
    BY <1>5
  <2>2. PICK g \in history : /\ g.event = x /\ Moves(g) /\ g.new = events[x].status
                             /\ \A k \in history : k.event = x /\ Moves(k) =>
                                  k.sequence <= g.sequence
    BY <2>1 DEF AnomaliesInv, HistoryEndsInStatus, Moves
  <2>3. ASSUME NEW h \in q.mine, h.event = x, Moves(h)
        PROVE  \E i \in history' :
                        /\ i.event = x /\ Moves(i) /\ i.new = events'[x].status
                        /\ \A k \in history' : k.event = x /\ Moves(k) =>
                             k.sequence <= i.sequence
    <3>1. x \in L /\ q.loaded[x].status # q.status
      BY <2>3, <1>1, <1>2, TransitionsAreLocked
    <3>2. events'[x].status = q.status
      BY <2>1, <3>1, <1>5
    <3>3. h.new = q.status /\ \A k \in q.mine : k.event = h.event => k = h
      BY <1>1, <1>2, <1>3 DEF RequestRecords
    <3>4. \A k \in history : k.event = x /\ Moves(k) => k.sequence < h.sequence
      BY <2>3, <1>1, <1>2 DEF AnomaliesInv, FlushedLast
    <3>5. h.sequence \in Nat /\ \A k \in history : k.sequence \in Nat
      BY <1>3 DEF AnomaliesInv, AnomaliesTypeOK, AnomalyHistoryEntry
    <3>6. \A k \in history' : k.event = x /\ Moves(k) => k.sequence <= h.sequence
      BY <2>3, <3>3, <3>4, <3>5, <1>2
    <3> QED
      BY <2>3, <3>2, <3>3, <3>6, <1>2
  <2>4. ASSUME \A h \in q.mine : h.event = x => ~Moves(h)
        PROVE  g.new = events'[x].status
    <3>1. CASE x \in L
      <4>1. PICK h \in q.mine : h.event = x
        BY <3>1, <1>1, <1>2 DEF Locked, Flushed
      <4>2. q.loaded[x].status = q.status
        BY <2>4, <4>1, <1>1, <1>2, <1>3 DEF RequestRecords, Moves
      <4> QED
        BY <2>1, <2>2, <4>2, <1>5
    <3>2. CASE x \notin L
      BY <2>1, <2>2, <3>2, <1>5
    <3> QED
      BY <3>1, <3>2
  <2> QED
    BY <2>2, <2>3, <2>4, <1>2
<1> QED
  BY <1>4, <1>6, <1>7, <1>8, <1>9, <1>10 DEF AnomaliesInv

LEMMA AnomaliesStart ==
  RequestsInit /\ AnomaliesInit => AnomaliesInv
BY DEF RequestsInit, AnomaliesInit, AnomaliesInv, AnomaliesTypeOK, RequestRecords,
       LocksExclude, FlushedLast, HistoryEndsInStatus

LEMMA AnomaliesStep ==
  AnomaliesInv /\ [AnomaliesNext]_<<reqVars, anomalyTables>> => AnomaliesInv'
<1> SUFFICES ASSUME AnomaliesInv, [AnomaliesNext]_<<reqVars, anomalyTables>>
             PROVE  AnomaliesInv'
  OBVIOUS
<1>1. CASE UNCHANGED <<reqVars, anomalyTables>>
  BY <1>1 DEF reqVars, anomalyTables, AnomaliesInv, AnomaliesTypeOK, RequestRecords,
              LocksExclude, FlushedLast, HistoryEndsInStatus, Moves
<1>2. ASSUME NEW s \in Sessions, DeadlockAbort(s) \/ (Abort(s) /\ UNCHANGED anomalyTables)
      PROVE  AnomaliesInv'
  BY <1>2, UpdateFails DEF DeadlockAbort, Abort
<1> QED
  BY <1>1, <1>2, create_anomaly_event_keeps, update_anomaly_status_keeps,
     bulk_update_anomaly_status_keeps, append_anomaly_audit_keeps, UpdateCommitKeeps
  DEF AnomaliesNext

(* Whatever overlaps, fails or deadlocks, the status of an anomaly is the    *)
(* one the last transition of its history ended in: update_anomaly_status    *)
(* flushes the row before it appends the entry, and so holds the row's lock  *)
(* while the entry takes its sequence number.                                *)
THEOREM StatusIsEndOfHistory == AnomaliesSpec => []HistoryEndsInStatus
<1>1. AnomaliesInv => HistoryEndsInStatus
  BY DEF AnomaliesInv
<1> QED
  BY <1>1, AnomaliesStart, AnomaliesStep, PTL DEF AnomaliesSpec

(* The rank of an entry among finitely many with distinct sequences. *)
LEMMA RankOrders ==
  ASSUME NEW H, H \subseteq AnomalyHistoryEntry, IsFiniteSet(H)
  PROVE  /\ Cardinality(H) \in Nat
         /\ \A h \in H : Rank(H, h) \in Nat /\ Rank(H, h) < Cardinality(H)
         /\ \A h, k \in H : h.sequence < k.sequence => Rank(H, h) < Rank(H, k)
<1> DEFINE B(h) == {k \in H : k.sequence < h.sequence}
<1>1. \A h \in H : h.sequence \in Nat
  BY DEF AnomalyHistoryEntry
<1>2. Cardinality(H) \in Nat
  BY FS_CardinalityType
<1>3. ASSUME NEW h \in H
      PROVE  /\ IsFiniteSet(B(h)) /\ Cardinality(B(h)) \in Nat
             /\ IsFiniteSet(B(h) \cup {h}) /\ Cardinality(B(h) \cup {h}) = Cardinality(B(h)) + 1
  <2>1. B(h) \in SUBSET H /\ h \notin B(h)
    BY <1>1
  <2>2. IsFiniteSet(B(h))
    BY <2>1, FS_Subset
  <2> HIDE DEF B
  <2> QED
    BY <2>1, <2>2, FS_CardinalityType, FS_AddElement
<1>4. ASSUME NEW h \in H
      PROVE  Cardinality(B(h)) < Cardinality(H)
  <2>1. B(h) \cup {h} \in SUBSET H
    OBVIOUS
  <2>2. Cardinality(B(h) \cup {h}) <= Cardinality(H)
    BY <2>1, FS_Subset
  <2> HIDE DEF B
  <2> QED
    BY <1>2, <1>3, <2>2
<1>5. ASSUME NEW h \in H, NEW k \in H, h.sequence < k.sequence
      PROVE  Cardinality(B(h)) < Cardinality(B(k))
  <2>1. B(h) \cup {h} \in SUBSET B(k)
    BY <1>1, <1>5
  <2>2. Cardinality(B(h) \cup {h}) <= Cardinality(B(k))
    <3> HIDE DEF B
    <3> QED
      BY <2>1, <1>3, FS_Subset
  <2>3. /\ Cardinality(B(h)) \in Nat /\ Cardinality(B(k)) \in Nat
        /\ Cardinality(B(h) \cup {h}) = Cardinality(B(h)) + 1
    BY <1>3
  <2> HIDE DEF B
  <2> QED
    BY <2>2, <2>3
<1> QED
  BY <1>2, <1>3, <1>4, <1>5 DEF Rank

(* Entries with distinct sequences are enumerated by their ranks. *)
LEMMA RankEnumerates ==
  ASSUME NEW H, H \subseteq AnomalyHistoryEntry, IsFiniteSet(H),
         \A h, k \in H : h.sequence = k.sequence => h = k,
         NEW q, q = BySequence(H)
  PROVE  /\ DOMAIN q = 1..Cardinality(H)
         /\ \A i \in 1..Cardinality(H) : q[i] \in H /\ Rank(H, q[i]) = i - 1
         /\ \A h \in H : Rank(H, h) + 1 \in 1..Cardinality(H) /\ q[Rank(H, h) + 1] = h
<1> DEFINE n == Cardinality(H)
           f == [h \in H |-> Rank(H, h) + 1]
<1>1. /\ n \in Nat
      /\ \A h \in H : Rank(H, h) \in Nat /\ Rank(H, h) < n /\ h.sequence \in Nat
      /\ \A h, k \in H : h.sequence < k.sequence => Rank(H, h) < Rank(H, k)
  BY RankOrders DEF AnomalyHistoryEntry
<1>2. \A h, k \in H : Rank(H, h) = Rank(H, k) => h = k
  <2> SUFFICES ASSUME NEW h \in H, NEW k \in H, h # k PROVE Rank(H, h) # Rank(H, k)
    OBVIOUS
  <2>1. h.sequence < k.sequence \/ k.sequence < h.sequence
    BY <1>1
  <2> QED
    BY <1>1, <2>1
<1>3. f \in Injection(H, 1..n)
  <2>1. f \in [H -> 1..n]
    BY <1>1
  <2>2. \A h, k \in H : f[h] = f[k] => h = k
    BY <1>1, <1>2
  <2> QED
    BY <2>1, <2>2 DEF Injection, IsInjective
<1>4. IsFiniteSet(1..n) /\ Cardinality(1..n) = n
  <2>1. 1 \in Int /\ n \in Int
    BY <1>1
  <2>2. /\ IsFiniteSet(1..n)
        /\ Cardinality(1..n) = IF 1 > n THEN 0 ELSE n - 1 + 1
    BY <2>1, FS_Interval
  <2> HIDE DEF n
  <2> QED
    BY <2>2, <1>1
<1>5. f \in Surjection(H, 1..n)
  BY <1>3, <1>4, FS_Injection
<1>6. \A i \in 1..n : \E h \in H : Rank(H, h) + 1 = i
  BY <1>5 DEF Surjection
<1>7. ASSUME NEW i \in 1..n
      PROVE  q[i] \in H /\ Rank(H, q[i]) = i - 1
  <2>1. PICK h \in H : Rank(H, h) + 1 = i
    BY <1>6
  <2>2. Rank(H, h) = i - 1
    BY <2>1, <1>1
  <2>3. q[i] = CHOOSE x \in H : Rank(H, x) = i - 1
    BY DEF BySequence
  <2> QED
    BY <2>2, <2>3
<1>8. ASSUME NEW h \in H
      PROVE  Rank(H, h) + 1 \in 1..n /\ q[Rank(H, h) + 1] = h
  <2>1. PICK i : i = Rank(H, h) + 1
    OBVIOUS
  <2>2. i \in 1..n /\ Rank(H, h) = i - 1
    BY <1>1, <2>1
  <2>3. q[i] \in H /\ Rank(H, q[i]) = i - 1
    BY <1>7, <2>2
  <2> QED
    BY <1>2, <2>1, <2>2, <2>3
<1> QED
  BY <1>7, <1>8 DEF BySequence

LEMMA SameInterval ==
  ASSUME NEW m \in Nat, NEW n \in Nat, n >= 1, 1..m = 1..n
  PROVE  m = n
<1>1. n \in 1..m
  OBVIOUS
<1>2. m \in 1..n
  BY <1>1
<1> QED
  BY <1>1, <1>2

(* An anomaly's life as get_anomaly_history tells it. *)
LEMMA LifeInOrder ==
  ASSUME NEW H, H \subseteq AnomalyHistoryEntry, NEW row, row # NULL, Life(H, row),
         NEW q, q = BySequence(H)
  PROVE  /\ q # << >> /\ q[1].previous = NULL
         /\ \A i \in 1..(Len(q) - 1) : q[i + 1].previous = q[i].new
         /\ q[Len(q)].new = row.status
<1>1. IsFiniteSet(H) /\ \A h, k \in H : h.sequence = k.sequence => h = k
  BY DEF Life
<1>2. PICK n : n = Cardinality(H)
  OBVIOUS
<1>3. /\ DOMAIN q = 1..n
      /\ \A i \in 1..n : q[i] \in H /\ Rank(H, q[i]) = i - 1
      /\ \A h \in H : Rank(H, h) + 1 \in 1..n /\ q[Rank(H, h) + 1] = h
  BY <1>1, <1>2, RankEnumerates
<1>4. /\ n \in Nat
      /\ \A h \in H : Rank(H, h) \in Nat /\ Rank(H, h) < n /\ h.sequence \in Nat
      /\ \A h, k \in H : h.sequence < k.sequence => Rank(H, h) < Rank(H, k)
  BY <1>1, <1>2, RankOrders DEF AnomalyHistoryEntry
<1>5. PICK first \in H : first.previous = NULL /\ \A k \in H : first.sequence <= k.sequence
  BY DEF Life
<1>6. PICK latest \in H : latest.new = row.status /\ \A k \in H : k.sequence <= latest.sequence
  BY DEF Life
<1>7. n >= 1 /\ 1 \in 1..n /\ n \in 1..n
  BY <1>4, <1>5
<1>8. Len(q) = n /\ q \in Seq(H) /\ q # << >>
  <2>1. q \in [1..n -> H]
    BY <1>2, <1>3 DEF BySequence
  <2>2. q \in Seq(H)
    BY <1>4, <2>1, SeqDef
  <2>3. Len(q) = n
    <3>1. PICK m : m = Len(q)
      OBVIOUS
    <3>2. m \in Nat /\ 1..m = 1..n
      BY <2>1, <2>2, <3>1, LenProperties
    <3> QED
      BY <1>4, <1>7, <3>1, <3>2, SameInterval
  <2>4. ASSUME q = << >> PROVE FALSE
    <3>1. DOMAIN q = {}
      BY <2>4
    <3> QED
      BY <1>3, <1>7, <3>1
  <2> QED
    BY <2>2, <2>3, <2>4
<1>9. \A h, k \in H : Rank(H, h) < Rank(H, k) => h.sequence < k.sequence
  BY <1>1, <1>4
<1>10. q[1] = first
  <2>1. Rank(H, q[1]) = 0 /\ q[1] \in H
    BY <1>3, <1>7
  <2>2. ~(first.sequence < q[1].sequence)
    BY <2>1, <1>4
  <2> QED
    BY <1>1, <1>4, <1>5, <2>1, <2>2
<1>11. q[n] = latest
  <2>1. Rank(H, q[n]) = n - 1 /\ q[n] \in H
    BY <1>3, <1>7
  <2>2. ~(q[n].sequence < latest.sequence)
    BY <2>1, <1>4
  <2> QED
    BY <1>1, <1>4, <1>6, <2>1, <2>2
<1>12. ASSUME NEW i \in 1..(n - 1)
       PROVE  q[i + 1].previous = q[i].new
  <2>1. i \in 1..n /\ i + 1 \in 1..n /\ i \in Nat
    BY <1>4
  <2>2. PICK h, k : h = q[i] /\ k = q[i + 1]
    OBVIOUS
  <2>3. h \in H /\ k \in H /\ Rank(H, h) = i - 1 /\ Rank(H, k) = i
    <3>1. k \in H /\ Rank(H, k) = (i + 1) - 1
      BY <1>3, <2>1, <2>2
    <3>2. (i + 1) - 1 = i
      BY <2>1
    <3> QED
      BY <1>3, <2>1, <2>2, <3>1, <3>2
  <2>4. h.sequence < k.sequence
    BY <1>9, <2>1, <2>3
  <2>5. ASSUME NEW x \in H, h.sequence < x.sequence, x.sequence < k.sequence
        PROVE  FALSE
    <3>1. i - 1 < Rank(H, x) /\ Rank(H, x) < i /\ Rank(H, x) \in Nat
      BY <1>4, <2>3, <2>5
    <3> QED
      BY <3>1, <2>1
  <2>6. ~(h.sequence >= k.sequence)
    BY <2>3, <2>4, <1>4
  <2> QED
    BY <2>2, <2>3, <2>5, <2>6 DEF Life
<1> QED
  BY <1>5, <1>6, <1>8, <1>10, <1>11, <1>12

(* A later entry that starts where the last one ended continues a life. *)
LEMMA LifeContinues ==
  ASSUME NEW H, H \subseteq AnomalyHistoryEntry, NEW row, row # NULL, Life(H, row),
         NEW x \in AnomalyHistoryEntry, x.previous = row.status,
         \A h \in H : h.sequence < x.sequence,
         NEW row2, row2 # NULL, row2.status = x.new,
         row2.status = "RESOLVED" => row2.resolved, row2.status = "OPEN" => ~row2.resolved
  PROVE  Life(H \cup {x}, row2)
<1>1. x.sequence \in Nat /\ \A h \in H : h.sequence \in Nat
  BY DEF AnomalyHistoryEntry
<1>2. IsFiniteSet(H \cup {x})
  BY FS_AddElement DEF Life
<1>3. \A h, k \in H \cup {x} : h.sequence = k.sequence => h = k
  BY <1>1 DEF Life
<1>4. \E h \in H \cup {x} : h.previous = NULL /\ \A k \in H \cup {x} : h.sequence <= k.sequence
  BY <1>1 DEF Life
<1>5. \E h \in H \cup {x} : h.new = row2.status /\ \A k \in H \cup {x} : k.sequence <= h.sequence
  BY <1>1
<1>6. ASSUME NEW h \in H \cup {x}, NEW k \in H \cup {x}
      PROVE  \/ h.sequence >= k.sequence
             \/ \E y \in H \cup {x} : h.sequence < y.sequence /\ y.sequence < k.sequence
             \/ k.previous = h.new
  <2>1. CASE h = x
    BY <2>1, <1>1
  <2>2. CASE h \in H /\ k \in H
    BY <2>2 DEF Life
  <2>3. CASE h \in H /\ k = x
    <3>1. PICK g \in H : g.new = row.status /\ \A y \in H : y.sequence <= g.sequence
      BY DEF Life
    <3>2. CASE h.sequence = g.sequence
      <4>1. h = g
        BY <2>3, <3>2 DEF Life
      <4> QED
        BY <2>3, <3>1, <4>1
    <3>3. CASE h.sequence < g.sequence
      BY <2>3, <3>3
    <3> QED
      BY <1>1, <2>3, <3>1, <3>2, <3>3
  <2> QED
    BY <2>1, <2>2, <2>3
<1> QED
  BY <1>2, <1>3, <1>4, <1>5, <1>6 DEF Life

(* The creation begins a life. *)
LEMMA LifeStarts ==
  ASSUME NEW x \in AnomalyHistoryEntry, x.previous = NULL,
         NEW row, row # NULL, row.status = x.new, x.new = "OPEN", ~row.resolved
  PROVE  Life({x}, row)
<1>1. IsFiniteSet({x})
  BY FS_Singleton
<1>2. x.sequence \in Nat
  BY DEF AnomalyHistoryEntry
<1> QED
  BY <1>1, <1>2 DEF Life

(* A request that begins has loaded the rows as they are. *)
LEMMA LifeBegins ==
  ASSUME AnomaliesInv', LifeInv, NEW s \in Sessions, NEW r, Begin(s, r), r # Idle,
         r.loaded = events, r.mine = {}, UNCHANGED anomalyTables
  PROVE  LifeInv'
<1>1. req'[s] = r
  BY DEF Begin, LifeInv, RequestsOf
<1>2. r \in AnomalyRequest
  BY <1>1 DEF AnomaliesInv
<1>3. /\ RequestsOf(AnomalyRequest)' /\ OneRequest'
      /\ \A t \in Sessions \ {s} : req'[t] = req[t]
      /\ ~overlapped' => ~overlapped /\ \A t \in Sessions : req[t] = Idle
  BY <1>2, Begins DEF LifeInv
<1>4. events' = events /\ history' = history
  BY DEF anomalyTables
<1>5. \A e \in Events : Entries(e)' = Entries(e)
  BY <1>4 DEF Entries
<1> QED
  BY <1>1, <1>3, <1>4, <1>5 DEF LifeInv

(* A request that fails leaves no trace. *)
LEMMA LifeFails ==
  ASSUME LifeInv, NEW s \in Sessions, req[s] # Idle, Finish(s), UNCHANGED anomalyTables
  PROVE  LifeInv'
<1>1. /\ RequestsOf(AnomalyRequest)' /\ OneRequest'
      /\ req'[s] = Idle /\ \A t \in Sessions \ {s} : req'[t] = req[t]
      /\ overlapped' = overlapped
  BY Continues DEF LifeInv, Finish
<1>2. events' = events /\ history' = history
  BY DEF anomalyTables
<1>3. \A e \in Events : Entries(e)' = Entries(e)
  BY <1>2 DEF Entries
<1> QED
  BY <1>1, <1>2, <1>3 DEF LifeInv

(* An entry is flushed after everything that is committed. *)
LEMMA LifeFlushes ==
  ASSUME AnomaliesInv, AnomaliesInv', LifeInv, NEW s \in Sessions, append_anomaly_audit(s)
  PROVE  LifeInv'
<1>1. PICK q, c : q = req[s] /\ c = audit_metadata(s, Head(req[s].todo))
  OBVIOUS
<1>2. PICK r : r = [q EXCEPT !.todo = Tail(@), !.mine = @ \cup {c}]
  OBVIOUS
<1>3. req[s] # Idle /\ Continue(s, r) /\ events' = events /\ history' = history
  BY <1>1, <1>2 DEF append_anomaly_audit
<1>4. q \in AnomalyRequest
  BY <1>1, <1>3, AnomalyRequestUnderWay
<1>5. r.loaded = q.loaded /\ r.mine = q.mine \cup {c}
  BY <1>2, <1>4 DEF AnomalyRequest
<1>6. req'[s] = r
  BY <1>3 DEF Continue, LifeInv, RequestsOf
<1>7. r \in AnomalyRequest \cup {Idle}
  BY <1>6 DEF AnomaliesInv
<1>8. /\ RequestsOf(AnomalyRequest)' /\ OneRequest'
      /\ \A t \in Sessions \ {s} : req'[t] = req[t]
      /\ overlapped' = overlapped
  BY <1>3, <1>7, Continues DEF LifeInv
<1>9. \A k \in history : k.sequence < c.sequence
  <2>1. c.sequence = sequence + 1
    BY <1>1 DEF audit_metadata
  <2> QED
    BY <2>1 DEF AnomaliesInv, AnomaliesTypeOK, AnomalyHistoryEntry
<1>10. \A e \in Events : Entries(e)' = Entries(e)
  BY <1>3 DEF Entries
<1>11. ASSUME ~overlapped'
       PROVE  \A e \in Events : Life(Entries(e), events[e])'
  BY <1>3, <1>8, <1>10, <1>11 DEF LifeInv
<1>12. ASSUME ~overlapped', NEW t \in Sessions, req'[t] # Idle
       PROVE  /\ req'[t].loaded = events
              /\ \A h \in req'[t].mine, k \in history : k.sequence < h.sequence
  <2>1. CASE t = s
    <3>1. q.loaded = events /\ \A h \in q.mine, k \in history : k.sequence < h.sequence
      BY <1>1, <1>3, <1>8, <1>12 DEF LifeInv
    <3> QED
      BY <2>1, <3>1, <1>5, <1>6, <1>9
  <2>2. CASE t # s
    BY <2>2, <1>8, <1>12 DEF LifeInv
  <2> QED
    BY <2>1, <2>2
<1> QED
  BY <1>3, <1>8, <1>11, <1>12 DEF LifeInv

(* An anomaly is created while nothing else is under way. *)
LEMMA LifeCreates ==
  ASSUME AnomaliesInv, AnomaliesInv', LifeInv, NEW s \in Sessions, NEW e \in Events,
         create_anomaly_event(s, e)
  PROVE  LifeInv'
<1>1. /\ RequestsOf(AnomalyRequest)' /\ OneRequest' /\ req' = req
      /\ ~overlapped' => ~overlapped /\ \A t \in Sessions : req[t] = Idle
  BY Instants DEF LifeInv, create_anomaly_event
<1> SUFFICES ASSUME ~overlapped', NEW x \in Events
             PROVE  Life(Entries(x), events[x])'
  BY <1>1 DEF LifeInv
<1>2. PICK row, c : /\ row = [status |-> "OPEN", resolved |-> FALSE]
                    /\ c = [sequence |-> sequence + 1, event |-> e, previous |-> NULL,
                            new |-> "OPEN"]
  OBVIOUS
<1>3. /\ history' = history \cup {c} /\ events[e] = NULL
      /\ events' = [events EXCEPT ![e] = row]
  BY <1>2 DEF create_anomaly_event
<1>4. c \in AnomalyHistoryEntry
  BY <1>2 DEF AnomalyHistoryEntry, AnomaliesInv, AnomaliesTypeOK, AnomalyStatus
<1>5. c.event = e /\ c.previous = NULL /\ c.new = "OPEN"
  BY <1>2
<1>6. row.status = "OPEN" /\ ~row.resolved
  BY <1>2
<1>7. CASE x = e
  <2>1. events'[x] = row
    BY <1>3, <1>7 DEF AnomaliesInv, AnomaliesTypeOK
  <2>2. Entries(x) = {}
    BY <1>1, <1>3, <1>7 DEF LifeInv, Life
  <2>3. Entries(x)' = {c}
    BY <1>3, <1>5, <1>7, <2>2 DEF Entries
  <2>4. row # NULL
    <3>1. row.status = "OPEN" /\ row = [status |-> "OPEN", resolved |-> FALSE]
      BY <1>2
    <3>2. row \in AnomalyEvent
      <4>1. PICK b \in BOOLEAN : b = FALSE
        OBVIOUS
      <4>2. row = [status |-> "OPEN", resolved |-> b]
        BY <3>1, <4>1
      <4> HIDE <4>1
      <4> QED
        BY <4>2 DEF AnomalyEvent, AnomalyStatus
    <3> QED
      BY <3>2, AnomaliesNoRow
  <2>5. Life({c}, row)
    BY <1>4, <1>5, <1>6, <2>4, LifeStarts
  <2> QED
    BY <2>1, <2>3, <2>5
<1>8. CASE x # e
  <2>1. events'[x] = events[x]
    BY <1>3, <1>8 DEF AnomaliesInv, AnomaliesTypeOK
  <2>2. Entries(x)' = Entries(x)
    BY <1>3, <1>5, <1>8 DEF Entries
  <2> QED
    BY <1>1, <2>1, <2>2 DEF LifeInv
<1> QED
  BY <1>7, <1>8

(* A row that was loaded as it is: the flags after the update. *)
LEMMA UpdatedFlags ==
  ASSUME NEW row \in AnomalyEvent, NEW v \in AnomalyStatus, NEW new, new = Updated(row, row, v)
  PROVE  /\ new.status = v
         /\ v = "RESOLVED" => new.resolved
         /\ v = "OPEN" => ~new.resolved
<1>1. row.resolved \in BOOLEAN
  BY DEF AnomalyEvent
<1>2. new.status = v
  BY DEF Updated, Column
<1>3. v = "RESOLVED" => new.resolved = TRUE
  BY DEF Updated
<1>4. ASSUME v = "OPEN" PROVE ~new.resolved
  <2>1. Assigned(row, v).resolved = FALSE
    BY <1>4 DEF Assigned
  <2>2. new.resolved = Column(row.resolved, row.resolved, FALSE)
    BY <1>4, <2>1 DEF Updated
  <2> QED
    BY <1>1, <2>2 DEF Column
<1> QED
  BY <1>2, <1>3, <1>4

(* A row that there was nothing to write for has the requested status. *)
LEMMA CleanRow ==
  ASSUME NEW row, NEW v, ~Dirty(row, v)
  PROVE  row.status = v
<1>1. Assigned(row, v) = row /\ Assigned(row, v).status = v
  BY DEF Dirty, Assigned
<1> QED
  BY <1>1

(* The commit continues the life of every row the request flushed. *)
LEMMA LifeCommits ==
  ASSUME AnomaliesInv, LifeInv, NEW s \in Sessions, UpdateCommit(s)
  PROVE  LifeInv'
<1>1. PICK q, L : q = req[s] /\ L = Locked(s)
  OBVIOUS
<1>2. /\ req[s] # Idle /\ history' = history \cup q.mine
      /\ events' = [e \in Events |-> IF e \in L THEN Updated(events[e], q.loaded[e], q.status)
                                     ELSE events[e]]
  BY <1>1 DEF UpdateCommit
<1>3. /\ RequestsOf(AnomalyRequest)' /\ OneRequest'
      /\ req'[s] = Idle /\ \A t \in Sessions \ {s} : req'[t] = req[t]
      /\ overlapped' = overlapped
      /\ ~overlapped => \A t \in Sessions \ {s} : req[t] = Idle
  BY <1>2, Continues DEF LifeInv, UpdateCommit, Finish
<1> SUFFICES ASSUME ~overlapped', NEW x \in Events
             PROVE  Life(Entries(x), events[x])'
  BY <1>3 DEF LifeInv
<1>4. /\ q.loaded = events /\ \A h \in q.mine, k \in history : k.sequence < h.sequence
      /\ Life(Entries(x), events[x])
  BY <1>1, <1>2, <1>3 DEF LifeInv
<1>5. /\ q.status \in AnomalyStatus /\ q.mine \subseteq AnomalyHistoryEntry /\ RequestRecords(s)
      /\ events[x] \in {NULL} \cup AnomalyEvent
      /\ Entries(x) \subseteq AnomalyHistoryEntry
  BY <1>1, <1>2, AnomalyRequestUnderWay DEF AnomaliesInv, AnomaliesTypeOK, Entries
<1>6. CASE \A h \in q.mine : h.event # x
  <2>1. x \notin L
    BY <1>1, <1>2, <1>6 DEF Locked, Flushed
  <2>2. Entries(x)' = Entries(x) /\ events'[x] = events[x]
    BY <1>2, <1>6, <2>1 DEF Entries
  <2> QED
    BY <1>4, <2>2
<1>7. ASSUME NEW h \in q.mine, h.event = x
      PROVE  Life(Entries(x), events[x])'
  <2>1. /\ events[x] # NULL /\ h.previous = events[x].status /\ h.new = q.status
        /\ \A k \in q.mine : k.event = x => k = h
    BY <1>1, <1>2, <1>4, <1>5, <1>7 DEF RequestRecords
  <2>2. Entries(x)' = Entries(x) \cup {h}
    BY <1>2, <1>7, <2>1 DEF Entries
  <2>3. PICK row, new, v : row = events[x] /\ new = events'[x] /\ v = q.status
    OBVIOUS
  <2>4. /\ row \in AnomalyEvent /\ v \in AnomalyStatus
        /\ row.status = "RESOLVED" => row.resolved
        /\ row.status = "OPEN" => ~row.resolved
    BY <1>4, <1>5, <2>1, <2>3 DEF Life
  <2>5. /\ new # NULL /\ new.status = h.new
        /\ new.status = "RESOLVED" => new.resolved
        /\ new.status = "OPEN" => ~new.resolved
    <3>1. CASE x \in L
      <4>1. new = Updated(row, row, v)
        BY <1>2, <1>4, <2>3, <3>1
      <4>2. new \in AnomalyEvent
        BY <2>4, <4>1, UpdatedAnomaly
      <4>3. new.status = v /\ (v = "RESOLVED" => new.resolved) /\ (v = "OPEN" => ~new.resolved)
        BY <2>4, <4>1, UpdatedFlags
      <4> QED
        BY <2>1, <2>3, <4>2, <4>3, AnomaliesNoRow
    <3>2. CASE x \notin L
      <4>1. new = row
        BY <1>2, <2>3, <3>2
      <4>2. ~Dirty(row, v)
        BY <1>1, <1>2, <1>4, <1>7, <2>3, <3>2 DEF Locked, Flushed
      <4>3. row.status = v
        BY <4>2, CleanRow
      <4> QED
        BY <2>1, <2>3, <2>4, <4>1, <4>3
    <3> QED
      BY <3>1, <3>2
  <2>6. \A k \in Entries(x) : k.sequence < h.sequence
    BY <1>4 DEF Entries
  <2>7. PICK H : H = Entries(x)
    OBVIOUS
  <2>8. Life(H \cup {h}, new)
    <3>1. row # NULL /\ Life(H, row) /\ H \subseteq AnomalyHistoryEntry
      BY <1>4, <1>5, <2>1, <2>3, <2>7
    <3>2. h \in AnomalyHistoryEntry /\ h.previous = row.status /\ \A k \in H : k.sequence < h.sequence
      BY <1>5, <2>1, <2>3, <2>6, <2>7
    <3> HIDE <2>3, <2>7
    <3> QED
      BY <2>5, <3>1, <3>2, LifeContinues
  <2> QED
    BY <2>2, <2>3, <2>7, <2>8
<1> QED
  BY <1>6, <1>7

LEMMA LifeStep ==
  ASSUME AnomaliesInv, LifeInv, [AnomaliesNext]_<<reqVars, anomalyTables>>
  PROVE  LifeInv'
<1> AnomaliesInv'
  BY AnomaliesStep
<1>1. CASE UNCHANGED <<reqVars, anomalyTables>>
  BY <1>1 DEF reqVars, anomalyTables, LifeInv, RequestsOf, OneRequest, Entries
<1>2. ASSUME NEW s \in Sessions, NEW e \in Events, NEW v \in AnomalyStatus,
             update_anomaly_status(s, e, v)
      PROVE  LifeInv'
  <2>1. PICK r : r = [op |-> "update", status |-> v, todo |-> <<e>>, loaded |-> events, mine |-> {}]
    OBVIOUS
  <2>2. Begin(s, r) /\ UNCHANGED anomalyTables
    BY <1>2, <2>1 DEF update_anomaly_status
  <2>3. r # Idle /\ r.loaded = events /\ r.mine = {}
    BY <2>1 DEF Idle
  <2> QED
    BY <2>2, <2>3, LifeBegins
<1>3. ASSUME NEW s \in Sessions, NEW E \in SUBSET Events, NEW v \in {"INVESTIGATING", "RESOLVED"},
             bulk_update_anomaly_status(s, E, v)
      PROVE  LifeInv'
  <2>1. PICK q : Begin(s, [op |-> "update", status |-> v, todo |-> q, loaded |-> events, mine |-> {}])
    BY <1>3 DEF bulk_update_anomaly_status
  <2>2. PICK r : r = [op |-> "update", status |-> v, todo |-> q, loaded |-> events, mine |-> {}]
    OBVIOUS
  <2>3. Begin(s, r) /\ UNCHANGED anomalyTables
    BY <1>3, <2>1, <2>2 DEF bulk_update_anomaly_status
  <2>4. r # Idle /\ r.loaded = events /\ r.mine = {}
    BY <2>2 DEF Idle
  <2> QED
    BY <2>3, <2>4, LifeBegins
<1>4. ASSUME NEW s \in Sessions, DeadlockAbort(s) \/ (Abort(s) /\ UNCHANGED anomalyTables)
      PROVE  LifeInv'
  <2>1. DeadlockAbort(s) => req[s] # Idle
    BY DEF DeadlockAbort, WaitsFor
  <2> QED
    BY <1>4, <2>1, LifeFails DEF DeadlockAbort, Abort
<1> QED
  BY <1>1, <1>2, <1>3, <1>4, LifeCreates, LifeFlushes, LifeCommits DEF AnomaliesNext

LEMMA LifeStart ==
  ASSUME RequestsInit, AnomaliesInit
  PROVE  LifeInv
<1>1. RequestsOf(AnomalyRequest) /\ OneRequest /\ \A s \in Sessions : req[s] = Idle
  BY RequestsStart
<1>2. \A e \in Events : events[e] = NULL /\ Entries(e) = {}
  BY DEF AnomaliesInit, Entries
<1> QED
  BY <1>1, <1>2 DEF LifeInv, Life

LEMMA LifeToldInOrder ==
  ASSUME AnomaliesInv, LifeInv
  PROVE  HistoryChainsIfSerial
<1> SUFFICES ASSUME ~overlapped, NEW e \in Events, events[e] # NULL
             PROVE  LET q == get_anomaly_history(e)
                    IN  /\ q # << >> /\ q[1].previous = NULL
                        /\ \A i \in 1..(Len(q) - 1) : q[i + 1].previous = q[i].new
                        /\ q[Len(q)].new = events[e].status
                        /\ events[e].status = "RESOLVED" => events[e].resolved
                        /\ events[e].status = "OPEN" => ~events[e].resolved
  BY DEF HistoryChainsIfSerial
<1>1. Life(Entries(e), events[e]) /\ Entries(e) \subseteq AnomalyHistoryEntry
  BY DEF LifeInv, AnomaliesInv, AnomaliesTypeOK, Entries
<1>2. PICK q, H, row : q = get_anomaly_history(e) /\ H = Entries(e) /\ row = events[e]
  OBVIOUS
<1>3. q = BySequence(H)
  BY <1>2 DEF get_anomaly_history
<1>4. H \subseteq AnomalyHistoryEntry /\ row # NULL /\ Life(H, row)
  BY <1>1, <1>2
<1>5. /\ q # << >> /\ q[1].previous = NULL
      /\ \A i \in 1..(Len(q) - 1) : q[i + 1].previous = q[i].new
      /\ q[Len(q)].new = row.status
  BY <1>3, <1>4, LifeInOrder
<1>6. /\ row.status = "RESOLVED" => row.resolved
      /\ row.status = "OPEN" => ~row.resolved
  BY <1>4 DEF Life
<1> QED
  BY <1>2, <1>5, <1>6

(* As long as requests do not overlap, get_anomaly_history returns the whole *)
(* life of an anomaly: it starts with the creation, every entry starts from  *)
(* the status the one before it ended in, the last one ends in the status of *)
(* the row, and resolved_at is set and cleared with it.                      *)
THEOREM SerialHistoryIsTheLife == AnomaliesSpec => []HistoryChainsIfSerial
<1>1. RequestsInit /\ AnomaliesInit => AnomaliesInv /\ LifeInv
  BY AnomaliesStart, LifeStart
<1>2. AnomaliesInv /\ LifeInv /\ [AnomaliesNext]_<<reqVars, anomalyTables>>
        => AnomaliesInv' /\ LifeInv'
  BY AnomaliesStep, LifeStep
<1>3. AnomaliesInv /\ LifeInv => HistoryChainsIfSerial
  BY LifeToldInOrder
<1> QED
  BY <1>1, <1>2, <1>3, PTL DEF AnomaliesSpec

-----------------------------------------------------------------------------
(* Part 4: the revisions of the schema.                                      *)
(*                                                                           *)
(* The statements of the revisions are compared by their places: 100 times   *)
(* the revision, plus the position in it.                                    *)

Place ==
    [behavioral_baselines |-> 101, certificates |-> 102, compliance_frameworks |-> 103,
     config_parameters |-> 104, crypto_algorithms |-> 105, engine_instances |-> 106,
     hsm_slots |-> 107, incidents |-> 108, schema_validation_results |-> 109,
     tenants |-> 110, users |-> 111, anomaly_events |-> 112, api_endpoint_stats |-> 113,
     audit_log_entries |-> 114, breach_alerts |-> 115, compliance_violations |-> 116,
     config_changes |-> 117, control_mappings |-> 118, etcd_nodes |-> 119,
     master_keys |-> 120, system_metric_samples |-> 121, tenant_backup_snapshots |-> 122,
     tenant_provisioning_jobs |-> 123, tenant_schema_validations |-> 124,
     incident_anomaly_links |-> 125, key_ceremonies |-> 126,
     key_custodian_approvals |-> 127, trg_audit_log_immutable |-> 201,
     oidc_status_fields |-> 301, attestation_runs |-> 401, bigint_sizes |-> 501,
     sequence_identity |-> 601, refresh_tokens |-> 701, password_reset_tokens |-> 801,
     tenant_members |-> 802, compliance_assessments |-> 901,
     compliance_score_snapshots |-> 1001, security_providers |-> 1101,
     security_operations |-> 1102, configurations |-> 1201, roles |-> 1301,
     permissions |-> 1302, user_roles |-> 1303, role_permissions |-> 1304,
     notifications |-> 1401, alert_rules |-> 1402, background_jobs |-> 1501,
     application_errors |-> 1502]

(* The positions of the DROP statements in the downgrades. *)
DropPlace ==
    [behavioral_baselines |-> 27, certificates |-> 26, compliance_frameworks |-> 25,
     config_parameters |-> 24, crypto_algorithms |-> 23, engine_instances |-> 22,
     hsm_slots |-> 21, incidents |-> 20, schema_validation_results |-> 19, tenants |-> 18,
     users |-> 17, anomaly_events |-> 16, api_endpoint_stats |-> 15,
     audit_log_entries |-> 14, breach_alerts |-> 13, compliance_violations |-> 12,
     config_changes |-> 11, control_mappings |-> 10, etcd_nodes |-> 9, master_keys |-> 8,
     system_metric_samples |-> 7, tenant_backup_snapshots |-> 6,
     tenant_provisioning_jobs |-> 5, tenant_schema_validations |-> 4,
     incident_anomaly_links |-> 3, key_ceremonies |-> 2, key_custodian_approvals |-> 1,
     trg_audit_log_immutable |-> 1, oidc_status_fields |-> 1, attestation_runs |-> 1,
     bigint_sizes |-> 1, sequence_identity |-> 1, refresh_tokens |-> 1,
     password_reset_tokens |-> 2, tenant_members |-> 1, compliance_assessments |-> 1,
     compliance_score_snapshots |-> 1, security_providers |-> 2, security_operations |-> 1,
     configurations |-> 1, roles |-> 4, permissions |-> 3, user_roles |-> 2,
     role_permissions |-> 1, notifications |-> 2, alert_rules |-> 1, background_jobs |-> 2,
     application_errors |-> 1]

(* The tables that foreign keys refer to. *)
Parents ==
    {"tenants", "engine_instances", "compliance_frameworks", "config_parameters", "hsm_slots",
     "master_keys", "anomaly_events", "incidents", "key_ceremonies", "users", "roles",
     "permissions"}

(* How many statements a revision has. *)
Size == <<27, 1, 1, 1, 1, 1, 1, 2, 1, 1, 2, 1, 4, 2, 2>>

(* The statements of an upgrade are at their places; a foreign key refers to *)
(* the table itself or one made before, which is dropped after it.           *)
Placed(m, up) ==
    /\ DOMAIN up = 1..Size[m]
    /\ \A i \in 1..Size[m] :
          /\ up[i].name \in DOMAIN Place /\ Place[up[i].name] = 100 * m + i
          /\ \A r \in up[i].refs :
                /\ r[1] \in Parents /\ Place[r[1]] <= 100 * m + i
                /\ \/ r[1] = up[i].name \/ Place[r[1]] < 100 * m
                   \/ DropPlace[up[i].name] < DropPlace[r[1]]

(* A downgrade drops what the upgrade made, each object once. *)
DroppedBack(m, up, down) ==
    /\ DOMAIN down = 1..Size[m]
    /\ \A i \in 1..Size[m] :
          /\ DropPlace[down[i]] = i
          /\ \E j \in 1..Size[m] : down[i] = up[j].name
          /\ \E j \in 1..Size[m] : down[j] = up[i].name

LEMMA RefersTo == \A p : CascadeTo(p)[1] = p /\ SetNullTo(p)[1] = p
BY DEF CascadeTo, SetNullTo

LEMMA InitialTables ==
  /\ DOMAIN initial_schema.up = 1..27
  /\ initial_schema.up[1] = Table("behavioral_baselines", {})
  /\ initial_schema.up[2] = Table("certificates", {})
  /\ initial_schema.up[3] = Table("compliance_frameworks", {})
  /\ initial_schema.up[4] = Table("config_parameters", {})
  /\ initial_schema.up[5] = Table("crypto_algorithms", {})
  /\ initial_schema.up[6] = Table("engine_instances", {})
  /\ initial_schema.up[7] = Table("hsm_slots", {})
  /\ initial_schema.up[8] = Table("incidents", {})
  /\ initial_schema.up[9] = Table("schema_validation_results", {})
  /\ initial_schema.up[10] = Table("tenants", {})
  /\ initial_schema.up[11] = Table("users", {})
  /\ initial_schema.up[12] = Table("anomaly_events", {SetNullTo("tenants")})
  /\ initial_schema.up[13] = Table("api_endpoint_stats", {CascadeTo("engine_instances")})
  /\ initial_schema.up[14] = Table("audit_log_entries", {SetNullTo("tenants")})
  /\ initial_schema.up[15] = Table("breach_alerts", {SetNullTo("tenants")})
  /\ initial_schema.up[16] = Table("compliance_violations",
                                {CascadeTo("compliance_frameworks"), SetNullTo("tenants")})
  /\ initial_schema.up[17] = Table("config_changes", {CascadeTo("config_parameters")})
  /\ initial_schema.up[18] = Table("control_mappings", {CascadeTo("compliance_frameworks")})
  /\ initial_schema.up[19] = Table("etcd_nodes", {CascadeTo("engine_instances")})
  /\ initial_schema.up[20] = Table("master_keys",
                                {SetNullTo("hsm_slots"), SetNullTo("master_keys")})
  /\ initial_schema.up[21] = Table("system_metric_samples", {CascadeTo("engine_instances")})
  /\ initial_schema.up[22] = Table("tenant_backup_snapshots", {CascadeTo("tenants")})
  /\ initial_schema.up[23] = Table("tenant_provisioning_jobs", {CascadeTo("tenants")})
  /\ initial_schema.up[24] = Table("tenant_schema_validations", {CascadeTo("tenants")})
  /\ initial_schema.up[25] = Table("incident_anomaly_links",
                                {CascadeTo("anomaly_events"), CascadeTo("incidents")})
  /\ initial_schema.up[26] = Table("key_ceremonies", {CascadeTo("master_keys")})
  /\ initial_schema.up[27] = Table("key_custodian_approvals", {CascadeTo("key_ceremonies")})
<1>1. /\ Len(initial_schema_parents) = 11 /\ Len(initial_schema_children) = 8
      /\ Len(initial_schema_grandchildren) = 8
  BY DEF initial_schema_parents, initial_schema_children, initial_schema_grandchildren, Plain,
     Table
<1> QED
  BY DEF initial_schema, initial_schema_parents, initial_schema_children,
     initial_schema_grandchildren, Plain

LEMMA InitialDrops ==
  /\ DOMAIN initial_schema.down = 1..27
  /\ initial_schema.down[1] = "key_custodian_approvals"
  /\ initial_schema.down[2] = "key_ceremonies"
  /\ initial_schema.down[3] = "incident_anomaly_links"
  /\ initial_schema.down[4] = "tenant_schema_validations"
  /\ initial_schema.down[5] = "tenant_provisioning_jobs"
  /\ initial_schema.down[6] = "tenant_backup_snapshots"
  /\ initial_schema.down[7] = "system_metric_samples"
  /\ initial_schema.down[8] = "master_keys"
  /\ initial_schema.down[9] = "etcd_nodes"
  /\ initial_schema.down[10] = "control_mappings"
  /\ initial_schema.down[11] = "config_changes"
  /\ initial_schema.down[12] = "compliance_violations"
  /\ initial_schema.down[13] = "breach_alerts"
  /\ initial_schema.down[14] = "audit_log_entries"
  /\ initial_schema.down[15] = "api_endpoint_stats"
  /\ initial_schema.down[16] = "anomaly_events"
  /\ initial_schema.down[17] = "users"
  /\ initial_schema.down[18] = "tenants"
  /\ initial_schema.down[19] = "schema_validation_results"
  /\ initial_schema.down[20] = "incidents"
  /\ initial_schema.down[21] = "hsm_slots"
  /\ initial_schema.down[22] = "engine_instances"
  /\ initial_schema.down[23] = "crypto_algorithms"
  /\ initial_schema.down[24] = "config_parameters"
  /\ initial_schema.down[25] = "compliance_frameworks"
  /\ initial_schema.down[26] = "certificates"
  /\ initial_schema.down[27] = "behavioral_baselines"
BY DEF initial_schema, initial_schema_downgrade

LEMMA InitialPlaced == Placed(1, initial_schema.up)
<1> DEFINE up == initial_schema.up
<1> HIDE DEF up
<1>1. \A i \in 1..27 : up[i].name \in DOMAIN Place /\ Place[up[i].name] = 100 + i
  BY InitialTables DEF up, Place, Table
<1>2. \A i \in 1..11 : up[i].refs = {}
  BY InitialTables DEF up, Table
<1>3. /\ \A r \in up[12].refs : r[1] \in {"tenants"}
      /\ \A r \in up[13].refs : r[1] \in {"engine_instances"}
      /\ \A r \in up[14].refs : r[1] \in {"tenants"}
      /\ \A r \in up[15].refs : r[1] \in {"tenants"}
      /\ \A r \in up[16].refs : r[1] \in {"compliance_frameworks", "tenants"}
      /\ \A r \in up[17].refs : r[1] \in {"config_parameters"}
      /\ \A r \in up[18].refs : r[1] \in {"compliance_frameworks"}
      /\ \A r \in up[19].refs : r[1] \in {"engine_instances"}
      /\ \A r \in up[20].refs : r[1] \in {"hsm_slots", "master_keys"}
      /\ \A r \in up[21].refs : r[1] \in {"engine_instances"}
      /\ \A r \in up[22].refs : r[1] \in {"tenants"}
      /\ \A r \in up[23].refs : r[1] \in {"tenants"}
      /\ \A r \in up[24].refs : r[1] \in {"tenants"}
      /\ \A r \in up[25].refs : r[1] \in {"anomaly_events", "incidents"}
      /\ \A r \in up[26].refs : r[1] \in {"master_keys"}
      /\ \A r \in up[27].refs : r[1] \in {"key_ceremonies"}
  BY InitialTables, RefersTo DEF up, Table
<1>4. /\ "anomaly_events" \in Parents /\ Place["anomaly_events"] = 112
      /\ DropPlace["anomaly_events"] = 16
      /\ "compliance_frameworks" \in Parents /\ Place["compliance_frameworks"] = 103
      /\ DropPlace["compliance_frameworks"] = 25
      /\ "config_parameters" \in Parents /\ Place["config_parameters"] = 104
      /\ DropPlace["config_parameters"] = 24
      /\ "engine_instances" \in Parents /\ Place["engine_instances"] = 106
      /\ DropPlace["engine_instances"] = 22
      /\ "hsm_slots" \in Parents /\ Place["hsm_slots"] = 107
      /\ DropPlace["hsm_slots"] = 21
      /\ "incidents" \in Parents /\ Place["incidents"] = 108
      /\ DropPlace["incidents"] = 20
      /\ "key_ceremonies" \in Parents /\ Place["key_ceremonies"] = 126
      /\ DropPlace["key_ceremonies"] = 2
      /\ "master_keys" \in Parents /\ Place["master_keys"] = 120
      /\ DropPlace["master_keys"] = 8
      /\ "tenants" \in Parents /\ Place["tenants"] = 110
      /\ DropPlace["tenants"] = 18
  BY DEF Place, DropPlace, Parents
<1>5. /\ DropPlace[up[12].name] = 16
      /\ DropPlace[up[13].name] = 15
      /\ DropPlace[up[14].name] = 14
      /\ DropPlace[up[15].name] = 13
      /\ DropPlace[up[16].name] = 12
      /\ DropPlace[up[17].name] = 11
      /\ DropPlace[up[18].name] = 10
      /\ DropPlace[up[19].name] = 9
      /\ DropPlace[up[20].name] = 8
      /\ DropPlace[up[21].name] = 7
      /\ DropPlace[up[22].name] = 6
      /\ DropPlace[up[23].name] = 5
      /\ DropPlace[up[24].name] = 4
      /\ DropPlace[up[25].name] = 3
      /\ DropPlace[up[26].name] = 2
      /\ DropPlace[up[27].name] = 1
  BY InitialTables DEF up, Table, DropPlace
<1>6. up[20].name = "master_keys"
  BY InitialTables DEF up, Table
<1>7. DOMAIN up = 1..27 /\ Size[1] = 27
  BY InitialTables DEF up, Size
<1>8. ASSUME NEW i \in 1..27, NEW r \in up[i].refs
      PROVE  /\ r[1] \in Parents /\ Place[r[1]] <= 100 + i
             /\ \/ r[1] = up[i].name \/ Place[r[1]] < 100
                \/ DropPlace[up[i].name] < DropPlace[r[1]]
  BY <1>2, <1>3, <1>4, <1>5, <1>6
<1>9. \A i \in 1..27 : 100 * 1 + i = 100 + i /\ 100 * 1 = 100
  OBVIOUS
<1>10. Placed(1, up)
  BY <1>1, <1>7, <1>8, <1>9 DEF Placed
<1> QED
  BY <1>10 DEF up

LEMMA InitialDroppedBack == DroppedBack(1, initial_schema.up, initial_schema.down)
BY InitialTables, InitialDrops DEF DroppedBack, Table, DropPlace, Size

LEMMA SecurityTables ==
  LET this == add_security_providers_and_operations
  IN  /\ DOMAIN this.up = 1..2 /\ DOMAIN this.down = 1..2
      /\ this.up[1] = Table("security_providers", {})
      /\ this.up[2] = Table("security_operations", {SetNullTo("master_keys")})
      /\ this.down[1] = "security_operations" /\ this.down[2] = "security_providers"
<1>1. /\ DOMAIN add_security_providers_and_operations.up = 1..2
      /\ add_security_providers_and_operations.up[1] = Table("security_providers", {})
      /\ add_security_providers_and_operations.up[2]
            = Table("security_operations", {SetNullTo("master_keys")})
  BY DEF add_security_providers_and_operations, Revision
<1>2. /\ DOMAIN add_security_providers_and_operations.down = 1..2
      /\ add_security_providers_and_operations.down[1] = "security_operations"
      /\ add_security_providers_and_operations.down[2] = "security_providers"
  BY DEF add_security_providers_and_operations, Revision, Reverse, Table
<1> QED
  BY <1>1, <1>2

LEMMA RevisionsPlaced ==
  ASSUME NEW m \in DOMAIN versions
  PROVE  /\ m \in 1..15 /\ Size[m] \in 1..27
         /\ Placed(m, versions[m].up) /\ DroppedBack(m, versions[m].up, versions[m].down)
<1>1. m \in 1..15 /\ Size[m] \in 1..27
  BY DEF versions, Size
<1>2. CASE m = 1
  <2>1. versions[1] = initial_schema
    BY DEF versions
  <2> QED
    BY <1>1, <1>2, <2>1, InitialPlaced, InitialDroppedBack
<1>3. CASE m = 2
  <2>1. versions[2] = audit_log_immutability_trigger
    BY DEF versions
  <2>2. Placed(2, audit_log_immutability_trigger.up)
    BY DEF Placed, audit_log_immutability_trigger, Revision, Table, Place, DropPlace,
       Size, Parents, Plain
  <2>3. DroppedBack(2, audit_log_immutability_trigger.up, audit_log_immutability_trigger.down)
    BY DEF DroppedBack, audit_log_immutability_trigger, Revision, Reverse, Table,
       DropPlace, Size, Plain
  <2> QED
    BY <1>1, <1>3, <2>1, <2>2, <2>3
<1>4. CASE m = 3
  <2>1. versions[3] = add_oidc_status_fields_to_engine
    BY DEF versions
  <2>2. Placed(3, add_oidc_status_fields_to_engine.up)
    BY DEF Placed, add_oidc_status_fields_to_engine, Revision, Table, Place, DropPlace,
       Size, Parents, Plain
  <2>3. DroppedBack(3, add_oidc_status_fields_to_engine.up, add_oidc_status_fields_to_engine.down)
    BY DEF DroppedBack, add_oidc_status_fields_to_engine, Revision, Reverse, Table,
       DropPlace, Size, Plain
  <2> QED
    BY <1>1, <1>4, <2>1, <2>2, <2>3
<1>5. CASE m = 4
  <2>1. versions[4] = add_attestation_runs
    BY DEF versions
  <2>2. Placed(4, add_attestation_runs.up)
    BY DEF Placed, add_attestation_runs, Revision, Table, Place, DropPlace,
       Size, Parents, Plain
  <2>3. DroppedBack(4, add_attestation_runs.up, add_attestation_runs.down)
    BY DEF DroppedBack, add_attestation_runs, Revision, Reverse, Table,
       DropPlace, Size, Plain
  <2> QED
    BY <1>1, <1>5, <2>1, <2>2, <2>3
<1>6. CASE m = 5
  <2>1. versions[5] = widen_byte_size_columns_to_bigint
    BY DEF versions
  <2>2. Placed(5, widen_byte_size_columns_to_bigint.up)
    BY DEF Placed, widen_byte_size_columns_to_bigint, Revision, Table, Place, DropPlace,
       Size, Parents, Plain
  <2>3. DroppedBack(5, widen_byte_size_columns_to_bigint.up, widen_byte_size_columns_to_bigint.down)
    BY DEF DroppedBack, widen_byte_size_columns_to_bigint, Revision, Reverse, Table,
       DropPlace, Size, Plain
  <2> QED
    BY <1>1, <1>6, <2>1, <2>2, <2>3
<1>7. CASE m = 6
  <2>1. versions[6] = audit_log_sequence_as_identity_column
    BY DEF versions
  <2>2. Placed(6, audit_log_sequence_as_identity_column.up)
    BY DEF Placed, audit_log_sequence_as_identity_column, Revision, Table, Place, DropPlace,
       Size, Parents, Plain
  <2>3. DroppedBack(6, audit_log_sequence_as_identity_column.up,
                    audit_log_sequence_as_identity_column.down)
    BY DEF DroppedBack, audit_log_sequence_as_identity_column, Revision, Reverse, Table,
       DropPlace, Size, Plain
  <2> QED
    BY <1>1, <1>7, <2>1, <2>2, <2>3
<1>8. CASE m = 7
  <2>1. versions[7] = add_refresh_tokens
    BY DEF versions
  <2>2. Placed(7, add_refresh_tokens.up)
    BY DEF Placed, add_refresh_tokens, Revision, Table, Place, DropPlace,
       Size, Parents, CascadeTo
  <2>3. DroppedBack(7, add_refresh_tokens.up, add_refresh_tokens.down)
    BY DEF DroppedBack, add_refresh_tokens, Revision, Reverse, Table,
       DropPlace, Size, CascadeTo
  <2> QED
    BY <1>1, <1>8, <2>1, <2>2, <2>3
<1>9. CASE m = 8
  <2>1. versions[8] = add_tenant_members_and_password_reset_tokens
    BY DEF versions
  <2>2. Placed(8, add_tenant_members_and_password_reset_tokens.up)
    BY DEF Placed, add_tenant_members_and_password_reset_tokens, Revision, Table, Place, DropPlace,
       Size, Parents, CascadeTo
  <2>3. DroppedBack(8, add_tenant_members_and_password_reset_tokens.up,
                    add_tenant_members_and_password_reset_tokens.down)
    BY DEF DroppedBack, add_tenant_members_and_password_reset_tokens, Revision, Reverse, Table,
       DropPlace, Size, CascadeTo
  <2> QED
    BY <1>1, <1>9, <2>1, <2>2, <2>3
<1>10. CASE m = 9
  <2>1. versions[9] = add_compliance_assessments
    BY DEF versions
  <2>2. Placed(9, add_compliance_assessments.up)
    BY DEF Placed, add_compliance_assessments, Revision, Table, Place, DropPlace,
       Size, Parents, CascadeTo
  <2>3. DroppedBack(9, add_compliance_assessments.up, add_compliance_assessments.down)
    BY DEF DroppedBack, add_compliance_assessments, Revision, Reverse, Table,
       DropPlace, Size, CascadeTo
  <2> QED
    BY <1>1, <1>10, <2>1, <2>2, <2>3
<1>11. CASE m = 10
  <2>1. versions[10] = add_compliance_score_snapshots
    BY DEF versions
  <2>2. Placed(10, add_compliance_score_snapshots.up)
    BY DEF Placed, add_compliance_score_snapshots, Revision, Table, Place, DropPlace,
       Size, Parents, CascadeTo
  <2>3. DroppedBack(10, add_compliance_score_snapshots.up, add_compliance_score_snapshots.down)
    BY DEF DroppedBack, add_compliance_score_snapshots, Revision, Reverse, Table,
       DropPlace, Size, CascadeTo
  <2> QED
    BY <1>1, <1>11, <2>1, <2>2, <2>3
<1>12. CASE m = 11
  <2>1. versions[11] = add_security_providers_and_operations
    BY DEF versions
  <2>2. Placed(11, add_security_providers_and_operations.up)
    BY SecurityTables, RefersTo DEF Placed, Table, Place, DropPlace, Size, Parents
  <2>3. DroppedBack(11, add_security_providers_and_operations.up,
                    add_security_providers_and_operations.down)
    BY SecurityTables DEF DroppedBack, Table, DropPlace, Size
  <2> QED
    BY <1>1, <1>12, <2>1, <2>2, <2>3
<1>13. CASE m = 12
  <2>1. versions[12] = add_configurations
    BY DEF versions
  <2>2. Placed(12, add_configurations.up)
    BY DEF Placed, add_configurations, Revision, Table, Place, DropPlace,
       Size, Parents, Plain
  <2>3. DroppedBack(12, add_configurations.up, add_configurations.down)
    BY DEF DroppedBack, add_configurations, Revision, Reverse, Table,
       DropPlace, Size, Plain
  <2> QED
    BY <1>1, <1>13, <2>1, <2>2, <2>3
<1>14. CASE m = 13
  <2>1. versions[13] = add_rbac_tables
    BY DEF versions
  <2>2. Placed(13, add_rbac_tables.up)
    BY DEF Placed, add_rbac_tables, Revision, Table, Place, DropPlace,
       Size, Parents, CascadeTo
  <2>3. DroppedBack(13, add_rbac_tables.up, add_rbac_tables.down)
    BY DEF DroppedBack, add_rbac_tables, Revision, Reverse, Table,
       DropPlace, Size, CascadeTo
  <2> QED
    BY <1>1, <1>14, <2>1, <2>2, <2>3
<1>15. CASE m = 14
  <2>1. versions[14] = add_notifications_and_alert_rules
    BY DEF versions
  <2>2. Placed(14, add_notifications_and_alert_rules.up)
    BY DEF Placed, add_notifications_and_alert_rules, Revision, Table, Place, DropPlace,
       Size, Parents, CascadeTo
  <2>3. DroppedBack(14, add_notifications_and_alert_rules.up,
                    add_notifications_and_alert_rules.down)
    BY DEF DroppedBack, add_notifications_and_alert_rules, Revision, Reverse, Table,
       DropPlace, Size, CascadeTo
  <2> QED
    BY <1>1, <1>15, <2>1, <2>2, <2>3
<1>16. CASE m = 15
  <2>1. versions[15] = add_operations_tables
    BY DEF versions
  <2>2. Placed(15, add_operations_tables.up)
    BY DEF Placed, add_operations_tables, Revision, Table, Place, DropPlace,
       Size, Parents, Plain
  <2>3. DroppedBack(15, add_operations_tables.up, add_operations_tables.down)
    BY DEF DroppedBack, add_operations_tables, Revision, Reverse, Table,
       DropPlace, Size, Plain
  <2> QED
    BY <1>1, <1>16, <2>1, <2>2, <2>3
<1> QED
  BY <1>1, <1>2, <1>3, <1>4, <1>5, <1>6, <1>7, <1>8, <1>9, <1>10,
     <1>11, <1>12, <1>13, <1>14, <1>15, <1>16

LEMMA HeadIsFifteen == head = 15 /\ DOMAIN versions = 1..15
BY DEF head, versions

LEMMA PlacesDiffer ==
  ASSUME NEW m \in 1..15, NEW p \in 1..15, NEW i \in 1..27, NEW j \in 1..27,
         100 * p + j = 100 * m + i
  PROVE  p = m /\ j = i
OBVIOUS

(* Where an object of a revision is. *)
LEMMA CreatedPlaces ==
  ASSUME NEW m \in 1..15, NEW n \in Created[m]
  PROVE  /\ n \in DOMAIN Place /\ n \in Names
         /\ \E i \in 1..Size[m] : n = versions[m].up[i].name /\ Place[n] = 100 * m + i
<1>1. m \in DOMAIN versions /\ DOMAIN versions[m].up = 1..Size[m]
  BY HeadIsFifteen, RevisionsPlaced DEF Placed
<1>2. PICK i \in 1..Size[m] : n = versions[m].up[i].name
  BY <1>1 DEF Created, ToSet
<1>3. n \in DOMAIN Place /\ Place[n] = 100 * m + i
  BY <1>1, <1>2, RevisionsPlaced DEF Placed
<1>4. versions[m].up[i] \in ToSet(versions[m].up)
  BY <1>1 DEF ToSet
<1>5. versions[m].up[i] \in Objects
  BY <1>1, <1>4 DEF Objects
<1> QED
  BY <1>2, <1>3, <1>5 DEF Names

LEMMA StatementCreates ==
  ASSUME NEW m \in 1..15, NEW i \in 1..Size[m]
  PROVE  /\ versions[m].up[i].name \in Created[m]
         /\ Place[versions[m].up[i].name] = 100 * m + i
<1>1. m \in DOMAIN versions /\ DOMAIN versions[m].up = 1..Size[m]
  BY HeadIsFifteen, RevisionsPlaced DEF Placed
<1>2. versions[m].up[i] \in ToSet(versions[m].up)
  BY <1>1 DEF ToSet
<1>3. versions[m].up[i].name \in Created[m]
  BY <1>1, <1>2 DEF Created
<1> QED
  BY <1>1, <1>3, RevisionsPlaced DEF Placed

(* No object is made by two revisions, nor twice by one. *)
LEMMA CreatedOnce ==
  ASSUME NEW m \in 1..15, NEW p \in 1..15, NEW n \in Created[m], n \in Created[p]
  PROVE  m = p
<1>1. Size[m] \in 1..27 /\ Size[p] \in 1..27
  BY HeadIsFifteen, RevisionsPlaced
<1>2. PICK i \in 1..Size[m] : Place[n] = 100 * m + i
  BY CreatedPlaces
<1>3. PICK j \in 1..Size[p] : Place[n] = 100 * p + j
  BY CreatedPlaces
<1> QED
  BY <1>1, <1>2, <1>3

LEMMA RemovedIsCreated ==
  ASSUME NEW m \in 1..15
  PROVE  Removed[m] = Created[m]
<1>1. /\ m \in DOMAIN versions /\ DOMAIN versions[m].up = 1..Size[m]
      /\ DOMAIN versions[m].down = 1..Size[m]
  BY HeadIsFifteen, RevisionsPlaced DEF Placed, DroppedBack
<1>2. \A n : n \in Removed[m] <=> \E i \in 1..Size[m] : n = versions[m].down[i]
  BY <1>1 DEF Removed, ToSet
<1>3. \A n : n \in Created[m] <=> \E i \in 1..Size[m] : n = versions[m].up[i].name
  BY <1>1 DEF Created, ToSet
<1>4. \A i \in 1..Size[m] : /\ \E j \in 1..Size[m] : versions[m].down[i] = versions[m].up[j].name
                            /\ \E j \in 1..Size[m] : versions[m].down[j] = versions[m].up[i].name
  BY <1>1, RevisionsPlaced DEF DroppedBack
<1>5. ASSUME NEW n \in Removed[m] PROVE n \in Created[m]
  <2>1. PICK i \in 1..Size[m] : n = versions[m].down[i]
    BY <1>2
  <2> QED
    BY <1>3, <1>4, <2>1
<1>6. ASSUME NEW n \in Created[m] PROVE n \in Removed[m]
  <2>1. PICK i \in 1..Size[m] : n = versions[m].up[i].name
    BY <1>3
  <2> QED
    BY <1>2, <1>4, <2>1
<1> QED
  BY <1>5, <1>6

LEMMA NamesCreated ==
  ASSUME NEW n \in Names
  PROVE  \E m \in 1..15 : n \in Created[m]
<1>1. PICK o \in Objects : n = o.name
  BY DEF Names
<1>2. PICK m \in DOMAIN versions : o \in ToSet(versions[m].up)
  BY <1>1 DEF Objects
<1> QED
  BY <1>1, <1>2, HeadIsFifteen DEF Created

LEMMA ParentsCreated ==
  ASSUME NEW n \in Parents
  PROVE  \E m \in 1..15 : n \in Created[m]
<1>1. CASE n \in {"tenants", "engine_instances", "compliance_frameworks", "config_parameters",
                  "hsm_slots", "master_keys", "anomaly_events", "incidents", "key_ceremonies",
                  "users"}
  <2>1. versions[1] = initial_schema /\ Size[1] = 27
    BY DEF versions, Size
  <2>2. \E i \in 1..27 : n = initial_schema.up[i].name
    BY <1>1, InitialTables DEF Table
  <2> QED
    BY <2>1, <2>2, StatementCreates
<1>2. CASE n \in {"roles", "permissions"}
  <2>1. versions[13] = add_rbac_tables /\ Size[13] = 4
    BY DEF versions, Size
  <2>2. /\ add_rbac_tables.up[1].name = "roles" /\ add_rbac_tables.up[2].name = "permissions"
    BY DEF add_rbac_tables, Revision, Table
  <2> QED
    BY <1>2, <2>1, <2>2, StatementCreates
<1> QED
  BY <1>1, <1>2 DEF Parents

(* The foreign keys of a table are those of the one statement that makes it. *)
LEMMA ReferencesOfName ==
  ASSUME NEW m \in 1..15, NEW i \in 1..Size[m]
  PROVE  References[versions[m].up[i].name] = versions[m].up[i].refs
<1> DEFINE this == versions[m].up[i]
<1>1. m \in DOMAIN versions /\ DOMAIN versions[m].up = 1..Size[m] /\ Size[m] \in 1..27
  BY HeadIsFifteen, RevisionsPlaced DEF Placed
<1>2. this \in Objects
  <2>1. this \in ToSet(versions[m].up)
    BY <1>1 DEF ToSet
  <2> QED
    BY <1>1, <2>1 DEF Objects
<1>3. ASSUME NEW o \in Objects, o.name = this.name PROVE o = this
  <2>1. PICK p \in DOMAIN versions : o \in ToSet(versions[p].up)
    BY DEF Objects
  <2>2. p \in 1..15 /\ DOMAIN versions[p].up = 1..Size[p] /\ Size[p] \in 1..27
    BY HeadIsFifteen, RevisionsPlaced DEF Placed
  <2>3. PICK j \in 1..Size[p] : o = versions[p].up[j]
    BY <2>1, <2>2 DEF ToSet
  <2>4. Place[o.name] = 100 * p + j /\ Place[this.name] = 100 * m + i
    BY <2>2, <2>3, StatementCreates
  <2>5. 100 * p + j = 100 * m + i
    BY <1>3, <2>4
  <2>6. i \in 1..27 /\ j \in 1..27
    <3>1. PICK a \in 1..27 : a = Size[m]
      BY <1>1
    <3>2. PICK b \in 1..27 : b = Size[p]
      BY <2>2
    <3>3. i \in 1..a /\ j \in 1..b
      BY <3>1, <3>2
    <3> QED
      BY <3>3
  <2>7. p = m /\ j = i
    BY <2>2, <2>5, <2>6, PlacesDiffer
  <2> QED
    BY <2>3, <2>7
<1>4. {o \in Objects : o.name = this.name} = {this}
  BY <1>2, <1>3
<1>5. this.name \in Names
  BY <1>2 DEF Names
<1>6. References[this.name] = UNION {o.refs : o \in {p \in Objects : p.name = this.name}}
  BY <1>5 DEF References
<1>7. UNION {o.refs : o \in {this}} = this.refs
  OBVIOUS
<1> QED
  BY <1>4, <1>6, <1>7

(* The objects of the first k revisions. *)
SchemaOf(k) == UNION {Created[m] : m \in 1..k}

LEMMA PlaceInSchema ==
  ASSUME NEW k \in 0..15, NEW n \in SchemaOf(k)
  PROVE  n \in Names /\ n \in DOMAIN Place /\ Place[n] \in Nat /\ Place[n] < 100 * k + 28
<1>1. PICK m \in 1..15 : n \in Created[m] /\ m <= k
  BY DEF SchemaOf
<1>2. PICK i \in 1..Size[m] : Place[n] = 100 * m + i
  BY <1>1, CreatedPlaces
<1>3. PICK a \in 1..27 : a = Size[m]
  BY HeadIsFifteen, RevisionsPlaced
<1>4. i \in 1..a
  BY <1>3
<1> QED
  BY <1>1, <1>2, <1>4, CreatedPlaces

(* An object that is placed before a statement is made before it. *)
LEMMA MadeBefore ==
  ASSUME NEW m \in 1..15, NEW i \in 1..Size[m], NEW n \in Parents, Place[n] <= 100 * m + i
  PROVE  \/ n \in SchemaOf(m - 1) \/ n \in {versions[m].up[j].name : j \in 1..(i - 1)}
         \/ n = versions[m].up[i].name
<1>1. PICK p \in 1..15 : n \in Created[p]
  BY ParentsCreated
<1>2. PICK j \in 1..Size[p] : n = versions[p].up[j].name /\ Place[n] = 100 * p + j
  BY <1>1, CreatedPlaces
<1>3. PICK a \in 1..27 : a = Size[m]
  BY HeadIsFifteen, RevisionsPlaced
<1>4. i \in 1..a
  BY <1>3
<1>5. PICK b \in 1..27 : b = Size[p]
  BY HeadIsFifteen, RevisionsPlaced
<1>6. j \in 1..b
  BY <1>5
<1>7. p < m \/ (p = m /\ j <= i)
  BY <1>2, <1>4, <1>6
<1>8. CASE p < m
  BY <1>1, <1>8 DEF SchemaOf
<1>9. CASE p = m /\ j <= i
  BY <1>2, <1>4, <1>6, <1>9
<1> QED
  BY <1>7, <1>8, <1>9

LEMMA SchemaUpgraded ==
  ASSUME revision \in 0..15, schema = SchemaOf(revision), NEW k \in revision..15
  PROVE  Upgraded(k) = SchemaOf(k)
<1>1. ASSUME NEW n \in Upgraded(k) PROVE n \in SchemaOf(k)
  <2>1. CASE n \in schema
    BY <2>1 DEF SchemaOf
  <2>2. CASE n \in UNION {Created[m] : m \in (revision + 1)..k}
    BY <2>2 DEF SchemaOf
  <2> QED
    BY <1>1, <2>1, <2>2 DEF Upgraded
<1>2. ASSUME NEW n \in SchemaOf(k) PROVE n \in Upgraded(k)
  <2>1. PICK m \in 1..k : n \in Created[m]
    BY DEF SchemaOf
  <2>2. CASE m <= revision
    <3>1. m \in 1..revision
      BY <2>2
    <3>2. n \in schema
      BY <2>1, <3>1 DEF SchemaOf
    <3> QED
      BY <3>2 DEF Upgraded
  <2>3. CASE m > revision
    <3>1. m \in (revision + 1)..k
      BY <2>3
    <3> QED
      BY <2>1, <3>1 DEF Upgraded
  <2> QED
    BY <2>2, <2>3
<1> QED
  BY <1>1, <1>2

LEMMA SchemaDowngraded ==
  ASSUME revision \in 0..15, schema = SchemaOf(revision), NEW k \in 0..revision
  PROVE  Downgraded(k) = SchemaOf(k)
<1>1. \A m \in 1..15 : Removed[m] = Created[m]
  BY RemovedIsCreated
<1>2. ASSUME NEW n \in Downgraded(k) PROVE n \in SchemaOf(k)
  <2>1. n \in schema /\ n \notin UNION {Removed[m] : m \in (k + 1)..revision}
    BY <1>2 DEF Downgraded
  <2>2. PICK m \in 1..revision : n \in Created[m]
    BY <2>1 DEF SchemaOf
  <2>3. m \notin (k + 1)..revision
    BY <1>1, <2>1, <2>2
  <2>4. m \in 1..k
    BY <2>3
  <2> QED
    BY <2>2, <2>4 DEF SchemaOf
<1>3. ASSUME NEW n \in SchemaOf(k) PROVE n \in Downgraded(k)
  <2>1. PICK m \in 1..k : n \in Created[m]
    BY DEF SchemaOf
  <2>2. n \in schema
    <3>1. m \in 1..revision
      OBVIOUS
    <3> QED
      BY <2>1, <3>1 DEF SchemaOf
  <2>3. ASSUME NEW p \in (k + 1)..revision PROVE n \notin Removed[p]
    <3>1. p \in 1..15 /\ m \in 1..15 /\ m # p
      OBVIOUS
    <3> QED
      BY <1>1, <2>1, <3>1, CreatedOnce
  <2> QED
    BY <2>2, <2>3 DEF Downgraded
<1> QED
  BY <1>2, <1>3

LEMMA SpecialPlaces ==
  /\ Place["oidc_status_fields"] = 301 /\ Place["bigint_sizes"] = 501
  /\ "bigint_sizes" \in Created[5] /\ "engine_instances" \in Names
<1>1. Place["oidc_status_fields"] = 301 /\ Place["bigint_sizes"] = 501
  BY DEF Place
<1>2. Size[5] = 1 /\ versions[5].up[1].name = "bigint_sizes"
  BY DEF Size, versions, widen_byte_size_columns_to_bigint, Revision, Plain, Table
<1>3. Size[1] = 27 /\ versions[1].up[6].name = "engine_instances"
  BY InitialTables DEF Size, versions, Table
<1>4. "bigint_sizes" \in Created[5]
  BY <1>2, StatementCreates
<1>5. "engine_instances" \in Created[1]
  BY <1>3, StatementCreates
<1> QED
  BY <1>1, <1>4, <1>5, CreatedPlaces

(* Every upgrade is accepted: names are new, foreign keys have their tables,  *)
(* and below the third revision engine_instances is empty.                   *)
LEMMA UpgradesAccepted ==
  ASSUME SchemaInv, NEW k \in 0..15
  PROVE  UpgradeAccepted(k)
<1>1. revision \in 0..15 /\ schema = SchemaOf(revision)
  BY HeadIsFifteen DEF SchemaInv, MigrationsTypeOK, SchemaOf
<1>2. SUFFICES ASSUME NEW m \in (revision + 1)..k, NEW i \in DOMAIN versions[m].up
               PROVE  Create(Upgraded(m - 1) \cup {versions[m].up[j].name : j \in 1..(i - 1)},
                             versions[m].up[i])
  BY DEF UpgradeAccepted
<1>3. m \in 1..15 /\ m - 1 \in revision..15 /\ m - 1 \in 0..15
  BY <1>1
<1>4. PICK a \in 1..27 : a = Size[m]
  BY <1>3, HeadIsFifteen, RevisionsPlaced
<1>5. i \in 1..Size[m] /\ i \in 1..a
  BY <1>3, <1>4, HeadIsFifteen, RevisionsPlaced DEF Placed
<1> DEFINE o == versions[m].up[i]
           before == {versions[m].up[j].name : j \in 1..(i - 1)}
<1>6. Upgraded(m - 1) = SchemaOf(m - 1)
  BY <1>1, <1>3, SchemaUpgraded
<1>7. Place[o.name] = 100 * m + i
  BY <1>3, <1>5, StatementCreates
<1>8. ASSUME NEW r \in o.refs
      PROVE  r[1] \in Parents /\ Place[r[1]] <= 100 * m + i
  BY <1>3, <1>5, HeadIsFifteen, RevisionsPlaced DEF Placed
<1>9. o.name \notin SchemaOf(m - 1)
  <2>1. \A n \in SchemaOf(m - 1) : Place[n] \in Nat /\ Place[n] < 100 * (m - 1) + 28
    BY <1>3, PlaceInSchema
  <2> QED
    BY <1>3, <1>5, <1>7, <2>1
<1>10. o.name \notin before
  <2>1. ASSUME NEW j \in 1..(i - 1) PROVE Place[versions[m].up[j].name] = 100 * m + j
    <3>1. j \in 1..a
      BY <1>5
    <3> QED
      BY <1>3, <1>4, <3>1, StatementCreates
  <2> QED
    BY <1>3, <1>5, <1>7, <2>1
<1>11. ASSUME NEW r \in o.refs PROVE r[1] \in SchemaOf(m - 1) \cup before \cup {o.name}
  BY <1>3, <1>5, <1>8, MadeBefore
<1>12. ASSUME o.name = "oidc_status_fields" PROVE ~EngineHasRows
  <2>1. m = 3
    BY <1>3, <1>5, <1>7, <1>12, SpecialPlaces
  <2>2. revision < 3
    BY <1>1, <2>1
  <2>3. "bigint_sizes" \notin schema
    <3>1. \A n \in schema : Place[n] \in Nat /\ Place[n] < 100 * revision + 28
      BY <1>1, PlaceInSchema
    <3> QED
      BY <1>1, <2>2, <3>1, SpecialPlaces
  <2> QED
    BY <2>3 DEF SchemaInv
<1> HIDE DEF o, before
<1>13. Create(SchemaOf(m - 1) \cup before, o)
  BY <1>9, <1>10, <1>11, <1>12 DEF Create
<1> QED
  BY <1>6, <1>13 DEF o, before

(* A drop of a downgrade meets its table, and no table that refers to it. *)
LEMMA DropsAccepted ==
  ASSUME NEW m \in 1..15, NEW i \in 1..Size[m]
  PROVE  LET n       == versions[m].down[i]
             objects == SchemaOf(m) \ {versions[m].down[j] : j \in 1..(i - 1)}
         IN  /\ n \in objects
             /\ \A x \in Referrers[n] : x \notin objects
<1> DEFINE n       == versions[m].down[i]
           gone    == {versions[m].down[j] : j \in 1..(i - 1)}
<1>1. /\ m \in DOMAIN versions /\ DroppedBack(m, versions[m].up, versions[m].down)
      /\ DOMAIN versions[m].down = 1..Size[m]
  BY HeadIsFifteen, RevisionsPlaced DEF DroppedBack
<1>2. PICK a \in 1..27 : a = Size[m]
  BY <1>1, RevisionsPlaced
<1>3. i \in 1..a
  BY <1>2
<1>4. \A j \in 1..a : DropPlace[versions[m].down[j]] = j
  BY <1>1, <1>2 DEF DroppedBack
<1>5. n \in Created[m]
  <2>1. n \in Removed[m]
    BY <1>1 DEF Removed, ToSet
  <2> QED
    BY <2>1, RemovedIsCreated
<1>6. n \in SchemaOf(m)
  BY <1>5 DEF SchemaOf
<1>7. n \notin gone
  BY <1>3, <1>4
<1>8. ASSUME NEW x \in Referrers[n], x \in SchemaOf(m) PROVE x \in gone
  <2>1. n \in Names
    BY <1>5, CreatedPlaces
  <2>2. x \in Names /\ x # n
    BY <1>8, <2>1 DEF Referrers
  <2>3. PICK r \in References[x] : r[1] = n
    BY <1>8, <2>1 DEF Referrers
  <2>4. PICK p \in 1..15 : p <= m /\ x \in Created[p]
    BY <1>8 DEF SchemaOf
  <2>5. PICK q \in 1..Size[p] : x = versions[p].up[q].name
    BY <2>4, CreatedPlaces
  <2>6. r \in versions[p].up[q].refs
    BY <2>3, <2>5, ReferencesOfName
  <2>7. /\ n \in Parents /\ Place[n] <= 100 * p + q
        /\ \/ n = x \/ Place[n] < 100 * p \/ DropPlace[x] < DropPlace[n]
    <3>1. Placed(p, versions[p].up)
      BY HeadIsFifteen, RevisionsPlaced
    <3> QED
      BY <2>3, <2>5, <2>6, <3>1 DEF Placed
  <2>8. PICK l \in 1..Size[m] : Place[n] = 100 * m + l
    BY <1>5, CreatedPlaces
  <2>9. l \in 1..a
    BY <1>2, <2>8
  <2>10. PICK b \in 1..27 : b = Size[p]
    BY HeadIsFifteen, RevisionsPlaced
  <2>11. q \in 1..b
    BY <2>10
  <2>12. p = m
    BY <2>4, <2>7, <2>8, <2>9, <2>11
  <2>13. DropPlace[x] < i
    BY <1>3, <1>4, <2>2, <2>7, <2>8, <2>9, <2>12
  <2>14. PICK j \in 1..Size[m] : x = versions[m].down[j]
    BY <1>1, <2>5, <2>12 DEF DroppedBack
  <2>15. j \in 1..a
    BY <1>2
  <2>16. j < i
    BY <1>4, <2>13, <2>14, <2>15
  <2>17. j \in 1..(i - 1)
    BY <1>3, <2>15, <2>16
  <2> QED
    BY <2>14, <2>17
<1> QED
  BY <1>6, <1>7, <1>8

LEMMA DowngradesAccepted ==
  ASSUME SchemaInv, ~EngineHasRows
  PROVE  DowngradeAccepted(0)
<1>1. revision \in 0..15 /\ schema = SchemaOf(revision)
  BY HeadIsFifteen DEF SchemaInv, MigrationsTypeOK, SchemaOf
<1>2. SUFFICES ASSUME NEW m \in (0 + 1)..revision, NEW i \in DOMAIN versions[m].down
               PROVE  Drop(Downgraded(m) \ {versions[m].down[j] : j \in 1..(i - 1)},
                           versions[m].down[i])
  BY DEF DowngradeAccepted
<1>3. m \in 1..15 /\ m \in 0..revision
  BY <1>1
<1>4. i \in 1..Size[m]
  BY <1>3, HeadIsFifteen, RevisionsPlaced DEF DroppedBack
<1>5. Downgraded(m) = SchemaOf(m)
  BY <1>1, <1>3, SchemaDowngraded
<1> QED
  BY <1>3, <1>4, <1>5, DropsAccepted DEF Drop

LEMMA SchemaSoundness ==
  ASSUME SchemaInv
  PROVE  SchemaSound
<1>1. revision \in 0..15 /\ schema = SchemaOf(revision)
  BY HeadIsFifteen DEF SchemaInv, MigrationsTypeOK, SchemaOf
<1>2. ASSUME NEW n \in schema, NEW r \in References[n] PROVE r[1] \in schema
  <2>1. PICK m \in 1..15 : m <= revision /\ n \in Created[m]
    BY <1>1 DEF SchemaOf
  <2>2. PICK i \in 1..Size[m] : n = versions[m].up[i].name
    BY <2>1, CreatedPlaces
  <2>3. r \in versions[m].up[i].refs
    BY <1>2, <2>2, ReferencesOfName
  <2>4. Placed(m, versions[m].up)
    BY HeadIsFifteen, RevisionsPlaced
  <2>5. r[1] \in Parents /\ Place[r[1]] <= 100 * m + i
    BY <2>3, <2>4 DEF Placed
  <2>6. \A j \in 1..Size[m] : versions[m].up[j].name \in Created[m]
    BY StatementCreates
  <2>7. PICK a \in 1..27 : a = Size[m]
    BY HeadIsFifteen, RevisionsPlaced
  <2>8. 1..(i - 1) \subseteq 1..Size[m]
    BY <2>7
  <2>9. r[1] \in SchemaOf(m - 1) \/ r[1] \in Created[m]
    <3>1. \/ r[1] \in SchemaOf(m - 1)
          \/ r[1] \in {versions[m].up[j].name : j \in 1..(i - 1)}
          \/ r[1] = versions[m].up[i].name
      BY <2>2, <2>5, MadeBefore
    <3>2. {versions[m].up[j].name : j \in 1..(i - 1)} \subseteq Created[m]
      BY <2>6, <2>8
    <3> QED
      BY <2>2, <2>6, <3>1, <3>2
  <2>10. SchemaOf(m - 1) \subseteq SchemaOf(revision) /\ Created[m] \subseteq SchemaOf(revision)
    BY <1>1, <2>1 DEF SchemaOf
  <2> QED
    BY <1>1, <2>9, <2>10
<1>3. UpgradeAccepted(head)
  BY HeadIsFifteen, UpgradesAccepted
<1>4. ~EngineHasRows => DowngradeAccepted(0)
  BY DowngradesAccepted
<1> QED
  BY <1>2, <1>3, <1>4 DEF SchemaSound, SchemaInv

(* A command keeps the copies of the tables it keeps, and drops the others. *)
LEMMA MigrationsKeep ==
  ASSUME SchemaInv, upgrade \/ downgrade
  PROVE  SchemaInv'
<1>0. PICK k \in 0..15 :
        \/ /\ k \in (revision + 1)..head
           /\ do_run_migrations(k, Upgraded(k))
        \/ /\ k \in 0..(revision - 1) /\ DowngradeAccepted(k)
           /\ do_run_migrations(k, Downgraded(k))
  <2>1. revision \in 0..15 /\ head = 15
    BY HeadIsFifteen DEF SchemaInv, MigrationsTypeOK
  <2>2. CASE upgrade
    <3>1. PICK k \in (revision + 1)..head : do_run_migrations(k, Upgraded(k))
      BY <2>2 DEF upgrade
    <3>2. k \in 0..15
      BY <2>1
    <3> QED
      BY <3>1, <3>2
  <2>3. CASE downgrade
    <3>1. PICK k \in 0..(revision - 1) :
            DowngradeAccepted(k) /\ do_run_migrations(k, Downgraded(k))
      BY <2>3 DEF downgrade
    <3>2. k \in 0..15
      BY <2>1
    <3> QED
      BY <3>1, <3>2
  <2> QED
    BY <2>2, <2>3
<1> DEFINE up   == k \in (revision + 1)..head /\ do_run_migrations(k, Upgraded(k))
           down == /\ k \in 0..(revision - 1) /\ DowngradeAccepted(k)
                   /\ do_run_migrations(k, Downgraded(k))
<1>1. revision \in 0..15 /\ schema = SchemaOf(revision) /\ rows \in [Names -> Nat]
  BY HeadIsFifteen DEF SchemaInv, MigrationsTypeOK, SchemaOf
<1>2. revision' = k /\ schema' = SchemaOf(k)
  <2>1. CASE up
    <3>1. k \in revision..15
      BY <1>1, <2>1, HeadIsFifteen
    <3>2. Upgraded(k) = SchemaOf(k)
      BY <1>1, <3>1, SchemaUpgraded
    <3> QED
      BY <2>1, <3>2 DEF do_run_migrations
  <2>2. CASE down
    <3>1. k \in 0..revision
      BY <1>1, <2>2
    <3>2. Downgraded(k) = SchemaOf(k)
      BY <1>1, <3>1, SchemaDowngraded
    <3> QED
      BY <2>2, <3>2 DEF do_run_migrations
  <2> QED
    BY <1>0, <2>1, <2>2
<1>3. /\ rows' \in [Names -> Nat]
      /\ \A n \in Names : rows'[n] = 0 \/ rows'[n] = rows[n]
  <2>1. \E objects : rows' = [n \in DOMAIN rows |-> IF n \in objects THEN rows[n] ELSE 0]
    <3>1. CASE up
      BY <3>1 DEF do_run_migrations
    <3>2. CASE down
      BY <3>2 DEF do_run_migrations
    <3> QED
      BY <1>0, <3>1, <3>2
  <2> QED
    BY <1>1, <2>1
<1>4. SchemaOf(k) \subseteq Names
  BY PlaceInSchema
<1>5. ASSUME EngineHasRows' PROVE "bigint_sizes" \in schema'
  <2>1. EngineHasRows
    BY <1>1, <1>3, <1>5, SpecialPlaces DEF EngineHasRows
  <2>2. "bigint_sizes" \in schema
    BY <2>1 DEF SchemaInv
  <2>3. PICK p \in 1..15 : p <= revision /\ "bigint_sizes" \in Created[p]
    BY <1>1, <2>2 DEF SchemaOf
  <2>4. 5 <= revision
    BY <2>3, SpecialPlaces, CreatedOnce
  <2>5. CASE k >= 5
    BY <1>2, <2>5, SpecialPlaces DEF SchemaOf
  <2>6. CASE k < 5
    <3>1. down
      BY <1>0, <1>1, <2>4, <2>6, HeadIsFifteen
    <3>2. DowngradeAccepted(k)
      BY <3>1
    <3>3. Size[5] = 1 /\ versions[5].up[1].name = "bigint_sizes"
      BY DEF Size, versions, widen_byte_size_columns_to_bigint, Revision, Plain, Table
    <3>4. DOMAIN versions[5].down = 1..1 /\ versions[5].down[1] = "bigint_sizes"
      BY DEF versions, widen_byte_size_columns_to_bigint, Revision, Plain, Table, Reverse
    <3>5. 5 \in (k + 1)..revision
      BY <1>1, <2>4, <2>6
    <3>6. 1 \in DOMAIN versions[5].down
      BY <3>4
    <3>7. Drop(Downgraded(5) \ {versions[5].down[j] : j \in 1..(1 - 1)}, versions[5].down[1])
      BY <3>2, <3>5, <3>6 DEF DowngradeAccepted
    <3> QED
      BY <2>1, <3>4, <3>7 DEF Drop
  <2> QED
    BY <2>5, <2>6
<1> QED
  BY <1>2, <1>3, <1>4, <1>5, HeadIsFifteen DEF SchemaInv, MigrationsTypeOK, SchemaOf

-----------------------------------------------------------------------------
(* Part 5: the seed script. *)

(* The step of the script that fills a table. *)
FilledBy ==
    [engine_instances |-> 3, etcd_nodes |-> 3, system_metric_samples |-> 3,
     api_endpoint_stats |-> 3, tenants |-> 4, anomaly_events |-> 5,
     behavioral_baselines |-> 5, incidents |-> 5, compliance_frameworks |-> 6,
     control_mappings |-> 6, compliance_violations |-> 6, schema_validation_results |-> 6,
     compliance_score_snapshots |-> 7, config_parameters |-> 8, config_changes |-> 8,
     configurations |-> 9, hsm_slots |-> 10, master_keys |-> 10, key_ceremonies |-> 10,
     key_custodian_approvals |-> 10, certificates |-> 10, crypto_algorithms |-> 10,
     attestation_runs |-> 10, security_providers |-> 11, security_operations |-> 11,
     breach_alerts |-> 12, tenant_provisioning_jobs |-> 12,
     tenant_schema_validations |-> 12, tenant_backup_snapshots |-> 12, users |-> 13,
     permissions |-> 13, roles |-> 13, role_permissions |-> 13, user_roles |-> 13,
     notifications |-> 14, alert_rules |-> 14, background_jobs |-> 15,
     application_errors |-> 15]

LEMMA LaterNames ==
  /\ versions[2].up[1].name = "trg_audit_log_immutable"
  /\ versions[3].up[1].name = "oidc_status_fields"
  /\ versions[4].up[1].name = "attestation_runs"
  /\ versions[5].up[1].name = "bigint_sizes"
  /\ versions[6].up[1].name = "sequence_identity"
  /\ versions[7].up[1].name = "refresh_tokens"
  /\ versions[8].up[1].name = "password_reset_tokens"
  /\ versions[8].up[2].name = "tenant_members"
  /\ versions[9].up[1].name = "compliance_assessments"
  /\ versions[10].up[1].name = "compliance_score_snapshots"
  /\ versions[11].up[1].name = "security_providers"
  /\ versions[11].up[2].name = "security_operations"
  /\ versions[12].up[1].name = "configurations"
  /\ versions[13].up[1].name = "roles"
  /\ versions[13].up[2].name = "permissions"
  /\ versions[13].up[3].name = "user_roles"
  /\ versions[13].up[4].name = "role_permissions"
  /\ versions[14].up[1].name = "notifications"
  /\ versions[14].up[2].name = "alert_rules"
  /\ versions[15].up[1].name = "background_jobs"
  /\ versions[15].up[2].name = "application_errors"
<1>1. /\ versions[2].up[1].name = "trg_audit_log_immutable"
  <2>1. versions[2] = audit_log_immutability_trigger
    BY DEF versions
  <2> QED
    BY <2>1 DEF audit_log_immutability_trigger, Revision, Plain, Table
<1>2. /\ versions[3].up[1].name = "oidc_status_fields"
  <2>1. versions[3] = add_oidc_status_fields_to_engine
    BY DEF versions
  <2> QED
    BY <2>1 DEF add_oidc_status_fields_to_engine, Revision, Plain, Table
<1>3. /\ versions[4].up[1].name = "attestation_runs"
  <2>1. versions[4] = add_attestation_runs
    BY DEF versions
  <2> QED
    BY <2>1 DEF add_attestation_runs, Revision, Plain, Table
<1>4. /\ versions[5].up[1].name = "bigint_sizes"
  <2>1. versions[5] = widen_byte_size_columns_to_bigint
    BY DEF versions
  <2> QED
    BY <2>1 DEF widen_byte_size_columns_to_bigint, Revision, Plain, Table
<1>5. /\ versions[6].up[1].name = "sequence_identity"
  <2>1. versions[6] = audit_log_sequence_as_identity_column
    BY DEF versions
  <2> QED
    BY <2>1 DEF audit_log_sequence_as_identity_column, Revision, Plain, Table
<1>6. /\ versions[7].up[1].name = "refresh_tokens"
  <2>1. versions[7] = add_refresh_tokens
    BY DEF versions
  <2> QED
    BY <2>1 DEF add_refresh_tokens, Revision, Plain, Table
<1>7. /\ versions[8].up[1].name = "password_reset_tokens"
      /\ versions[8].up[2].name = "tenant_members"
  <2>1. versions[8] = add_tenant_members_and_password_reset_tokens
    BY DEF versions
  <2> QED
    BY <2>1 DEF add_tenant_members_and_password_reset_tokens, Revision, Plain, Table
<1>8. /\ versions[9].up[1].name = "compliance_assessments"
  <2>1. versions[9] = add_compliance_assessments
    BY DEF versions
  <2> QED
    BY <2>1 DEF add_compliance_assessments, Revision, Plain, Table
<1>9. /\ versions[10].up[1].name = "compliance_score_snapshots"
  <2>1. versions[10] = add_compliance_score_snapshots
    BY DEF versions
  <2> QED
    BY <2>1 DEF add_compliance_score_snapshots, Revision, Plain, Table
<1>10. /\ versions[11].up[1].name = "security_providers"
      /\ versions[11].up[2].name = "security_operations"
  <2>1. versions[11] = add_security_providers_and_operations
    BY DEF versions
  <2> QED
    BY <2>1, SecurityTables DEF Table
<1>11. /\ versions[12].up[1].name = "configurations"
  <2>1. versions[12] = add_configurations
    BY DEF versions
  <2> QED
    BY <2>1 DEF add_configurations, Revision, Plain, Table
<1>12. /\ versions[13].up[1].name = "roles"
      /\ versions[13].up[2].name = "permissions"
      /\ versions[13].up[3].name = "user_roles"
      /\ versions[13].up[4].name = "role_permissions"
  <2>1. versions[13] = add_rbac_tables
    BY DEF versions
  <2> QED
    BY <2>1 DEF add_rbac_tables, Revision, Plain, Table
<1>13. /\ versions[14].up[1].name = "notifications"
      /\ versions[14].up[2].name = "alert_rules"
  <2>1. versions[14] = add_notifications_and_alert_rules
    BY DEF versions
  <2> QED
    BY <2>1 DEF add_notifications_and_alert_rules, Revision, Plain, Table
<1>14. /\ versions[15].up[1].name = "background_jobs"
      /\ versions[15].up[2].name = "application_errors"
  <2>1. versions[15] = add_operations_tables
    BY DEF versions
  <2> QED
    BY <2>1 DEF add_operations_tables, Revision, Plain, Table
<1> QED
  BY <1>1, <1>2, <1>3, <1>4, <1>5, <1>6, <1>7, <1>8, <1>9, <1>10,
     <1>11, <1>12, <1>13, <1>14

LEMMA StatementNames ==
  ASSUME NEW m \in 1..15, NEW i \in 1..Size[m]
  PROVE  versions[m].up[i].name \in Names
<1>1. PICK n : n = versions[m].up[i].name
  OBVIOUS
<1>2. n \in Created[m]
  BY <1>1, StatementCreates
<1> QED
  BY <1>1, <1>2, CreatedPlaces

(* Every name that has a place is the name of an object. *)
LEMMA PlacedNames ==
  ASSUME NEW n \in DOMAIN Place
  PROVE  n \in Names
<1>1. CASE \E i \in 1..27 : n = initial_schema.up[i].name
  <2>1. versions[1] = initial_schema /\ Size[1] = 27
    BY DEF versions, Size
  <2> QED
    BY <1>1, <2>1, StatementNames
<1>2. ASSUME n \in {"trg_audit_log_immutable"} PROVE n \in Names
  <2>1. Size[2] = 1
    BY DEF Size
  <2>2. versions[2].up[1].name \in Names
    BY <2>1, StatementNames
  <2> QED
    BY <1>2, <2>2, LaterNames
<1>3. ASSUME n \in {"oidc_status_fields"} PROVE n \in Names
  <2>1. Size[3] = 1
    BY DEF Size
  <2>2. versions[3].up[1].name \in Names
    BY <2>1, StatementNames
  <2> QED
    BY <1>3, <2>2, LaterNames
<1>4. ASSUME n \in {"attestation_runs"} PROVE n \in Names
  <2>1. Size[4] = 1
    BY DEF Size
  <2>2. versions[4].up[1].name \in Names
    BY <2>1, StatementNames
  <2> QED
    BY <1>4, <2>2, LaterNames
<1>5. ASSUME n \in {"bigint_sizes"} PROVE n \in Names
  <2>1. Size[5] = 1
    BY DEF Size
  <2>2. versions[5].up[1].name \in Names
    BY <2>1, StatementNames
  <2> QED
    BY <1>5, <2>2, LaterNames
<1>6. ASSUME n \in {"sequence_identity"} PROVE n \in Names
  <2>1. Size[6] = 1
    BY DEF Size
  <2>2. versions[6].up[1].name \in Names
    BY <2>1, StatementNames
  <2> QED
    BY <1>6, <2>2, LaterNames
<1>7. ASSUME n \in {"refresh_tokens"} PROVE n \in Names
  <2>1. Size[7] = 1
    BY DEF Size
  <2>2. versions[7].up[1].name \in Names
    BY <2>1, StatementNames
  <2> QED
    BY <1>7, <2>2, LaterNames
<1>8. ASSUME n \in {"password_reset_tokens", "tenant_members"} PROVE n \in Names
  <2>1. Size[8] = 2
    BY DEF Size
  <2>2. versions[8].up[1].name \in Names /\ versions[8].up[2].name \in Names
    BY <2>1, StatementNames
  <2> QED
    BY <1>8, <2>2, LaterNames
<1>9. ASSUME n \in {"compliance_assessments"} PROVE n \in Names
  <2>1. Size[9] = 1
    BY DEF Size
  <2>2. versions[9].up[1].name \in Names
    BY <2>1, StatementNames
  <2> QED
    BY <1>9, <2>2, LaterNames
<1>10. ASSUME n \in {"compliance_score_snapshots"} PROVE n \in Names
  <2>1. Size[10] = 1
    BY DEF Size
  <2>2. versions[10].up[1].name \in Names
    BY <2>1, StatementNames
  <2> QED
    BY <1>10, <2>2, LaterNames
<1>11. ASSUME n \in {"security_providers", "security_operations"} PROVE n \in Names
  <2>1. Size[11] = 2
    BY DEF Size
  <2>2. versions[11].up[1].name \in Names /\ versions[11].up[2].name \in Names
    BY <2>1, StatementNames
  <2> QED
    BY <1>11, <2>2, LaterNames
<1>12. ASSUME n \in {"configurations"} PROVE n \in Names
  <2>1. Size[12] = 1
    BY DEF Size
  <2>2. versions[12].up[1].name \in Names
    BY <2>1, StatementNames
  <2> QED
    BY <1>12, <2>2, LaterNames
<1>13. ASSUME n \in {"roles", "permissions", "user_roles", "role_permissions"} PROVE n \in Names
  <2>1. Size[13] = 4
    BY DEF Size
  <2>2. /\ versions[13].up[1].name \in Names /\ versions[13].up[2].name \in Names
        /\ versions[13].up[3].name \in Names /\ versions[13].up[4].name \in Names
    BY <2>1, StatementNames
  <2> QED
    BY <1>13, <2>2, LaterNames
<1>14. ASSUME n \in {"notifications", "alert_rules"} PROVE n \in Names
  <2>1. Size[14] = 2
    BY DEF Size
  <2>2. versions[14].up[1].name \in Names /\ versions[14].up[2].name \in Names
    BY <2>1, StatementNames
  <2> QED
    BY <1>14, <2>2, LaterNames
<1>15. ASSUME n \in {"background_jobs", "application_errors"} PROVE n \in Names
  <2>1. Size[15] = 2
    BY DEF Size
  <2>2. versions[15].up[1].name \in Names /\ versions[15].up[2].name \in Names
    BY <2>1, StatementNames
  <2> QED
    BY <1>15, <2>2, LaterNames
<1>16. \/ \E i \in 1..27 : n = initial_schema.up[i].name
       \/ n \in {"trg_audit_log_immutable"}
       \/ n \in {"oidc_status_fields"}
       \/ n \in {"attestation_runs"}
       \/ n \in {"bigint_sizes"}
       \/ n \in {"sequence_identity"}
       \/ n \in {"refresh_tokens"}
       \/ n \in {"password_reset_tokens", "tenant_members"}
       \/ n \in {"compliance_assessments"}
       \/ n \in {"compliance_score_snapshots"}
       \/ n \in {"security_providers", "security_operations"}
       \/ n \in {"configurations"}
       \/ n \in {"roles", "permissions", "user_roles", "role_permissions"}
       \/ n \in {"notifications", "alert_rules"}
       \/ n \in {"background_jobs", "application_errors"}
  BY InitialTables DEF Place, Table
<1> QED
  BY <1>1, <1>2, <1>3, <1>4, <1>5, <1>6, <1>7, <1>8, <1>9, <1>10,
     <1>11, <1>12, <1>13, <1>14, <1>15, <1>16

LEMMA ScriptLength == Len(main) = 15 /\ SeedSteps = 2..15
<1>1. Len(main) = 15 /\ DOMAIN main = 1..15
  BY DEF main
<1> QED
  BY <1>1 DEF SeedSteps

LEMMA ScriptSteps ==
  /\ main[2] = seed_user
  /\ main[3] = seed_engine
  /\ main[4] = seed_tenants
  /\ main[5] = seed_anomalies
  /\ main[6] = seed_compliance
  /\ main[7] = seed_score_snapshots
  /\ main[8] = seed_config
  /\ main[9] = seed_configurations
  /\ main[10] = seed_hsm
  /\ main[11] = seed_security
  /\ main[12] = seed_tenancy_extras
  /\ main[13] = seed_rbac
  /\ main[14] = seed_notifications
  /\ main[15] = seed_operations
BY DEF main

(* Each table is filled by one step; the wipe empties all of them but users. *)
LEMMA ScriptFills ==
  ASSUME NEW k \in SeedSteps, NEW n \in main[k].fills
  PROVE  /\ n \in Names /\ FilledBy[n] = k
         /\ n # "users" => n \in wipe_domain_tables
<1>0. \/ k = 2 \/ k = 3 \/ k = 4 \/ k = 5 \/ k = 6 \/ k = 7 \/ k = 8 \/ k = 9
      \/ k = 10 \/ k = 11 \/ k = 12 \/ k = 13 \/ k = 14 \/ k = 15
  <2>1. k \in 2..15
    BY ScriptLength
  <2> QED
    BY <2>1
<1>1. CASE k = 2
  <2>1. /\ n \in DOMAIN Place /\ FilledBy[n] = 2
        /\ n # "users" => n \in wipe_domain_tables
    BY <1>1, ScriptSteps DEF seed_user, Fills, FilledBy, Place, wipe_domain_tables
  <2> QED
    BY <1>1, <2>1, PlacedNames
<1>2. CASE k = 3
  <2>1. /\ n \in DOMAIN Place /\ FilledBy[n] = 3
        /\ n # "users" => n \in wipe_domain_tables
    BY <1>2, ScriptSteps DEF seed_engine, Fills, FilledBy, Place, wipe_domain_tables
  <2> QED
    BY <1>2, <2>1, PlacedNames
<1>3. CASE k = 4
  <2>1. /\ n \in DOMAIN Place /\ FilledBy[n] = 4
        /\ n # "users" => n \in wipe_domain_tables
    BY <1>3, ScriptSteps DEF seed_tenants, Fills, FilledBy, Place, wipe_domain_tables
  <2> QED
    BY <1>3, <2>1, PlacedNames
<1>4. CASE k = 5
  <2>1. /\ n \in DOMAIN Place /\ FilledBy[n] = 5
        /\ n # "users" => n \in wipe_domain_tables
    BY <1>4, ScriptSteps DEF seed_anomalies, Fills, FilledBy, Place, wipe_domain_tables
  <2> QED
    BY <1>4, <2>1, PlacedNames
<1>5. CASE k = 6
  <2>1. /\ n \in DOMAIN Place /\ FilledBy[n] = 6
        /\ n # "users" => n \in wipe_domain_tables
    BY <1>5, ScriptSteps DEF seed_compliance, Fills, FilledBy, Place, wipe_domain_tables
  <2> QED
    BY <1>5, <2>1, PlacedNames
<1>6. CASE k = 7
  <2>1. /\ n \in DOMAIN Place /\ FilledBy[n] = 7
        /\ n # "users" => n \in wipe_domain_tables
    BY <1>6, ScriptSteps DEF seed_score_snapshots, Fills, FilledBy, Place, wipe_domain_tables
  <2> QED
    BY <1>6, <2>1, PlacedNames
<1>7. CASE k = 8
  <2>1. /\ n \in DOMAIN Place /\ FilledBy[n] = 8
        /\ n # "users" => n \in wipe_domain_tables
    BY <1>7, ScriptSteps DEF seed_config, Fills, FilledBy, Place, wipe_domain_tables
  <2> QED
    BY <1>7, <2>1, PlacedNames
<1>8. CASE k = 9
  <2>1. /\ n \in DOMAIN Place /\ FilledBy[n] = 9
        /\ n # "users" => n \in wipe_domain_tables
    BY <1>8, ScriptSteps DEF seed_configurations, Fills, FilledBy, Place, wipe_domain_tables
  <2> QED
    BY <1>8, <2>1, PlacedNames
<1>9. CASE k = 10
  <2>1. /\ n \in DOMAIN Place /\ FilledBy[n] = 10
        /\ n # "users" => n \in wipe_domain_tables
    BY <1>9, ScriptSteps DEF seed_hsm, Fills, FilledBy, Place, wipe_domain_tables
  <2> QED
    BY <1>9, <2>1, PlacedNames
<1>10. CASE k = 11
  <2>1. /\ n \in DOMAIN Place /\ FilledBy[n] = 11
        /\ n # "users" => n \in wipe_domain_tables
    BY <1>10, ScriptSteps DEF seed_security, Fills, FilledBy, Place, wipe_domain_tables
  <2> QED
    BY <1>10, <2>1, PlacedNames
<1>11. CASE k = 12
  <2>1. /\ n \in DOMAIN Place /\ FilledBy[n] = 12
        /\ n # "users" => n \in wipe_domain_tables
    BY <1>11, ScriptSteps DEF seed_tenancy_extras, Fills, FilledBy, Place, wipe_domain_tables
  <2> QED
    BY <1>11, <2>1, PlacedNames
<1>12. CASE k = 13
  <2>1. /\ n \in DOMAIN Place /\ FilledBy[n] = 13
        /\ n # "users" => n \in wipe_domain_tables
    BY <1>12, ScriptSteps DEF seed_rbac, Fills, FilledBy, Place, wipe_domain_tables
  <2> QED
    BY <1>12, <2>1, PlacedNames
<1>13. CASE k = 14
  <2>1. /\ n \in DOMAIN Place /\ FilledBy[n] = 14
        /\ n # "users" => n \in wipe_domain_tables
    BY <1>13, ScriptSteps DEF seed_notifications, Fills, FilledBy, Place, wipe_domain_tables
  <2> QED
    BY <1>13, <2>1, PlacedNames
<1>14. CASE k = 15
  <2>1. /\ n \in DOMAIN Place /\ FilledBy[n] = 15
        /\ n # "users" => n \in wipe_domain_tables
    BY <1>14, ScriptSteps DEF seed_operations, Fills, FilledBy, Place, wipe_domain_tables
  <2> QED
    BY <1>14, <2>1, PlacedNames
<1> QED
  BY <1>0, <1>1, <1>2, <1>3, <1>4, <1>5, <1>6, <1>7, <1>8, <1>9, <1>10,
     <1>11, <1>12, <1>13, <1>14

(* What a step looks up was filled by an earlier one. *)
LEMMA ScriptReads ==
  ASSUME NEW k \in SeedSteps, NEW n \in main[k].reads
  PROVE  \E l \in SeedSteps : l < k /\ n \in main[l].fills
<1>0. \/ k = 2 \/ k = 3 \/ k = 4 \/ k = 5 \/ k = 6 \/ k = 7 \/ k = 8 \/ k = 9
      \/ k = 10 \/ k = 11 \/ k = 12 \/ k = 13 \/ k = 14 \/ k = 15
  <2>1. k \in 2..15
    BY ScriptLength
  <2> QED
    BY <2>1
<1>1. CASE k = 2
  BY <1>1, ScriptSteps DEF seed_user, Fills
<1>2. CASE k = 3
  BY <1>2, ScriptSteps DEF seed_engine, Fills
<1>3. CASE k = 4
  BY <1>3, ScriptSteps DEF seed_tenants, Fills
<1>4. CASE k = 5
  <2>1. n \in main[4].fills
    BY <1>4, ScriptSteps DEF seed_anomalies, seed_tenants, Fills
  <2>2. 4 \in SeedSteps /\ 4 < k
    BY <1>4, ScriptLength
  <2> QED
    BY <2>1, <2>2
<1>5. CASE k = 6
  BY <1>5, ScriptSteps DEF seed_compliance, Fills
<1>6. CASE k = 7
  <2>1. n \in main[6].fills
    BY <1>6, ScriptSteps DEF seed_score_snapshots, seed_compliance, Fills
  <2>2. 6 \in SeedSteps /\ 6 < k
    BY <1>6, ScriptLength
  <2> QED
    BY <2>1, <2>2
<1>7. CASE k = 8
  BY <1>7, ScriptSteps DEF seed_config, Fills
<1>8. CASE k = 9
  BY <1>8, ScriptSteps DEF seed_configurations, Fills
<1>9. CASE k = 10
  BY <1>9, ScriptSteps DEF seed_hsm, Fills
<1>10. CASE k = 11
  <2>1. n \in main[10].fills
    BY <1>10, ScriptSteps DEF seed_security, seed_hsm, Fills
  <2>2. 10 \in SeedSteps /\ 10 < k
    BY <1>10, ScriptLength
  <2> QED
    BY <2>1, <2>2
<1>11. CASE k = 12
  <2>1. n \in main[4].fills
    BY <1>11, ScriptSteps DEF seed_tenancy_extras, seed_tenants, Fills
  <2>2. 4 \in SeedSteps /\ 4 < k
    BY <1>11, ScriptLength
  <2> QED
    BY <2>1, <2>2
<1>12. CASE k = 13
  BY <1>12, ScriptSteps DEF seed_rbac, Fills
<1>13. CASE k = 14
  BY <1>13, ScriptSteps DEF seed_notifications, Fills
<1>14. CASE k = 15
  BY <1>14, ScriptSteps DEF seed_operations, Fills
<1> QED
  BY <1>0, <1>1, <1>2, <1>3, <1>4, <1>5, <1>6, <1>7, <1>8, <1>9, <1>10,
     <1>11, <1>12, <1>13, <1>14

LEMMA AccountSteps ==
  ASSUME NEW k \in SeedSteps
  PROVE  (main[k] = seed_rbac <=> k = 13) /\ (main[k] = seed_user <=> k = 2)
<1>1. main[13] = seed_rbac /\ main[2] = seed_user
  BY ScriptSteps
<1>2. ASSUME main[k] = seed_rbac PROVE k = 13
  <2>1. "users" \in main[k].fills
    BY <1>2 DEF seed_rbac, Fills
  <2>2. FilledBy["users"] = 13
    BY DEF FilledBy
  <2> QED
    BY <2>1, <2>2, ScriptFills
<1>3. ASSUME main[k] = seed_user PROVE k = 2
  <2>1. main[k].fills = {}
    BY <1>3 DEF seed_user, Fills
  <2>2. /\ "tenants" \in main[4].fills /\ "engine_instances" \in main[3].fills
        /\ "incidents" \in main[5].fills /\ "compliance_frameworks" \in main[6].fills
        /\ "compliance_score_snapshots" \in main[7].fills
    BY ScriptSteps DEF seed_tenants, seed_engine, seed_anomalies, seed_compliance,
       seed_score_snapshots, Fills
  <2>3. /\ "config_parameters" \in main[8].fills /\ "configurations" \in main[9].fills
        /\ "hsm_slots" \in main[10].fills /\ "security_providers" \in main[11].fills
        /\ "breach_alerts" \in main[12].fills
    BY ScriptSteps DEF seed_config, seed_configurations, seed_hsm, seed_security,
       seed_tenancy_extras, Fills
  <2>4. /\ "users" \in main[13].fills /\ "notifications" \in main[14].fills
        /\ "background_jobs" \in main[15].fills
    BY ScriptSteps DEF seed_rbac, seed_notifications, seed_operations, Fills
  <2>5. k \in 2..15
    BY ScriptLength
  <2> QED
    BY <2>1, <2>2, <2>3, <2>4, <2>5
<1> QED
  BY <1>1, <1>2, <1>3

(* What the wipe and the deletion of accounts leave of the tables in use. *)
LEMMA LastingTables ==
  ASSUME NEW n \in UsedTables, schema = Names
  PROVE  n \in Emptied \/ n \in Lasting \/ n = "users"
<1>1. n \in Names /\ n \notin {"trg_audit_log_immutable", "oidc_status_fields", "bigint_sizes",
                             "sequence_identity"}
  BY SeedAssumption
<1>2. n \in DOMAIN Place
  BY <1>1, NamesCreated, CreatedPlaces
<1>3. \/ n \in wipe_domain_tables \/ n \in Lasting \/ n = "users"
      \/ n \in {"incident_anomaly_links", "tenant_members", "compliance_assessments"}
  BY <1>1, <1>2 DEF Place, wipe_domain_tables, Lasting
<1>4. /\ CascadeTo("anomaly_events") \in References["incident_anomaly_links"]
      /\ CascadeTo("tenants") \in References["tenant_members"]
      /\ CascadeTo("compliance_frameworks") \in References["compliance_assessments"]
  <2>1. /\ versions[1].up[25] = Table("incident_anomaly_links",
                                      {CascadeTo("anomaly_events"), CascadeTo("incidents")})
        /\ Size[1] = 27
    BY InitialTables DEF versions, Size
  <2>2. /\ versions[8].up[2] = Table("tenant_members", {CascadeTo("tenants"), CascadeTo("users")})
        /\ Size[8] = 2
    BY DEF versions, Size, add_tenant_members_and_password_reset_tokens, Revision
  <2>3. /\ versions[9].up[1] = Table("compliance_assessments", {CascadeTo("compliance_frameworks")})
        /\ Size[9] = 1
    BY DEF versions, Size, add_compliance_assessments, Revision
  <2>4. References[versions[1].up[25].name] = versions[1].up[25].refs
    BY <2>1, ReferencesOfName
  <2>5. References[versions[8].up[2].name] = versions[8].up[2].refs
    BY <2>2, ReferencesOfName
  <2>6. References[versions[9].up[1].name] = versions[9].up[1].refs
    BY <2>3, ReferencesOfName
  <2> QED
    BY <2>1, <2>2, <2>3, <2>4, <2>5, <2>6 DEF Table
<1>5. "anomaly_events" \in wipe_domain_tables /\ "tenants" \in wipe_domain_tables
      /\ "compliance_frameworks" \in wipe_domain_tables
  BY DEF wipe_domain_tables
<1>6. CASE n \in {"incident_anomaly_links", "tenant_members", "compliance_assessments"}
  BY <1>1, <1>4, <1>5, <1>6 DEF Emptied
<1>7. CASE n \in wipe_domain_tables
  BY <1>7 DEF Emptied
<1> QED
  BY <1>3, <1>6, <1>7

LEMMA AccountsReferToNothing == CascadeTo("users") \notin References["users"]
<1>1. versions[1].up[11] = Table("users", {}) /\ Size[1] = 27
  BY InitialTables DEF versions, Size
<1>2. References[versions[1].up[11].name] = versions[1].up[11].refs
  BY <1>1, ReferencesOfName
<1> QED
  BY <1>1, <1>2 DEF Table

LEMMA AtHead ==
  ASSUME SchemaInv, get_migration_status
  PROVE  schema = Names /\ "bigint_sizes" \in schema
<1>1. revision = 15 /\ schema = SchemaOf(15)
  BY HeadIsFifteen DEF SchemaInv, get_migration_status, SchemaOf
<1>2. \A n \in Names : n \in SchemaOf(15)
  BY NamesCreated DEF SchemaOf
<1>3. SchemaOf(15) \subseteq Names
  BY PlaceInSchema
<1>4. "bigint_sizes" \in SchemaOf(15)
  BY SpecialPlaces DEF SchemaOf
<1> QED
  BY <1>1, <1>2, <1>3, <1>4

(* The rows that the deletion of the accounts leaves. *)
LEMMA AccountsGone ==
  ASSUME AccountsDeleted
  PROVE  added' \subseteq {a \in added : a.table # "users"}
<1>1. PICK stays \in SUBSET {a \in added : CascadeTo("users") \in References[a.table]} :
        added' = stays \cup {a \in added : /\ a.table # "users"
                                           /\ CascadeTo("users") \notin References[a.table]}
  BY DEF AccountsDeleted
<1>2. \A a \in stays : a \in added /\ a.table # "users"
  BY AccountsReferToNothing
<1> QED
  BY <1>1, <1>2

SeedSafe == SchemaInv /\ SeedTypeOK /\ SeedInv

LEMMA WipeKeeps ==
  ASSUME SeedSafe, Wipe
  PROVE  SeedSafe'
<1>1. /\ step = 1 /\ step' = 2 /\ schema = Names /\ get_migration_status
      /\ UNCHANGED <<revision, schema, runs, admin, appended>> /\ tenantAudited' = FALSE
  BY AtHead DEF Wipe, SeedSafe, SeedInv
<1>2. rows \in [Names -> Nat] /\ revision \in 0..head
  BY DEF SeedSafe, SchemaInv, MigrationsTypeOK
<1>3. rows' = [n \in Names |-> IF n \in Emptied THEN 0 ELSE rows[n]]
  BY <1>2 DEF Wipe
<1>4. SchemaInv'
  <2>1. rows' \in [Names -> Nat] /\ rows'["engine_instances"] \in {0, rows["engine_instances"]}
    BY <1>2, <1>3, SpecialPlaces
  <2>2. EngineHasRows' => EngineHasRows
    BY <1>2, <2>1, SpecialPlaces DEF EngineHasRows
  <2> QED
    BY <1>1, <2>1, <2>2 DEF SeedSafe, SchemaInv, MigrationsTypeOK
<1>5. added' = {a \in added : a.table \notin Emptied}
  BY DEF Wipe
<1>6. SeedTypeOK'
  <2>1. {admin, tenantAudited}' \subseteq BOOLEAN
    BY <1>1 DEF SeedSafe, SeedTypeOK
  <2>2. DOMAIN rows' = DOMAIN rows
    BY <1>2, <1>3
  <2>3. /\ step' \in 0..(Len(main) + 1) /\ runs' \in Nat /\ appended' \in 0..seed_audit_log
        /\ added' \subseteq [table : DOMAIN rows', run : Nat]
    BY <1>1, <1>5, <2>2, ScriptLength DEF SeedSafe, SeedTypeOK
  <2> QED
    BY <2>1, <2>3 DEF SeedTypeOK
<1>7. ASSUME NEW k \in SeedSteps, NEW n \in main[k].fills, n # "users"
      PROVE  rows'[n] = 0
  BY <1>3, <1>7, ScriptFills DEF Emptied
<1>8. ASSUME NEW a \in added' PROVE a.table \in Lasting \/ a.table = "users"
  BY <1>1, <1>5, LastingTables DEF SeedSafe, SeedInv
<1>9. \E k \in SeedSteps : k >= 2 /\ main[k] = seed_rbac
  <2>1. 13 \in SeedSteps
    BY ScriptLength
  <2> QED
    BY <2>1, AccountSteps
<1>10. SeedInv'
  <2>1. get_migration_status'
    BY <1>1 DEF get_migration_status
  <2>2. \A a \in added' : a.table \in UsedTables
    BY <1>5 DEF SeedSafe, SeedInv
  <2>3. \A k \in SeedSteps : ~(k < step')
    BY <1>1, ScriptLength
  <2> QED
    BY <1>1, <1>7, <1>8, <1>9, <2>1, <2>2, <2>3 DEF SeedInv
<1> QED
  BY <1>4, <1>6, <1>10 DEF SeedSafe

LEMMA SeedKeeps ==
  ASSUME SeedSafe, Seed
  PROVE  SeedSafe'
<1>1. /\ step \in 2..15 /\ step \in SeedSteps /\ step' = step + 1 /\ get_migration_status
      /\ schema = Names /\ "bigint_sizes" \in schema
      /\ UNCHANGED <<revision, schema, runs, tenantAudited, appended>>
  BY AtHead, ScriptLength DEF Seed, SeedSafe, SeedInv
<1>2. rows \in [Names -> Nat] /\ revision \in 0..head
  BY DEF SeedSafe, SchemaInv, MigrationsTypeOK
<1>3. rows' = [n \in Names |-> IF n \in main[step].fills THEN Copies(n) ELSE rows[n]]
  BY <1>2 DEF Seed
<1>4. \A n \in Names : Copies(n) \in Nat
  BY <1>2 DEF Copies
<1>5. SchemaInv'
  <2>1. rows' \in [Names -> Nat]
    BY <1>2, <1>3, <1>4
  <2> QED
    BY <1>1, <2>1 DEF SeedSafe, SchemaInv, MigrationsTypeOK
<1>6. /\ added' \subseteq added
      /\ step = 13 => \A a \in added' : a.table # "users"
  <2>1. CASE step = 13
    <3>1. AccountsDeleted
      BY <1>1, <2>1, AccountSteps DEF Seed
    <3> QED
      BY <3>1, AccountsGone
  <2>2. CASE step # 13
    BY <1>1, <2>2, AccountSteps DEF Seed
  <2> QED
    BY <2>1, <2>2
<1>7. admin' \in BOOLEAN /\ (admin => admin') /\ (step = 2 => admin')
  <2>1. admin' = (admin \/ main[step] = seed_user)
    BY DEF Seed
  <2>2. step = 2 => main[step] = seed_user
    BY <1>1, AccountSteps
  <2> QED
    BY <2>1, <2>2
<1>8. SeedTypeOK'
  <2>1. DOMAIN rows' = DOMAIN rows
    BY <1>2, <1>3
  <2> QED
    BY <1>1, <1>6, <1>7, <2>1, ScriptLength DEF SeedSafe, SeedTypeOK
<1>9. ASSUME NEW k \in SeedSteps, NEW n \in main[k].fills
      PROVE  /\ k < step + 1 => rows'[n] = 1
             /\ k >= step + 1 /\ n # "users" => rows'[n] = 0
  <2>1. /\ k < step => rows[n] = 1
        /\ k >= step /\ n # "users" => rows[n] = 0
    <3>1. step > 1
      BY <1>1
    <3> QED
      BY <3>1 DEF SeedSafe, SeedInv
  <2>2. n \in Names /\ k \in 2..15
    BY ScriptFills, ScriptLength
  <2>3. CASE k = step
    <3>1. Copies(n) = 1
      BY <2>1, <2>2, <2>3 DEF Copies
    <3> QED
      BY <1>1, <1>3, <2>2, <2>3, <3>1
  <2>4. CASE k # step
    <3>1. n \notin main[step].fills
      BY <1>1, <2>4, ScriptFills
    <3> QED
      BY <1>1, <1>3, <2>1, <2>2, <2>4, <3>1
  <2> QED
    BY <2>3, <2>4
<1>10. ASSUME NEW a \in added'
       PROVE  \/ a.table \in Lasting \/ a.run = runs'
              \/ /\ a.table = "users"
                 /\ \E k \in SeedSteps : k >= step + 1 /\ main[k] = seed_rbac
  <2>1. \/ a.table \in Lasting \/ a.run = runs
        \/ /\ a.table = "users"
           /\ \E k \in SeedSteps : k >= step /\ main[k] = seed_rbac
    BY <1>1, <1>6 DEF SeedSafe, SeedInv
  <2>2. CASE a.table = "users" /\ \E k \in SeedSteps : k >= step /\ main[k] = seed_rbac
    <3>1. step # 13
      BY <1>6, <2>2
    <3>2. PICK k \in SeedSteps : k >= step /\ main[k] = seed_rbac
      BY <2>2
    <3>3. k = 13 /\ k >= step + 1
      BY <1>1, <3>1, <3>2, AccountSteps
    <3> QED
      BY <2>2, <3>2, <3>3
  <2> QED
    BY <1>1, <2>1, <2>2
<1>11. SeedInv'
  <2>1. get_migration_status'
    BY <1>1 DEF get_migration_status
  <2>2. \A a \in added' : a.table \in UsedTables
    BY <1>6 DEF SeedSafe, SeedInv
  <2>3. admin'
    <3>1. CASE step = 2
      BY <1>7, <3>1
    <3>2. CASE step > 2
      <4>1. step > 1
        BY <1>1
      <4>2. admin
        BY <3>2, <4>1 DEF SeedSafe, SeedInv
      <4> QED
        BY <1>7, <4>2
    <3> QED
      BY <1>1, <3>1, <3>2
  <2>4. step' > 1 /\ step' # 0
    BY <1>1
  <2> QED
    BY <1>1, <1>9, <1>10, <2>1, <2>2, <2>3, <2>4 DEF SeedInv
<1> QED
  BY <1>5, <1>8, <1>11 DEF SeedSafe

LEMMA MigrateKeeps ==
  ASSUME SeedSafe, Migrate
  PROVE  SeedSafe'
<1>1. step = 0 /\ UNCHANGED <<step, runs, appended>>
  BY DEF Migrate
<1>2. SchemaInv'
  BY MigrationsKeep DEF Migrate, SeedSafe
<1>3. DOMAIN rows' = DOMAIN rows
  BY <1>2 DEF SeedSafe, SchemaInv, MigrationsTypeOK
<1>4. added' \subseteq added
  BY DEF Migrate
<1>5. admin' \in BOOLEAN /\ tenantAudited' \in BOOLEAN
  BY DEF Migrate
<1>6. SeedTypeOK'
  BY <1>1, <1>3, <1>4, <1>5 DEF SeedSafe, SeedTypeOK
<1>7. SeedInv'
  BY <1>1, <1>4 DEF SeedSafe, SeedInv
<1> QED
  BY <1>2, <1>6, <1>7 DEF SeedSafe

LEMMA UseKeeps ==
  ASSUME SeedSafe, NEW n \in UsedTables, Use(n)
  PROVE  SeedSafe'
<1>1. UNCHANGED <<schemaVars, step, runs, admin, tenantAudited, appended>>
  BY DEF Use
<1>2. PICK row : row = [table |-> n, run |-> IF step = 0 THEN 0 ELSE runs]
  OBVIOUS
<1>3. added' = added \cup {row}
  BY <1>2 DEF Use
<1>4. SchemaInv'
  BY <1>1 DEF SeedSafe, SchemaInv, MigrationsTypeOK, schemaVars, EngineHasRows
<1>5. n \in DOMAIN rows /\ runs \in Nat
  BY SeedAssumption DEF SeedSafe, SchemaInv, MigrationsTypeOK, SeedTypeOK
<1>6. row \in [table : DOMAIN rows, run : Nat] /\ row.table = n /\ (step # 0 => row.run = runs)
  BY <1>2, <1>5
<1>7. SeedTypeOK'
  BY <1>1, <1>3, <1>6 DEF SeedSafe, SeedTypeOK, schemaVars
<1>8. SeedInv'
  <2>1. get_migration_status' = get_migration_status
    BY <1>1 DEF get_migration_status, schemaVars
  <2>2. \A a \in added' : a \in added \/ a = row
    BY <1>3
  <2>3. step > 1 => step # 0
    BY DEF SeedSafe, SeedTypeOK
  <2> QED
    BY <1>1, <1>6, <2>1, <2>2, <2>3 DEF SeedSafe, SeedInv, schemaVars
<1> QED
  BY <1>4, <1>7, <1>8 DEF SeedSafe

(* Steps that change neither the schema nor the rows, and leave the script   *)
(* where it is or take it to its start or its end.                           *)
LEMMA ScriptMoves ==
  ASSUME SeedSafe, UNCHANGED <<schemaVars, added, admin>>, SeedTypeOK',
         \/ step' = step /\ runs' = runs
         \/ step' = 0
         \/ step' = 1 /\ get_migration_status
  PROVE  SeedSafe'
<1>1. SchemaInv'
  BY DEF SeedSafe, SchemaInv, MigrationsTypeOK, schemaVars, EngineHasRows
<1>2. get_migration_status' = get_migration_status
  BY DEF get_migration_status, schemaVars
<1>3. SeedInv'
  <2>1. CASE step' = step /\ runs' = runs
    BY <1>2, <2>1 DEF SeedSafe, SeedInv, schemaVars
  <2>2. CASE step' = 0
    BY <1>2, <2>2 DEF SeedSafe, SeedInv, schemaVars
  <2>3. CASE step' = 1 /\ get_migration_status
    BY <1>2, <2>3 DEF SeedSafe, SeedInv, schemaVars
  <2> QED
    BY <2>1, <2>2, <2>3
<1> QED
  BY <1>1, <1>3 DEF SeedSafe

LEMMA SeedStep ==
  ASSUME SeedSafe, [SeedNext]_<<schemaVars, seedVars>>
  PROVE  SeedSafe'
<1> USE ScriptLength
<1>1. ASSUME Start PROVE SeedSafe'
  BY <1>1, ScriptMoves DEF Start, SeedSafe, SeedTypeOK, seed_audit_log, schemaVars
<1>2. ASSUME WipeFails PROVE SeedSafe'
  BY <1>2, ScriptMoves DEF WipeFails, SeedSafe, SeedTypeOK, schemaVars
<1>3. ASSUME AppendEntry PROVE SeedSafe'
  BY <1>3, ScriptMoves DEF AppendEntry, SeedSafe, SeedTypeOK, seed_audit_log, schemaVars
<1>4. ASSUME Exit PROVE SeedSafe'
  BY <1>4, ScriptMoves DEF Exit, SeedSafe, SeedTypeOK, schemaVars
<1>5. ASSUME AuditDemoAnomaly PROVE SeedSafe'
  BY <1>5, ScriptMoves DEF AuditDemoAnomaly, SeedSafe, SeedTypeOK, schemaVars
<1>6. ASSUME UNCHANGED <<schemaVars, seedVars>> PROVE SeedSafe'
  BY <1>6, ScriptMoves DEF SeedSafe, SeedTypeOK, schemaVars, seedVars
<1> QED
  BY <1>1, <1>2, <1>3, <1>4, <1>5, <1>6, WipeKeeps, SeedKeeps, MigrateKeeps, UseKeeps DEF SeedNext

LEMMA SeedStart ==
  ASSUME SeedInit
  PROVE  SeedSafe
<1>1. SchemaInv
  <2>1. "engine_instances" \in Names
    BY SpecialPlaces
  <2>2. rows = [n \in Names |-> 0] /\ revision = 0 /\ schema = {}
    BY DEF SeedInit, MigrationsInit
  <2>3. ~EngineHasRows
    BY <2>1, <2>2 DEF EngineHasRows
  <2>4. UNION {Created[k] : k \in 1..revision} = {}
    BY <2>2
  <2> QED
    BY <2>2, <2>3, <2>4, HeadIsFifteen DEF SchemaInv, MigrationsTypeOK
<1>2. SeedTypeOK
  <2>1. {admin, tenantAudited} \subseteq BOOLEAN
    BY DEF SeedInit
  <2>2. /\ step \in 0..(Len(main) + 1) /\ runs \in Nat /\ appended \in 0..seed_audit_log
        /\ added \subseteq [table : DOMAIN rows, run : Nat]
    BY ScriptLength DEF SeedInit, seed_audit_log
  <2> QED
    BY <2>1, <2>2 DEF SeedTypeOK
<1>3. SeedInv
  BY DEF SeedInit, SeedInv
<1> QED
  BY <1>1, <1>2, <1>3 DEF SeedSafe

LEMMA SeedInductive == SeedSpec => []SeedSafe
<1>1. SeedSafe /\ [SeedNext]_<<schemaVars, seedVars>> => SeedSafe'
  BY SeedStep
<1> QED
  BY <1>1, SeedStart, PTL DEF SeedSpec

LEMMA Convergence ==
  ASSUME SeedSafe
  PROVE  SeedConverges
<1>1. ASSUME Completed
      PROVE  /\ \A n \in DemoTables : rows[n] = 1
             /\ admin
             /\ \A a \in added : a.table \in Lasting \/ a.run = runs
  <2>1. step = 16 /\ \A k \in SeedSteps : k < step
    BY <1>1, ScriptLength DEF Completed
  <2>2. step > 1 /\ step > 2 /\ \A k \in SeedSteps : ~(k >= step)
    BY <2>1, ScriptLength
  <2> QED
    BY <2>1, <2>2 DEF SeedSafe, SeedInv, DemoTables
<1>2. ASSUME step \in SeedSteps, NEW n \in main[step].reads
      PROVE  rows[n] = 1
  <2>1. step > 1
    BY <1>2, ScriptLength
  <2>2. PICK l \in SeedSteps : l < step /\ n \in main[l].fills
    BY <1>2, ScriptReads
  <2> QED
    BY <2>1, <2>2 DEF SeedSafe, SeedInv
<1> QED
  BY <1>1, <1>2 DEF SeedConverges

(* Whatever upgrades, downgrades and runs of the seed script came before,    *)
(* interrupted or not, the schema is the one of its revision, every foreign  *)
(* key has its table, alembic upgrade head (docker-entrypoint.sh) is         *)
(* accepted, and so is the downgrade of a database without engine rows.      *)
THEOREM HeadIsAlwaysReachable == SeedSpec => []SchemaSound
<1>1. SeedSafe => SchemaSound
  BY SchemaSoundness DEF SeedSafe
<1> QED
  BY <1>1, SeedInductive, PTL

(* A run of scripts/seed_data.py that completes leaves one copy of the demo  *)
(* rows and no older row of the service but audit entries and tokens,        *)
(* whatever crashed runs left behind and whatever tables the service uses    *)
(* meanwhile; every seed function finds the rows it looks up.                *)
THEOREM SeedingConverges == SeedSpec => []SeedConverges
<1>1. SeedSafe => SeedConverges
  BY Convergence
<1> QED
  BY <1>1, SeedInductive, PTL

-----------------------------------------------------------------------------
(* Part 6: the four subjects together. *)

LifecycleInv == AnomaliesInv /\ ReadersTypeOK /\ ReadersInv /\ KeyTypeOK /\ KeyInv /\ SeedSafe

LEMMA LifecycleStart == Init => LifecycleInv
BY AnomaliesStart, ReadersStart, KeyStart, SeedStart DEF Init, LifecycleInv

LEMMA LifecycleStep == LifecycleInv /\ [Next]_vars => LifecycleInv'
<1> SUFFICES ASSUME LifecycleInv, [Next]_vars
             PROVE  LifecycleInv'
  OBVIOUS
<1>1. [AnomaliesNext]_<<reqVars, anomalyTables>>
  BY DEF Next, vars, anomalyVars
<1>2. [ReadersNext]_readerVars
  BY DEF Next, vars
<1>3. [KeyNext]_keyVars
  BY DEF Next, vars
<1>4. [SeedNext]_<<schemaVars, seedVars>>
  BY DEF Next, vars, deployVars
<1>5. AnomaliesInv'
  BY <1>1, AnomaliesStep DEF LifecycleInv
<1>6. ReadersTypeOK' /\ ReadersInv'
  BY <1>2, ReadersStep DEF LifecycleInv
<1>7. KeyTypeOK' /\ KeyInv'
  BY <1>3, KeyInvStep DEF LifecycleInv
<1>8. SeedSafe'
  BY <1>4, SeedStep DEF LifecycleInv
<1> QED
  BY <1>5, <1>6, <1>7, <1>8 DEF LifecycleInv

(* The tables, the readers' results, the key file and the processes, the     *)
(* schema and the state of the seed script always have their types, whatever *)
(* happens to any of them.                                                   *)
THEOREM LifecycleTypeCorrect == Spec => []TypeOK
<1>1. LifecycleInv => TypeOK
  BY DEF LifecycleInv, TypeOK, AnomaliesInv, SeedSafe, SchemaInv
<1> QED
  BY <1>1, LifecycleStart, LifecycleStep, PTL DEF Spec

=============================================================================
