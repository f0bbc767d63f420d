---------------------------- MODULE AuditReaders ----------------------------
(***************************************************************************)
(* Reading the audit log while it grows (app/services/audit_service.py):   *)
(* the export, which counts and selects in two statements with a cap, and  *)
(* a client that lists page after page.  Entries get their sequence number *)
(* when they are inserted and become visible when their transaction        *)
(* commits, in any order.                                                  *)
(***************************************************************************)
EXTENDS Naturals, FiniteSets

CONSTANTS
    Kinds,          \* event types, for the filter
    MaxEntries,     \* bound: entries inserted
    EXPORT_MAX_ROWS,
    PageSize,
    None            \* no filter, or no answer

ASSUME ReadersAssumption ==
    MaxEntries \in Nat /\ EXPORT_MAX_ROWS \in Nat \ {0} /\ PageSize \in Nat \ {0}

VARIABLES
    inserted,       \* how many sequence numbers are handed out
    pending,        \* entries inserted and not committed
    log,            \* committed entries
    reordered,      \* history: an entry was committed after a later one
    export,         \* the export under way or answered
    listing         \* the client's walk through the pages

readerVars == <<inserted, pending, log, reordered, export, listing>>

-----------------------------------------------------------------------------
Entry == [sequence : 1..MaxEntries, kind : Kinds]

\* `counted' is what the count saw (history), `total' its size.
AuditExportResponse ==
    [filter : Kinds \cup {None}, counted : SUBSET Entry, total : Nat,
     answered : BOOLEAN, entries : SUBSET Entry, truncated : BOOLEAN]

\* `first' is what matched when the first page was read (history).
Listing == [filter : Kinds \cup {None}, page : Nat, first : SUBSET Entry,
            seen : SUBSET Entry, complete : BOOLEAN]

Matching(f) == {e \in log : f = None \/ e.kind = f}

Earlier(S, e) == {d \in S : d.sequence < e.sequence}

Later(S, e) == {d \in S : d.sequence > e.sequence}

-----------------------------------------------------------------------------
(* Writers *)

\* The INSERT of append_entry_in_transaction takes the sequence number.
append_entry_in_transaction(k) ==
    /\ inserted < MaxEntries
    /\ inserted' = inserted + 1
    /\ pending' = pending \cup {[sequence |-> inserted + 1, kind |-> k]}
    /\ UNCHANGED <<log, reordered, export, listing>>

\* The commit, by append_entry or by the caller of the other one.
append_entry(e) ==
    /\ pending' = pending \ {e}
    /\ log' = log \cup {e}
    /\ reordered' = (reordered \/ Later(log, e) # {})
    /\ UNCHANGED <<inserted, export, listing>>

Rollback(e) ==
    /\ pending' = pending \ {e}
    /\ UNCHANGED <<inserted, log, reordered, export, listing>>

-----------------------------------------------------------------------------
(* Export *)

\* The first statement of export_entries counts ...
CountEntries(f) ==
    /\ export # None => export.answered
    /\ export' = [filter |-> f, counted |-> Matching(f), total |-> Cardinality(Matching(f)),
                  answered |-> FALSE, entries |-> {}, truncated |-> FALSE]
    /\ UNCHANGED <<inserted, pending, log, reordered, listing>>

Newest_first(S) == {e \in S : Cardinality(Later(S, e)) < EXPORT_MAX_ROWS}

\* ORDER BY sequence ASC LIMIT _EXPORT_MAX_ROWS.
Oldest(S) == {e \in S : Cardinality(Earlier(S, e)) < EXPORT_MAX_ROWS}

\* ... and the second one selects.
export_entries ==
    /\ export # None
    /\ ~export.answered
    /\ LET S == Oldest(Matching(export.filter))
       IN  export' = [export EXCEPT !.answered = TRUE, !.entries = S,
                                    !.truncated = export.total > Cardinality(S)]
    /\ UNCHANGED <<inserted, pending, log, reordered, listing>>

-----------------------------------------------------------------------------
(* Listing *)

Offset_counts_from_zero(page) == page * PageSize

Offset(page) == (page - 1) * PageSize

\* ORDER BY sequence DESC OFFSET ... LIMIT page_size.
list_entries(f, page) ==
    {e \in Matching(f) :
       Cardinality(Later(Matching(f), e)) \in Offset(page)..(Offset(page) + PageSize - 1)}

\* The client reads the next page, until one is not full.
ReadPage ==
    /\ ~listing.complete
    /\ LET rows == list_entries(listing.filter, listing.page)
       IN  listing' = [filter |-> listing.filter,
                       page |-> listing.page + 1,
                       first |-> IF listing.page = 1 THEN Matching(listing.filter)
                                 ELSE listing.first,
                       seen |-> listing.seen \cup rows,
                       complete |-> Cardinality(rows) < PageSize]
    /\ UNCHANGED <<inserted, pending, log, reordered, export>>

-----------------------------------------------------------------------------
ReadersInit ==
    /\ inserted = 0 /\ pending = {} /\ log = {} /\ reordered = FALSE
    /\ export = None
    /\ listing \in [filter : Kinds \cup {None}, page : {1}, first : {{}}, seen : {{}},
                     complete : {FALSE}]

ReadersNext ==
    \/ \E k \in Kinds : append_entry_in_transaction(k)
    \/ \E e \in pending : append_entry(e) \/ Rollback(e)
    \/ \E f \in Kinds \cup {None} : CountEntries(f)
    \/ export_entries \/ ReadPage

ReadersSpec == ReadersInit /\ [][ReadersNext]_readerVars

-----------------------------------------------------------------------------
ReadersTypeOK ==
    /\ inserted \in 0..MaxEntries
    /\ pending \subseteq Entry /\ log \subseteq Entry
    /\ export = None \/ export \in AuditExportResponse
    /\ listing \in Listing
    /\ reordered \in BOOLEAN

(* What `truncated' tells (export_entries): if it is set, entries that match *)
(* are missing from the export, whatever was committed between the count and *)
(* the select.  If it is not, every entry that was there at the count is in  *)
(* the export, provided entries are committed in the order of their sequence *)
(* numbers.  (An entry committed late can push a counted one over the cap    *)
(* without the export being marked.)                                         *)
ExportHonest ==
    export # None /\ export.answered =>
      /\ export.truncated => Matching(export.filter) \ export.entries # {}
      /\ ~export.truncated /\ ~reordered => export.counted \subseteq export.entries

(* A client that lists page after page until one is not full has seen every  *)
(* entry that matched when it began, whatever is committed meanwhile         *)
(* and in whatever order (list_entries).  (Entries that come in between move *)
(* the others down, so it may see one twice.)                                *)
ListingComplete == listing.complete => listing.first \subseteq listing.seen

-----------------------------------------------------------------------------
(* What the proofs need besides. *)

\* A sequence number is handed out once.
SequencesDistinct ==
    /\ \A e \in log \cup pending : e.sequence <= inserted
    /\ \A d, e \in log \cup pending : d.sequence = e.sequence => d = e

\* Entries that matched at the count still do, and as long as commits keep the
\* order they come before the entries that were committed since.
CountedFirst ==
    export # None =>
      /\ export.counted \subseteq Matching(export.filter)
      /\ export.total = Cardinality(export.counted)
      /\ ~reordered => \A d \in export.counted, e \in Matching(export.filter) \ export.counted :
                         d.sequence < e.sequence

\* The client has not passed by an entry without seeing it.
UnseenAhead ==
    /\ listing.page >= 1
    /\ listing.first \subseteq Matching(listing.filter)
    /\ \A e \in listing.first \ listing.seen :
         Cardinality(Later(Matching(listing.filter), e)) >= Offset(listing.page)

ReadersInv == SequencesDistinct /\ CountedFirst /\ UnseenAhead /\ ExportHonest /\ ListingComplete

=============================================================================
