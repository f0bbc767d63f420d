----------------------------- MODULE Compliance -----------------------------
(***************************************************************************)
(* Control mappings and assessments (app/services/compliance_service.py).  *)
(* Mappings are written by the seed script only; an assessment is started  *)
(* and completed by requests, and completing it records what the mappings  *)
(* of its framework say.                                                   *)
(*                                                                         *)
(* Percentages are integers: scores in tenths of a percent, as they are    *)
(* rounded to one digit, coverage in percent.                              *)
(***************************************************************************)
EXTENDS Requests

CONSTANTS
    Frameworks,
    Domains,            \* control domains
    MaxAssessments,     \* bound: assessments started
    MaxCompletions      \* bound: times at which assessments are completed

\* The bounds are what the rounding of the reports distinguishes: one gap among
\* 100 frameworks, or among 1000 domains, can round to full coverage.
ASSUME ComplianceAssumption ==
    /\ {MaxAssessments, MaxCompletions} \subseteq Nat
    /\ IsFiniteSet(Frameworks) /\ Cardinality(Frameworks) < 100
    /\ IsFiniteSet(Domains) /\ Cardinality(Domains) < 1000

VARIABLES
    mappings,       \* table control_mappings, by framework and domain
    assessments,    \* table compliance_assessments, NULL for no row
    completions     \* datetime.now(), counted in completions

complianceTables == <<mappings, assessments, completions>>

-----------------------------------------------------------------------------
ControlStatus == {"MAPPED", "PARTIAL", "GAP", "NOT_APPLICABLE"}

AssessmentIds == 1..MaxAssessments

\* The columns complete_assessment fills in; NULL before.
Outcome == [total_controls : Nat, mapped_controls : Nat, gap_controls : Nat, score : 0..1000]

ComplianceAssessment == [framework : Frameworks, status : {"IN_PROGRESS", "COMPLETED"},
                         completed_at : Nat, outcome : {NULL} \cup Outcome]

ComplianceRequest == [op : {"complete"}, assessment : AssessmentIds, at : Nat, outcome : Outcome]

ASSUME ComplianceNoRow ==
    NULL \notin ControlStatus /\ NULL \notin Outcome /\ NULL \notin ComplianceAssessment

\* round() of num / den, a tie to the even neighbour.
Rounded(num, den) ==
    LET down == num \div den
        rest == 2 * (num % den)
    IN  IF rest > den \/ (rest = den /\ down % 2 = 1) THEN down + 1 ELSE down

\* The rows of the table with one of the given statuses.
Controls(fs, statuses) ==
    {c \in fs \X Domains : mappings[c[1]][c[2]] \in statuses}

\* The rows that count, and their weight in halves: mapped 1, partial 0.5.
applicable(fs) == Controls(fs, ControlStatus \ {"NOT_APPLICABLE"})

Doubles_partial(rows) ==
    2 * Cardinality({c \in rows : mappings[c[1]][c[2]] \in {"MAPPED", "PARTIAL"}})

weighted(rows) ==
    2 * Cardinality({c \in rows : mappings[c[1]][c[2]] = "MAPPED"})
    + Cardinality({c \in rows : mappings[c[1]][c[2]] = "PARTIAL"})

-----------------------------------------------------------------------------
(* What the endpoints report *)

\* _build_control_coverage: the coverage_percent of a domain.
control_coverage(fs, d) ==
    LET rows == {c \in applicable(fs) : c[2] = d}
    IN  IF rows = {} THEN 0 ELSE Rounded(100 * weighted(rows), 2 * Cardinality(rows))

get_compliance_summary ==
    [total_controls   |-> Cardinality(Controls(Frameworks, ControlStatus)),
     mapped_controls  |-> Cardinality(Controls(Frameworks, {"MAPPED"})),
     partial_controls |-> Cardinality(Controls(Frameworks, {"PARTIAL"})),
     gap_controls     |-> Cardinality(Controls(Frameworks, {"GAP"}))]

get_gaps(fs) == Controls(fs, {"GAP", "PARTIAL"})

-----------------------------------------------------------------------------
(* Assessments *)

start_assessment(s, f) ==
    \E i \in AssessmentIds :
      /\ assessments[i] = NULL
      /\ \A j \in AssessmentIds : j < i => assessments[j] # NULL
      /\ Instant(s)
      /\ assessments' = [assessments EXCEPT ![i] =
                           [framework |-> f, status |-> "IN_PROGRESS",
                            completed_at |-> 0, outcome |-> NULL]]
      /\ UNCHANGED <<mappings, completions>>

Sums_weights(f) ==
    [total_controls  |-> Cardinality(Controls({f}, ControlStatus)),
     mapped_controls |-> Cardinality(Controls({f}, {"MAPPED"})),
     gap_controls    |-> Cardinality(Controls({f}, {"GAP"})),
     score           |-> 500 * weighted(applicable({f}))]

\* What completing an assessment of f records, from the mappings loaded.
Assessed(f) ==
    LET n == Cardinality(applicable({f}))
    IN  [total_controls  |-> Cardinality(Controls({f}, ControlStatus)),
         mapped_controls |-> Cardinality(Controls({f}, {"MAPPED"})),
         gap_controls    |-> Cardinality(Controls({f}, {"GAP"})),
         score           |-> IF n = 0 THEN 0
                             ELSE Rounded(1000 * weighted(applicable({f})), 2 * n)]

Recompletes(i) == assessments[i] # NULL

\* 404, and 409 for an assessment that was loaded as completed.
Completable(i) == assessments[i] # NULL /\ assessments[i].status # "COMPLETED"

complete_assessment(s, i) ==
    /\ Completable(i)
    /\ completions < MaxCompletions
    /\ completions' = completions + 1
    /\ Begin(s, [op |-> "complete", assessment |-> i, at |-> completions + 1,
                 outcome |-> Assessed(assessments[i].framework)])
    /\ UNCHANGED <<mappings, assessments>>

CompleteCommit(s) ==
    /\ req[s].op = "complete"
    /\ assessments' = [assessments EXCEPT ![req[s].assessment].status = "COMPLETED",
                                          ![req[s].assessment].completed_at = req[s].at,
                                          ![req[s].assessment].outcome = req[s].outcome]
    /\ Finish(s)
    /\ UNCHANGED <<mappings, completions>>

-----------------------------------------------------------------------------
\* The seeded mappings: a domain has none or one per framework.
ComplianceInit ==
    /\ mappings \in [Frameworks -> [Domains -> {NULL} \cup ControlStatus]]
    /\ assessments = [i \in AssessmentIds |-> NULL]
    /\ completions = 0

ComplianceNext ==
    \/ \E s \in Sessions, f \in Frameworks : start_assessment(s, f)
    \/ \E s \in Sessions, i \in AssessmentIds : complete_assessment(s, i)
    \/ \E s \in Sessions : \/ CompleteCommit(s)
                           \/ Abort(s) /\ UNCHANGED complianceTables

-----------------------------------------------------------------------------
ComplianceTypeOK ==
    /\ mappings \in [Frameworks -> [Domains -> {NULL} \cup ControlStatus]]
    /\ assessments \in [AssessmentIds -> {NULL} \cup ComplianceAssessment]
    /\ completions \in Nat

Completed == {i \in AssessmentIds : assessments[i] # NULL /\ assessments[i].status = "COMPLETED"}

\* The domains that framework f alone covers to p percent.
At(f, p) == Cardinality({c \in applicable({f}) : control_coverage({f}, c[2]) = p})

(* What the overview, the summary, the gap list and a completed assessment   *)
(* say of the same mappings agrees: the gap list is empty exactly when every *)
(* domain that applies is covered to 100%, the summary counts the rows of    *)
(* the gap list, a completed assessment has score 100 exactly when its       *)
(* framework has something to assess and no gap, and its score "mirrors the  *)
(* overview's coverage weighting" (complete_assessment): it is the mean of   *)
(* the coverage the framework alone gives the domains that apply, which is   *)
(* 0, 50 or 100 for each.                                                    *)
ComplianceViewsAgree ==
    /\ get_gaps(Frameworks) = {} <=>
         \A c \in applicable(Frameworks) : control_coverage(Frameworks, c[2]) = 100
    /\ get_compliance_summary.partial_controls + get_compliance_summary.gap_controls
         = Cardinality(get_gaps(Frameworks))
    /\ \A i \in Completed :
         LET f   == assessments[i].framework
             out == assessments[i].outcome
             app == applicable({f})
         IN  /\ assessments[i].completed_at # 0 /\ out # NULL
             /\ out.score = 1000 <=> app # {} /\ get_gaps({f}) = {}
             /\ out.gap_controls <= Cardinality(get_gaps({f}))
             /\ \A c \in app : control_coverage({f}, c[2]) \in {0, 50, 100}
             /\ app # {} =>
                  out.score = Rounded(1000 * (2 * At(f, 100) + At(f, 50)), 2 * Cardinality(app))

(* A completed assessment is a record: it stays completed with what it       *)
(* found, and as long as requests do not overlap with its time of            *)
(* completion.  (Two overlapping complete_assessment both pass the 409       *)
(* check and the later commit moves completed_at.)                           *)
CompletedOnce ==
    \A i \in Completed :
      /\ assessments'[i].status = "COMPLETED"
      /\ assessments'[i].outcome = assessments[i].outcome
      /\ ~overlapped' => assessments'[i] = assessments[i]

-----------------------------------------------------------------------------
(* Inductive strengthening of CompletedOnce and ComplianceViewsAgree: what a *)
(* completion under way is about to record, and what was recorded, is what   *)
(* the mappings say; until requests overlap it is the first completion.      *)

CompletionLoaded(s) ==
    LET i == req[s].assessment
    IN  /\ assessments[i] # NULL
        /\ req[s].at # 0
        /\ req[s].outcome = Assessed(assessments[i].framework)
        /\ ~overlapped => assessments[i].status # "COMPLETED"

OutcomesRecorded ==
    \A i \in Completed : /\ assessments[i].completed_at # 0
                         /\ assessments[i].outcome = Assessed(assessments[i].framework)

ComplianceInv ==
    /\ ComplianceTypeOK /\ RequestsOf(ComplianceRequest) /\ OneRequest
    /\ OutcomesRecorded
    /\ \A s \in Sessions : req[s] # Idle => CompletionLoaded(s)

=============================================================================
