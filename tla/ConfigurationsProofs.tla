------------------------ MODULE ConfigurationsProofs ------------------------
(***************************************************************************)
(* Theorems about Configurations for any sets of sessions and names.       *)
(*                                                                         *)
(* Part 1: under any interleaving the versions of a name are numbered      *)
(* without duplicates and gaps.  Part 2: until requests overlap at most    *)
(* one version of a name is ACTIVE.  Part 3: under any interleaving an     *)
(* activation or a rollback hands over in one commit.  Part 4: until       *)
(* requests overlap the ACTIVE version is the one the audit log names last.*)
(***************************************************************************)
EXTENDS Configurations, FiniteSetTheorems, WellFoundedInduction, TLAPS

-----------------------------------------------------------------------------
(* Facts about the largest version of a set of rows. *)

(* A nonempty set of naturals below a bound has a greatest element. *)
LEMMA GreatestNatural ==
  ASSUME NEW T, T \subseteq Nat, T # {}, NEW n \in Nat, \A k \in T : k <= n
  PROVE  \E m \in T : \A k \in T : k <= m
<1> DEFINE D == {n - k : k \in T}
<1>1. D \subseteq Nat /\ D # {}
  <2>1. \A k \in T : n - k \in Nat
    OBVIOUS
  <2> QED
    BY <2>1
<1>2. PICK d \in D : \A e \in D : ~(<<e, d>> \in OpToRel(<, Nat))
  BY <1>1, WFMin, NatLessThanWellFounded
<1>3. \A e \in D : ~(e < d)
  BY <1>1, <1>2 DEF OpToRel
<1>4. PICK m \in T : d = n - m
  OBVIOUS
<1>5. \A k \in T : ~(n - k < n - m)
  BY <1>3, <1>4
<1> QED
  BY <1>5

(* Max is well defined on such a set. *)
LEMMA MaxOfBounded ==
  ASSUME NEW T, T \subseteq Nat, T # {}, NEW n \in Nat, \A k \in T : k <= n
  PROVE  Max(T) \in T /\ \A k \in T : k <= Max(T)
<1>1. PICK m \in T : \A k \in T : m >= k
  BY GreatestNatural
<1> QED
  BY <1>1 DEF Max

(* _next_version returns a positive number whose predecessor, unless it is   *)
(* the first, is a version of the name the session sees.                     *)
LEMMA NextVersionFacts ==
  ASSUME TypeOK, VersionBound, NEW s \in Sessions, NEW n \in Names
  PROVE  /\ next_version(s, n) \in Nat
         /\ next_version(s, n) > 0
         /\ Precedes(Visible(s), n, next_version(s, n))
<1> DEFINE V == {q \in Visible(s) : q.name = n}
           T == {0} \cup {r.version : r \in V}
<1>1. \A r \in Visible(s) : r \in Configuration /\ r.version <= MaxVersion
  BY DEF TypeOK, VersionBound, Visible, Request
<1>2. T \subseteq Nat /\ T # {} /\ \A k \in T : k <= MaxVersion
  BY <1>1, ConfigurationsAssumption DEF Configuration
<1>3. Max(T) \in T
  BY <1>2, MaxOfBounded, ConfigurationsAssumption
<1>4. next_version(s, n) = Max(T) + 1
  BY DEF next_version
<1> HIDE DEF T
<1>5. Max(T) \in Nat
  BY <1>2, <1>3
<1>6. Max(T) > 0 => \E q \in Visible(s) : q.name = n /\ q.version = Max(T)
  BY <1>3 DEF T
<1> QED
  BY <1>4, <1>5, <1>6 DEF Precedes

(* _active_configuration returns nothing or a configuration row. *)
LEMMA ActiveConfigurationType ==
  ASSUME TypeOK, VersionBound, NEW s \in Sessions, NEW own,
         req[s].config \in Configuration
  PROVE  active_configuration(s, own) \in Configuration \cup {NULL}
<1> DEFINE actives == {r \in Visible(s) : /\ r.name = own[1]
                                          /\ r.status = "ACTIVE"
                                          /\ ~r.deleted}
           newest  == CHOOSE r \in actives : \A q \in actives : q.version <= r.version
           T       == {r.version : r \in actives}
<1>1. \A r \in actives : r \in Configuration /\ r.version <= MaxVersion
  BY DEF TypeOK, VersionBound, Visible, Request
<1>2. CASE actives = {}
  BY <1>2 DEF active_configuration
<1>3. CASE actives # {}
  <2>1. T \subseteq Nat /\ T # {} /\ \A k \in T : k <= MaxVersion
    BY <1>1, <1>3 DEF Configuration
  <2>2. PICK m \in T : \A k \in T : k <= m
    BY <2>1, GreatestNatural, ConfigurationsAssumption
  <2>3. \E r \in actives : \A q \in actives : q.version <= r.version
    BY <2>2
  <2>4. newest \in actives
    BY <2>3
  <2> HIDE DEF actives
  <2>5. newest \in Configuration
    BY <1>1, <2>4
  <2>6. active_configuration(s, own) \in {NULL, req[s].config, newest}
    BY DEF active_configuration, actives
  <2> QED
    BY <2>5, <2>6
<1> QED
  BY <1>2, <1>3

-----------------------------------------------------------------------------
(* Part 1: version numbers. *)

(* Two rows have the same key when they have the same name and version. *)
LEMMA KeyEquality ==
  \A r, q : Key(r) = Key(q) <=> r.name = q.name /\ r.version = q.version
BY DEF Key

(* A step that only reads, and thereby loads or numbers something, keeps the *)
(* numbering invariant.                                                      *)
LEMMA ReadPreserves ==
  ASSUME TypeOK, NumberingInv, rows' = rows, RequestShape', NumberLinked',
         \A s \in Sessions : req'[s].mine = req[s].mine
  PROVE  NumberingInv'
<1>1. VersionBound' /\ VersionsContiguous'
  BY DEF NumberingInv, VersionBound, VersionsContiguous, Key
<1>2. MineFresh'
  BY DEF NumberingInv, MineFresh, Key
<1>3. MineLinked'
  BY DEF NumberingInv, MineLinked, Visible, Precedes
<1> QED
  BY <1>1, <1>2, <1>3 DEF NumberingInv

(* So does a commit or a rollback, when the keys it leaves are those of the  *)
(* committed rows, or those together with the keys of the request's own rows.*)
LEMMA FinishPreserves ==
  ASSUME TypeOK, NumberingInv, NEW s \in Sessions, Finish(s),
         rows' \subseteq Configuration,
         \A r, q \in rows' : Key(r) = Key(q) => r = q,
         \A q \in rows : \E r \in rows' : Key(r) = Key(q),
         \/ \A r \in rows' : \E q \in rows : Key(r) = Key(q)
         \/ /\ \A r \in rows' : \E q \in Visible(s) : Key(r) = Key(q)
            /\ \A q \in req[s].mine : \E r \in rows' : Key(r) = Key(q)
  PROVE  NumberingInv'
<1>1. /\ req'[s] = NoRequest
      /\ \A t \in Sessions \ {s} : req'[t] = req[t]
  BY DEF Finish, TypeOK
<1>2. NoRequest.op = "none" /\ NoRequest.at = "start" /\ NoRequest.mine = {}
  BY DEF NoRequest
<1>3. \A r \in rows' : \E q \in Visible(s) : r.name = q.name /\ r.version = q.version
  BY KeyEquality DEF Visible
<1>4. \A q \in rows : \E r \in rows' : r.name = q.name /\ r.version = q.version
  BY KeyEquality
<1>5. RequestShape'
  BY <1>1, <1>2 DEF NumberingInv, RequestShape, LoadOps, Ops
<1>6. VersionBound'
  BY <1>1, <1>2, <1>3 DEF NumberingInv, VersionBound, Visible
<1>7. MineFresh'
  <2>1. \A t \in Sessions \ {s} : \A r \in req[t].mine : \A q \in rows' : Key(q) # Key(r)
    BY DEF NumberingInv, MineFresh, Visible
  <2> QED
    BY <1>1, <1>2, <2>1 DEF NumberingInv, MineFresh, Key
<1>8. MineLinked'
  BY <1>1, <1>2, <1>4 DEF NumberingInv, MineLinked, Visible, Precedes
<1>9. NumberLinked'
  BY <1>1, <1>2, <1>4 DEF NumberingInv, NumberLinked, Visible, Precedes
<1>10. VersionsContiguous'
  <2> SUFFICES ASSUME NEW r \in rows', r.version > 1
               PROVE  \E q \in rows' : q.name = r.name /\ q.version = r.version - 1
    BY DEF VersionsContiguous, Key
  <2>1. CASE \A x \in rows' : \E q \in rows : Key(x) = Key(q)
    <3>1. PICK x \in rows : x.name = r.name /\ x.version = r.version
      BY <2>1, KeyEquality
    <3> QED
      BY <3>1, <1>4 DEF NumberingInv, VersionsContiguous
  <2>2. CASE \A q \in req[s].mine : \E x \in rows' : Key(x) = Key(q)
    <3>1. \A q \in Visible(s) : \E x \in rows' : x.name = q.name /\ x.version = q.version
      BY <2>2, <1>4, KeyEquality DEF Visible
    <3>2. PICK x \in Visible(s) : x.name = r.name /\ x.version = r.version
      BY <1>3
    <3>3. \E q \in Visible(s) : q.name = x.name /\ q.version = x.version - 1
      BY <3>2 DEF NumberingInv, VersionsContiguous, MineLinked, Precedes, Visible
    <3> QED
      BY <3>1, <3>2, <3>3
  <2> QED
    BY <2>1, <2>2
<1> QED
  BY <1>5, <1>6, <1>7, <1>8, <1>9, <1>10 DEF NumberingInv

(* The INSERT of a new DRAFT row: its key is free, and the version before it *)
(* is still among the rows its session sees.                                 *)
LEMMA InsertPreserves ==
  ASSUME TypeOK, NumberingInv, NEW s \in Sessions, Insert(s)
  PROVE  TypeOK' /\ NumberingInv'
<1> DEFINE d == Draft(req[s].name, req[s].version)
<1>1. /\ req[s].name \in Names /\ req[s].version \in Nat \ {0}
      /\ req[s].version <= MaxVersion /\ req[s].at = "numbered"
      /\ Precedes(Visible(s), req[s].name, req[s].version)
  BY DEF Insert, NumberingInv, RequestShape, NumberLinked, TypeOK, Request
<1>2. /\ d \in Configuration
      /\ d.name = req[s].name /\ d.version = req[s].version
      /\ Key(d) = <<req[s].name, req[s].version>>
  BY <1>1 DEF Draft, Configuration, Key
<1> HIDE DEF d
<1>3. /\ req'[s].mine = req[s].mine \cup {d}
      /\ req'[s].op = req[s].op /\ req'[s].config = req[s].config
      /\ req'[s].name = req[s].name
      /\ req'[s].at \in {"loaded", "inserted", "ready"}
      /\ \A t \in Sessions \ {s} : req'[t] = req[t]
      /\ rows' = rows
  BY DEF Insert, TypeOK, Request, d
<1>4. /\ \A q \in Visible(s) : Key(q) # Key(d)
      /\ \A t \in Sessions \ {s} : \A q \in req[t].mine : Key(q) # Key(d)
  BY <1>2 DEF Insert, Taken
<1>5. TypeOK'
  BY <1>2 DEF TypeOK, Insert, Request, d
<1>6. RequestShape'
  BY <1>3 DEF NumberingInv, RequestShape
<1>7. VersionBound'
  BY <1>1, <1>2, <1>3 DEF NumberingInv, VersionBound
<1>8. MineFresh'
  <2> SUFFICES ASSUME NEW t \in Sessions, NEW r \in req'[t].mine
               PROVE  /\ \A q \in rows : Key(q) # Key(r)
                      /\ \A q \in req'[t].mine : Key(q) = Key(r) => q = r
                      /\ \A u \in Sessions \ {t} : \A q \in req'[u].mine : Key(q) # Key(r)
    BY <1>3 DEF MineFresh, Key
  <2>1. CASE t = s /\ r = d
    BY <2>1, <1>3, <1>4 DEF Visible
  <2>2. CASE r \in req[t].mine
    BY <2>2, <1>3, <1>4 DEF NumberingInv, MineFresh, Visible
  <2> QED
    BY <1>3, <2>1, <2>2
<1>9. MineLinked'
  <2>1. Visible(s)' = Visible(s) \cup {d} /\ \A t \in Sessions \ {s} : Visible(t)' = Visible(t)
    BY <1>3 DEF Visible
  <2> QED
    BY <2>1, <1>1, <1>2, <1>3 DEF NumberingInv, MineLinked, Precedes
<1>10. NumberLinked'
  BY <1>3 DEF NumberingInv, NumberLinked, Precedes, Visible
<1>11. VersionsContiguous'
  BY <1>3 DEF NumberingInv, VersionsContiguous, Key
<1> QED
  BY <1>5, <1>6, <1>7, <1>8, <1>9, <1>10, <1>11 DEF NumberingInv

(* The row written over row r by an UPDATE has r's key. *)
LEMMA UpdateKeepsKey ==
  ASSUME NEW s, NEW r \in Configuration, NEW loaded
  PROVE  \A x \in {r, [r EXCEPT !.deleted = TRUE], Archived(r),
                   Superseded(s, r), Activated(r, loaded)} :
           x \in Configuration /\ Key(x) = Key(r)
<1>1. LET x == [r EXCEPT !.deleted = TRUE] IN x \in Configuration /\ Key(x) = Key(r)
  BY DEF Configuration, Key
<1>2. Archived(r) \in Configuration /\ Key(Archived(r)) = Key(r)
  BY DEF Configuration, Key, Archived
<1>3. LET x == [r EXCEPT !.archived = TRUE] IN x \in Configuration /\ Key(x) = Key(r)
  BY DEF Configuration, Key
<1>4. Superseded(s, r) \in {r, Archived(r), [r EXCEPT !.archived = TRUE]}
  BY DEF Superseded
<1>5. Activated(r, loaded) \in Configuration /\ Key(Activated(r, loaded)) = Key(r)
  BY DEF Configuration, Key, Activated
<1> QED
  BY <1>1, <1>2, <1>3, <1>4, <1>5

(* A commit that UPDATEs rows and inserts none. *)
LEMMA UpdatePreserves ==
  ASSUME TypeOK, NumberingInv, NEW s \in Sessions, Finish(s),
         NEW f, rows' = {f[r] : r \in rows},
         \A r \in rows : f[r] \in Configuration /\ Key(f[r]) = Key(r)
  PROVE  NumberingInv' /\ rows' \subseteq Configuration
<1>1. \A r, q \in rows' : Key(r) = Key(q) => r = q
  BY DEF NumberingInv, VersionsContiguous
<1> QED
  BY <1>1, FinishPreserves

(* Every step of every request keeps the types and the numbering invariant.  *)
LEMMA NumberingStep ==
  ASSUME TypeOK, NumberingInv, [Next]_vars
  PROVE  TypeOK' /\ NumberingInv'
<1>1. CASE UNCHANGED vars
  BY <1>1 DEF vars, TypeOK, NumberingInv, RequestShape, VersionBound, MineFresh,
              MineLinked, NumberLinked, VersionsContiguous, Precedes, Visible, Key
<1>2. ASSUME NEW s \in Sessions, Step(s)
      PROVE  TypeOK' /\ NumberingInv'
  <2> USE <1>2
  <2>0. NoRequest \in Request
    BY DEF NoRequest, Request, Ops
  <2>1. ASSUME NEW n \in Names, CreateLoad(s, n) PROVE TypeOK' /\ NumberingInv'
    <3>1. TypeOK'
      BY <2>1, <2>0 DEF TypeOK, CreateLoad, Begins, Request, Ops
    <3>2. /\ RequestShape' /\ NumberLinked' /\ rows' = rows
          /\ \A t \in Sessions : req'[t].mine = req[t].mine
      BY <2>1 DEF CreateLoad, TypeOK, NumberingInv, RequestShape, NumberLinked,
                  Precedes, Visible, NoRequest, Request, LoadOps
    <3> QED
      BY <3>1, <3>2, ReadPreserves
  <2>2. ASSUME NEW n \in Names, ReadVersion(s, n) PROVE TypeOK' /\ NumberingInv'
    <3>1. /\ next_version(s, n) \in Nat /\ next_version(s, n) > 0
          /\ Precedes(Visible(s), n, next_version(s, n))
      BY NextVersionFacts DEF NumberingInv
    <3>2. /\ rows' = rows /\ lastAudited' = lastAudited /\ overlapped' = overlapped
          /\ req' = [req EXCEPT ![s].at = "numbered", ![s].name = n,
                                ![s].version = next_version(s, n)]
          /\ req[s].op \in LoadOps => n = req[s].name
          /\ req[s].op # "activate"
      BY <2>2 DEF ReadVersion, LoadOps, Ops
    <3>3. TypeOK'
      <4>1. [req[s] EXCEPT !.at = "numbered", !.name = n,
                           !.version = next_version(s, n)] \in Request
        BY <3>1 DEF TypeOK, Request
      <4> QED
        BY <3>2, <4>1 DEF TypeOK
    <3>4. /\ req'[s].name = n /\ req'[s].version = next_version(s, n)
          /\ req'[s].op = req[s].op /\ req'[s].config = req[s].config
          /\ \A t \in Sessions : req'[t].mine = req[t].mine
          /\ \A t \in Sessions \ {s} : req'[t] = req[t]
      BY <3>2 DEF TypeOK, Request
    <3>5. \A t \in Sessions : Visible(t)' = Visible(t)
      BY <3>2, <3>4 DEF Visible
    <3>6. RequestShape'
      BY <3>1, <3>2, <3>4 DEF NumberingInv, RequestShape
    <3>7. NumberLinked'
      BY <3>1, <3>4, <3>5 DEF NumberingInv, NumberLinked, Precedes
    <3> QED
      BY <3>2, <3>3, <3>4, <3>6, <3>7, ReadPreserves
  <2>3. CASE ImportStart(s)
    <3>1. TypeOK'
      BY <2>3, <2>0 DEF TypeOK, ImportStart, Begins, Request, Ops
    <3>2. /\ RequestShape' /\ NumberLinked' /\ rows' = rows
          /\ \A t \in Sessions : req'[t].mine = req[t].mine
      BY <2>3 DEF ImportStart, TypeOK, NumberingInv, RequestShape, NumberLinked,
                  Precedes, Visible, NoRequest, Request, LoadOps
    <3> QED
      BY <3>1, <3>2, ReadPreserves
  <2>4. ASSUME NEW op \in LoadOps, NEW r \in rows, LoadConfiguration(s, op, r)
        PROVE  TypeOK' /\ NumberingInv'
    <3>1. TypeOK' /\ r \in Configuration
      <4>1. r \in Configuration /\ r.name \in Names
        BY DEF TypeOK, Configuration
      <4>2. \A a \in {"ready", "loaded"} :
              [req[s] EXCEPT !.op = op, !.config = r, !.name = r.name, !.at = a] \in Request
        BY <4>1 DEF TypeOK, Request, LoadOps
      <4> QED
        BY <2>4, <4>1, <4>2 DEF TypeOK, LoadConfiguration, Begins
    <3>2. /\ RequestShape' /\ NumberLinked' /\ rows' = rows
          /\ \A t \in Sessions : req'[t].mine = req[t].mine
      BY <2>4, <3>1 DEF LoadConfiguration, TypeOK, NumberingInv, RequestShape, NumberLinked,
                        Precedes, Visible, NoRequest, Request
    <3> QED
      BY <3>1, <3>2, ReadPreserves
  <2>5. CASE ReadCurrent(s)
    <3>1. req[s].config \in Configuration
      BY <2>5 DEF ReadCurrent, Is, NumberingInv, RequestShape, LoadOps, Ops
    <3>2. \A own : active_configuration(s, own) \in Configuration \cup {NULL}
      BY <3>1, ActiveConfigurationType DEF NumberingInv
    <3>3. PICK c \in Configuration \cup {NULL} :
            req' = [req EXCEPT ![s].at = "ready", ![s].current = c]
      BY <2>5, <3>2 DEF ReadCurrent
    <3>4. rows' = rows /\ lastAudited' = lastAudited /\ overlapped' = overlapped
      BY <2>5 DEF ReadCurrent
    <3>5. TypeOK'
      <4>1. [req[s] EXCEPT !.at = "ready", !.current = c] \in Request
        BY DEF TypeOK, Request
      <4> QED
        BY <3>3, <3>4, <4>1 DEF TypeOK
    <3>6. /\ RequestShape' /\ NumberLinked'
          /\ \A t \in Sessions : req'[t].mine = req[t].mine
      BY <3>3, <3>4 DEF TypeOK, NumberingInv, RequestShape, NumberLinked,
                        Precedes, Visible, Request
    <3> QED
      BY <3>4, <3>5, <3>6, ReadPreserves
  <2>6. CASE Insert(s)
    BY <2>6, InsertPreserves
  <2>7. ASSUME Finish(s), NumberingInv', rows' \subseteq Configuration,
               lastAudited' \in [Names -> Nat]
        PROVE  TypeOK' /\ NumberingInv'
    BY <2>7, <2>0 DEF TypeOK, Finish
  <2>8. CASE CommitDrafts(s)
    <3>1. rows' = Visible(s) /\ Finish(s) /\ lastAudited' = lastAudited
      BY <2>8 DEF CommitDrafts
    <3>2. rows' \subseteq Configuration
      BY <3>1 DEF Visible, TypeOK, Request
    <3>3. \A r, q \in rows' : Key(r) = Key(q) => r = q
      BY <3>1 DEF Visible, NumberingInv, VersionsContiguous, MineFresh
    <3>4. NumberingInv'
      BY <3>1, <3>2, <3>3, FinishPreserves DEF Visible
    <3> QED
      BY <2>7, <3>1, <3>2, <3>4 DEF TypeOK
  <2>9. CASE CommitDelete(s)
    <3> DEFINE f == [r \in rows |-> IF Key(r) = Key(req[s].config) THEN [r EXCEPT !.deleted = TRUE] ELSE r]
    <3>1. rows' = {f[r] : r \in rows} /\ Finish(s) /\ lastAudited' = lastAudited
      BY <2>9 DEF CommitDelete
    <3>2. \A r \in rows : f[r] \in Configuration /\ Key(f[r]) = Key(r)
      BY UpdateKeepsKey DEF TypeOK
    <3> HIDE DEF f
    <3>3. NumberingInv' /\ rows' \subseteq Configuration
      BY <3>1, <3>2, UpdatePreserves
    <3> QED
      BY <2>7, <3>1, <3>3 DEF TypeOK
  <2>10. CASE CommitArchive(s)
    <3> DEFINE f == [r \in rows |-> IF Key(r) = Key(req[s].config) THEN Archived(r) ELSE r]
    <3>1. rows' = {f[r] : r \in rows} /\ Finish(s) /\ lastAudited' = lastAudited
      BY <2>10 DEF CommitArchive
    <3>2. \A r \in rows : f[r] \in Configuration /\ Key(f[r]) = Key(r)
      BY UpdateKeepsKey DEF TypeOK
    <3> HIDE DEF f
    <3>3. NumberingInv' /\ rows' \subseteq Configuration
      BY <3>1, <3>2, UpdatePreserves
    <3> QED
      BY <2>7, <3>1, <3>3 DEF TypeOK
  <2>11. CASE CommitActivate(s)
    <3> DEFINE f == [r \in rows |-> IF Key(r) = Key(req[s].config) THEN Activated(r, req[s].config)
                        ELSE Superseded(s, r)]
    <3>1. rows' = {f[r] : r \in rows} /\ Finish(s)
      BY <2>11 DEF CommitActivate
    <3>2. \A r \in rows : f[r] \in Configuration /\ Key(f[r]) = Key(r)
      BY UpdateKeepsKey DEF TypeOK
    <3> HIDE DEF f
    <3>3. NumberingInv' /\ rows' \subseteq Configuration
      BY <3>1, <3>2, UpdatePreserves
    <3>4. req[s].config \in Configuration
      BY <2>11 DEF CommitActivate, Is, NumberingInv, RequestShape, LoadOps, Ops
    <3>5. lastAudited' \in [Names -> Nat]
      BY <2>11, <3>4 DEF CommitActivate, TypeOK, Configuration
    <3> QED
      BY <2>7, <3>1, <3>3, <3>5
  <2>12. CASE CommitRollback(s)
    <3> DEFINE U == {Superseded(s, r) : r \in rows}
               A == {[r EXCEPT !.status = "ACTIVE"] : r \in req[s].mine}
    <3>1. rows' = U \cup A /\ Finish(s)
      BY <2>12 DEF CommitRollback
    <3>2. \A r \in rows : Superseded(s, r) \in Configuration /\ Key(Superseded(s, r)) = Key(r)
      BY UpdateKeepsKey DEF TypeOK
    <3>3. \A r \in req[s].mine : LET x == [r EXCEPT !.status = "ACTIVE"]
                                IN  x \in Configuration /\ Key(x) = Key(r)
      BY DEF TypeOK, Request, Configuration, Key
    <3>4. rows' \subseteq Configuration
      BY <3>1, <3>2, <3>3
    <3>5. \A r, q \in rows' : Key(r) = Key(q) => r = q
      BY <3>1, <3>2, <3>3 DEF NumberingInv, VersionsContiguous, MineFresh
    <3>6. /\ \A q \in rows : \E r \in rows' : Key(r) = Key(q)
          /\ \A q \in req[s].mine : \E r \in rows' : Key(r) = Key(q)
          /\ \A r \in rows' : \E q \in Visible(s) : Key(r) = Key(q)
      BY <3>1, <3>2, <3>3 DEF Visible
    <3>7. NumberingInv'
      BY <3>1, <3>4, <3>5, <3>6, FinishPreserves
    <3>8. lastAudited' \in [Names -> Nat]
      BY <2>12 DEF CommitRollback, TypeOK, Request
    <3> QED
      BY <2>7, <3>1, <3>4, <3>7, <3>8
  <2>13. CASE Rollback(s)
    <3>1. rows' = rows /\ Finish(s) /\ lastAudited' = lastAudited
      BY <2>13 DEF Rollback
    <3>2. rows' \subseteq Configuration /\ \A r, q \in rows' : Key(r) = Key(q) => r = q
      BY <3>1 DEF TypeOK, NumberingInv, VersionsContiguous
    <3>3. NumberingInv'
      BY <3>1, <3>2, FinishPreserves
    <3> QED
      BY <2>7, <3>1, <3>2, <3>3 DEF TypeOK
  <2> QED
    BY <2>1, <2>2, <2>3, <2>4, <2>5, <2>6, <2>8, <2>9, <2>10, <2>11, <2>12, <2>13 DEF Step
<1> QED
  BY <1>1, <1>2 DEF Next

(* Types and the numbering invariant hold in every reachable state. *)
LEMMA NumberingInvariant == Spec => [](TypeOK /\ NumberingInv)
<1>1. Init => TypeOK /\ NumberingInv
  <2> SUFFICES ASSUME Init PROVE TypeOK /\ NumberingInv
    OBVIOUS
  <2>1. TypeOK
    BY DEF Init, TypeOK, NoRequest, Request
  <2>2. /\ rows = {}
        /\ \A s \in Sessions : /\ req[s].op = "none" /\ req[s].at = "start"
                               /\ req[s].mine = {}
    BY DEF Init, NoRequest
  <2>3. RequestShape /\ NumberLinked
    BY <2>2 DEF RequestShape, NumberLinked, LoadOps, Ops
  <2>4. VersionBound /\ MineFresh /\ MineLinked /\ VersionsContiguous
    BY <2>2 DEF VersionBound, MineFresh, MineLinked, VersionsContiguous
  <2> QED
    BY <2>1, <2>3, <2>4 DEF NumberingInv
<1> QED
  BY <1>1, NumberingStep, PTL DEF Spec

(* The types of the rows, of the audited versions and of every request's     *)
(* locals are kept by all handlers of the configuration documents.           *)
THEOREM ConfigurationsTypeCorrect == Spec => []TypeOK
BY NumberingInvariant, PTL

(* However create, PATCH, import and rollback requests overlap or fail, the   *)
(* versions of a name have no duplicates and no gaps.                         *)
THEOREM VersionNumbering == Spec => []VersionsContiguous
<1>1. NumberingInv => VersionsContiguous
  BY DEF NumberingInv
<1> QED
  BY <1>1, NumberingInvariant, PTL

-----------------------------------------------------------------------------
(* Part 2: one ACTIVE version until requests overlap. *)

(* NoRequest is no operation on a stored row and owns no rows. *)
LEMMA NoRequestFacts ==
  /\ NoRequest.op = "none" /\ NoRequest.at = "start" /\ NoRequest.mine = {}
  /\ NoRequest.op \notin LoadOps
BY DEF NoRequest, LoadOps, Ops

(* The end of a request: what is left to show is about the rows it wrote. *)
LEMMA FinishKeepsSerial ==
  ASSUME TypeOK, SerialInv, NEW s \in Sessions, Finish(s), req[s] # NoRequest,
         ~overlapped => ActiveUnique' /\ ActiveKept'
  PROVE  SerialInv'
<1>1. /\ req'[s] = NoRequest /\ overlapped' = overlapped
      /\ \A t \in Sessions \ {s} : req'[t] = req[t]
  BY DEF Finish, TypeOK
<1>2. MineDraft' /\ RollbackRow'
  BY <1>1, NoRequestFacts DEF SerialInv, MineDraft, RollbackRow, Draft
<1>3. ASSUME ~overlapped PROVE \A t \in Sessions : req'[t] = NoRequest
  BY <1>1, <1>3 DEF SerialInv, OneBusy
<1>4. ASSUME ~overlapped PROVE OneBusy' /\ LoadedFresh' /\ CurrentFresh'
  BY <1>3, <1>4, NoRequestFacts DEF OneBusy, LoadedFresh, CurrentFresh, Is
<1> QED
  BY <1>1, <1>2, <1>4 DEF SerialInv

(* The start of a request: until requests overlap it is alone. *)
LEMMA BeginKeepsSerial ==
  ASSUME TypeOK, SerialInv, NEW s \in Sessions, Begins(s), rows' = rows,
         \A t \in Sessions \ {s} : req'[t] = req[t],
         req'[s].mine = {}, req'[s].at \notin {"inserted"},
         req'[s].op \in {"activate", "rollback"} => req'[s].at = "loaded",
         req'[s].op \in LoadOps => /\ req'[s].config \in rows
                                   /\ ~req'[s].config.deleted
                                   /\ Accepts(req'[s].op, req'[s].config)
  PROVE  SerialInv'
<1>1. MineDraft' /\ RollbackRow'
  BY DEF SerialInv, MineDraft, RollbackRow, Draft
<1>2. ASSUME ~overlapped'
      PROVE  ~overlapped /\ \A t \in Sessions \ {s} : req'[t] = NoRequest
  BY <1>2 DEF Begins
<1>3. ASSUME ~overlapped' PROVE OneBusy' /\ LoadedFresh' /\ CurrentFresh'
  BY <1>2, <1>3, NoRequestFacts
     DEF OneBusy, LoadedFresh, CurrentFresh, Is, Accepts
<1>4. ASSUME ~overlapped' PROVE ActiveUnique' /\ ActiveKept'
  BY <1>2, <1>4 DEF SerialInv, ActiveUnique, ActiveKept
<1> QED
  BY <1>1, <1>3, <1>4 DEF SerialInv

(* What a request that is alone reads as the version to archive is the only  *)
(* ACTIVE version of its name.                                               *)
LEMMA CurrentIsActive ==
  ASSUME TypeOK, NumberingInv, SerialInv, ~overlapped, NEW s \in Sessions, NEW own,
         req[s].op \in LoadOps, own[1] = req[s].name,
         \A q \in rows : q.status = "ACTIVE" => Key(q) # own,
         NEW r \in ActiveRows(rows, req[s].name)
  PROVE  active_configuration(s, own) = r
<1> DEFINE actives == {q \in Visible(s) : /\ q.name = own[1]
                                          /\ q.status = "ACTIVE"
                                          /\ ~q.deleted}
           newest  == CHOOSE q \in actives : \A x \in actives : x.version <= q.version
<1>1. r \in rows /\ r.name = req[s].name /\ r.status = "ACTIVE" /\ ~r.deleted
  BY DEF ActiveRows, SerialInv, ActiveKept
<1>2. \A q \in actives : q \in rows
  BY DEF Visible, SerialInv, MineDraft
<1>3. actives = {r}
  BY <1>1, <1>2 DEF SerialInv, ActiveUnique, Visible
<1>4. r.version \in Nat
  BY <1>1 DEF TypeOK, Configuration
<1>5. newest = r
  BY <1>3, <1>4
<1>6. active_configuration(s, own) =
        IF Key(r) = Key(req[s].config) THEN req[s].config ELSE r
  BY <1>1, <1>3, <1>5 DEF active_configuration
<1>7. Key(r) = Key(req[s].config) => req[s].config = r
  BY <1>1 DEF SerialInv, LoadedFresh, NumberingInv, VersionsContiguous
<1> QED
  BY <1>6, <1>7

(* Reading the version number leaves a request's rows and its fresh row. *)
LEMMA ReadVersionKeepsSerial ==
  ASSUME TypeOK, SerialInv, NEW s \in Sessions, NEW n \in Names, ReadVersion(s, n)
  PROVE  SerialInv'
<1>1. /\ rows' = rows /\ overlapped' = overlapped
      /\ \A t \in Sessions \ {s} : req'[t] = req[t]
      /\ req'[s].mine = req[s].mine /\ req'[s].op = req[s].op
      /\ req'[s].config = req[s].config /\ req'[s].at = "numbered"
      /\ req[s].at = "loaded"
  BY DEF ReadVersion, TypeOK, Request
<1>2. MineDraft' /\ RollbackRow'
  BY <1>1 DEF SerialInv, MineDraft, RollbackRow, Draft
<1>3. ASSUME ~overlapped
      PROVE  OneBusy' /\ LoadedFresh' /\ CurrentFresh' /\ ActiveUnique' /\ ActiveKept'
  <2>1. \A t \in Sessions \ {s} : req[t] = NoRequest
    BY <1>1, <1>3, NoRequestFacts DEF SerialInv, OneBusy
  <2>2. OneBusy' /\ CurrentFresh'
    BY <1>1, <2>1, NoRequestFacts DEF OneBusy, CurrentFresh, Is
  <2>3. LoadedFresh'
    BY <1>1, <1>3 DEF SerialInv, LoadedFresh, Accepts
  <2> QED
    BY <1>1, <1>3, <2>2, <2>3 DEF SerialInv, ActiveUnique, ActiveKept
<1> QED
  BY <1>1, <1>2, <1>3 DEF SerialInv

(* Inserting a DRAFT row does not touch the committed ones. *)
LEMMA InsertKeepsSerial ==
  ASSUME TypeOK, NumberingInv, SerialInv, NEW s \in Sessions, Insert(s)
  PROVE  SerialInv'
<1>1. /\ rows' = rows /\ overlapped' = overlapped
      /\ \A t \in Sessions \ {s} : req'[t] = req[t]
      /\ req'[s].mine = req[s].mine \cup {Draft(req[s].name, req[s].version)}
      /\ req'[s].op = req[s].op /\ req'[s].config = req[s].config
      /\ req'[s].name = req[s].name /\ req'[s].version = req[s].version
      /\ req[s].at = "numbered"
  BY DEF Insert, TypeOK, Request
<1>2. /\ req[s].op = "rollback" => req'[s].at = "inserted"
      /\ req[s].op # "activate"
  BY DEF Insert, TypeOK, Request, NumberingInv, RequestShape
<1>3. MineDraft'
  BY <1>1 DEF SerialInv, MineDraft, Draft
<1>4. RollbackRow'
  BY <1>1, <1>2 DEF SerialInv, RollbackRow, Draft
<1>5. ASSUME ~overlapped
      PROVE  OneBusy' /\ LoadedFresh' /\ CurrentFresh' /\ ActiveUnique' /\ ActiveKept'
  <2>1. \A t \in Sessions \ {s} : req[t] = NoRequest
    BY <1>1, <1>5, NoRequestFacts DEF SerialInv, OneBusy
  <2>2. OneBusy' /\ CurrentFresh'
    BY <1>1, <1>2, <2>1, NoRequestFacts DEF OneBusy, CurrentFresh, Is
  <2>3. LoadedFresh'
    BY <1>1, <1>5 DEF SerialInv, LoadedFresh, Accepts
  <2> QED
    BY <1>1, <1>5, <2>2, <2>3 DEF SerialInv, ActiveUnique, ActiveKept
<1> QED
  BY <1>1, <1>3, <1>4, <1>5 DEF SerialInv

(* Reading the ACTIVE version: activate and rollback find the only one. *)
LEMMA ReadCurrentKeepsSerial ==
  ASSUME TypeOK, NumberingInv, SerialInv, NEW s \in Sessions, ReadCurrent(s)
  PROVE  SerialInv'
<1> DEFINE own == IF req[s].op = "activate" THEN Key(req[s].config)
                  ELSE <<req[s].name, req[s].version>>
<1>1. /\ rows' = rows /\ overlapped' = overlapped
      /\ \A t \in Sessions \ {s} : req'[t] = req[t]
      /\ req'[s].mine = req[s].mine /\ req'[s].op = req[s].op
      /\ req'[s].config = req[s].config /\ req'[s].at = "ready"
      /\ req'[s].name = req[s].name /\ req'[s].version = req[s].version
      /\ req'[s].current = active_configuration(s, own)
  BY DEF ReadCurrent, TypeOK, Request
<1>2. \/ req[s].op = "activate" /\ req[s].at = "loaded"
      \/ req[s].op = "rollback" /\ req[s].at = "inserted"
  BY DEF ReadCurrent, Is
<1>3. MineDraft' /\ RollbackRow'
  BY <1>1, <1>2 DEF SerialInv, MineDraft, RollbackRow, Draft
<1>4. ASSUME ~overlapped
      PROVE  OneBusy' /\ LoadedFresh' /\ CurrentFresh' /\ ActiveUnique' /\ ActiveKept'
  <2>1. \A t \in Sessions \ {s} : req[t] = NoRequest
    BY <1>2, <1>4, NoRequestFacts DEF SerialInv, OneBusy
  <2>2. OneBusy'
    BY <1>1, <2>1 DEF OneBusy
  <2>3. LoadedFresh'
    BY <1>1, <1>4 DEF SerialInv, LoadedFresh, Accepts
  <2>4. /\ req[s].op \in LoadOps
        /\ req[s].config \in rows /\ Accepts(req[s].op, req[s].config)
        /\ req[s].name = req[s].config.name
    BY <1>2, <1>4 DEF SerialInv, LoadedFresh, NumberingInv, RequestShape, LoadOps, Ops
  <2>5. own[1] = req[s].name
    BY <2>4 DEF Key
  <2>6. \A q \in rows : q.status = "ACTIVE" => Key(q) # own
    <3>1. CASE req[s].op = "activate"
      BY <2>4, <3>1 DEF Accepts, NumberingInv, VersionsContiguous
    <3>2. CASE req[s].op = "rollback" /\ req[s].at = "inserted"
      <4>1. req[s].mine = {Draft(req[s].name, req[s].version)}
        BY <3>2 DEF SerialInv, RollbackRow
      <4>2. Key(Draft(req[s].name, req[s].version)) = own
        BY <3>2 DEF Key, Draft
      <4> QED
        BY <4>1, <4>2 DEF NumberingInv, MineFresh
    <3> QED
      BY <1>2, <3>1, <3>2
  <2> HIDE DEF own
  <2>7. \A r \in ActiveRows(rows, req[s].name) : req'[s].current = r
    BY <1>1, <1>4, <2>4, <2>5, <2>6, CurrentIsActive
  <2>8. \A r \in ActiveRows(rows, req[s].name) : r # NULL /\ r.status # "ARCHIVED"
    BY NullAssumption DEF ActiveRows, TypeOK
  <2>9. CurrentFresh'
    BY <1>1, <2>1, <2>7, <2>8, NoRequestFacts DEF CurrentFresh, Is, ActiveRows
  <2> QED
    BY <1>1, <1>4, <2>2, <2>3, <2>9 DEF SerialInv, ActiveUnique, ActiveKept
<1> QED
  BY <1>1, <1>3, <1>4 DEF SerialInv

(* Committing DRAFT rows adds no ACTIVE one. *)
LEMMA DraftsKeepSerial ==
  ASSUME TypeOK, SerialInv, NEW s \in Sessions, CommitDrafts(s)
  PROVE  SerialInv'
<1>1. rows' = rows \cup req[s].mine /\ Finish(s)
  BY DEF CommitDrafts, Visible
<1>2. req[s] # NoRequest
  BY NoRequestFacts DEF CommitDrafts, Is
<1>3. \A r \in req[s].mine : r.status # "ACTIVE"
  BY DEF SerialInv, MineDraft
<1>4. ASSUME ~overlapped PROVE ActiveUnique' /\ ActiveKept'
  BY <1>1, <1>3, <1>4 DEF SerialInv, ActiveUnique, ActiveKept
<1> QED
  BY <1>1, <1>2, <1>4, FinishKeepsSerial

(* delete and archive write the row they loaded; delete refuses ACTIVE ones. *)
LEMMA RetireKeepsSerial ==
  ASSUME TypeOK, NumberingInv, SerialInv, NEW s \in Sessions,
         CommitDelete(s) \/ CommitArchive(s)
  PROVE  SerialInv'
<1> DEFINE c == req[s].config
<1>1. Finish(s) /\ req[s] # NoRequest
  BY NoRequestFacts DEF CommitDelete, CommitArchive, Is
<1>2. ASSUME ~overlapped PROVE ActiveUnique' /\ ActiveKept'
  <2>1. CASE CommitDelete(s)
    <3>1. c \in rows /\ c.status # "ACTIVE"
      BY <1>2, <2>1 DEF CommitDelete, Is, SerialInv, LoadedFresh, Accepts, LoadOps, Ops
    <3>2. \A r \in rows' : r.status = "ACTIVE" => r \in rows
      <4>1. \A r \in rows : Key(r) = Key(c) => r = c
        BY <3>1 DEF NumberingInv, VersionsContiguous
      <4>2. [c EXCEPT !.deleted = TRUE].status = c.status
        BY <3>1 DEF TypeOK, Configuration
      <4> QED
        BY <2>1, <3>1, <4>1, <4>2 DEF CommitDelete
    <3> QED
      BY <1>2, <3>2 DEF SerialInv, ActiveUnique, ActiveKept
  <2>2. CASE CommitArchive(s)
    <3>1. \A r \in rows : Archived(r).status = "ARCHIVED"
      BY DEF Archived, TypeOK, Configuration
    <3>2. \A r \in rows' : r.status = "ACTIVE" => r \in rows
      BY <2>2, <3>1 DEF CommitArchive
    <3> QED
      BY <1>2, <3>2 DEF SerialInv, ActiveUnique, ActiveKept
  <2> QED
    BY <2>1, <2>2
<1> QED
  BY <1>1, <1>2, FinishKeepsSerial

(* When a request that is alone archives the version it read as ACTIVE, no   *)
(* row of its name stays ACTIVE, and rows of other names keep what they say. *)
LEMMA SupersededFacts ==
  ASSUME TypeOK, SerialInv, ~overlapped, NEW s \in Sessions, NEW r \in rows,
         Is(s, "activate", "ready") \/ Is(s, "rollback", "ready"),
         Superseded(s, r).status = "ACTIVE"
  PROVE  /\ r.status = "ACTIVE" /\ r.name # req[s].name
         /\ Superseded(s, r).name = r.name
         /\ Superseded(s, r).deleted = r.deleted
<1>1. CASE req[s].current = NULL \/ Key(r) # Key(req[s].current)
  <2>1. Superseded(s, r) = r
    BY <1>1 DEF Superseded
  <2> QED
    BY <1>1, <2>1 DEF SerialInv, CurrentFresh, ActiveRows
<1>2. CASE req[s].current # NULL /\ Key(r) = Key(req[s].current)
  <2>1. /\ Archived(r).status = "ARCHIVED"
        /\ [r EXCEPT !.archived = TRUE].status = r.status
        /\ [r EXCEPT !.archived = TRUE].name = r.name
        /\ [r EXCEPT !.archived = TRUE].deleted = r.deleted
    BY DEF Archived, TypeOK, Configuration
  <2>2. Superseded(s, r) = IF req[s].current.status = "ARCHIVED"
                           THEN [r EXCEPT !.archived = TRUE] ELSE Archived(r)
    BY <1>2 DEF Superseded
  <2>3. req[s].current.status = "ARCHIVED" /\ r.status = "ACTIVE"
    BY <2>1, <2>2
  <2>4. r.name # req[s].name
    BY <2>3 DEF SerialInv, CurrentFresh, ActiveRows
  <2> QED
    BY <2>1, <2>2, <2>3, <2>4
<1> QED
  BY <1>1, <1>2

(* The handover of a request that is alone: one new ACTIVE row of its name,   *)
(* and otherwise only what it has superseded.                                *)
LEMMA HandoverUnique ==
  ASSUME TypeOK, SerialInv, ~overlapped, NEW s \in Sessions, NEW a,
         Is(s, "activate", "ready") \/ Is(s, "rollback", "ready"),
         a.name = req[s].name, ~a.deleted,
         \A x \in rows' : x = a \/ \E r \in rows : x = Superseded(s, r)
  PROVE  ActiveUnique' /\ ActiveKept'
<1>1. ASSUME NEW x \in rows', x.status = "ACTIVE", x # a
      PROVE  \E r \in rows : /\ x = Superseded(s, r) /\ r.status = "ACTIVE"
                             /\ x.name = r.name /\ r.name # req[s].name
                             /\ x.deleted = r.deleted
  BY <1>1, SupersededFacts
<1>2. ActiveKept'
  BY <1>1 DEF SerialInv, ActiveKept
<1>3. ASSUME NEW x \in rows', NEW y \in rows', x.status = "ACTIVE",
             y.status = "ACTIVE", x.name = y.name
      PROVE  x = y
  <2>1. CASE x = a \/ y = a
    BY <1>1, <1>3, <2>1
  <2>2. CASE x # a /\ y # a
    BY <1>1, <1>3, <2>2 DEF SerialInv, ActiveUnique
  <2> QED
    BY <2>1, <2>2
<1> QED
  BY <1>2, <1>3 DEF ActiveUnique

(* activate hands over to the row it loaded. *)
LEMMA ActivateKeepsSerial ==
  ASSUME TypeOK, NumberingInv, SerialInv, NEW s \in Sessions, CommitActivate(s)
  PROVE  SerialInv'
<1> DEFINE c == req[s].config
           a == Activated(c, c)
<1>1. Finish(s) /\ req[s] # NoRequest /\ Is(s, "activate", "ready")
  BY NoRequestFacts DEF CommitActivate, Is
<1>2. ASSUME ~overlapped PROVE ActiveUnique' /\ ActiveKept'
  <2>1. c \in rows /\ ~c.deleted /\ c.name = req[s].name
    BY <1>1, <1>2 DEF Is, SerialInv, LoadedFresh, NumberingInv, RequestShape, LoadOps, Ops
  <2>2. a.name = req[s].name /\ ~a.deleted
    BY <2>1 DEF Activated, TypeOK, Configuration
  <2>3. \A r \in rows : Key(r) = Key(c) => r = c
    BY <2>1 DEF NumberingInv, VersionsContiguous
  <2>4. \A x \in rows' : x = a \/ \E r \in rows : x = Superseded(s, r)
    BY <2>3 DEF CommitActivate
  <2> HIDE DEF a
  <2> QED
    BY <1>1, <1>2, <2>2, <2>4, HandoverUnique
<1> QED
  BY <1>1, <1>2, FinishKeepsSerial

(* rollback hands over to the version it inserted. *)
LEMMA RollbackCommitKeepsSerial ==
  ASSUME TypeOK, SerialInv, NEW s \in Sessions, CommitRollback(s)
  PROVE  SerialInv'
<1> DEFINE d == Draft(req[s].name, req[s].version)
           a == [d EXCEPT !.status = "ACTIVE"]
<1>1. Finish(s) /\ req[s] # NoRequest /\ Is(s, "rollback", "ready")
  BY NoRequestFacts DEF CommitRollback, Is
<1>2. ASSUME ~overlapped PROVE ActiveUnique' /\ ActiveKept'
  <2>1. req[s].mine = {d}
    BY <1>1 DEF Is, SerialInv, RollbackRow
  <2>2. a.name = req[s].name /\ ~a.deleted
    BY DEF Draft
  <2>3. \A x \in rows' : x = a \/ \E r \in rows : x = Superseded(s, r)
    BY <2>1 DEF CommitRollback
  <2> HIDE DEF a
  <2> QED
    BY <1>1, <1>2, <2>2, <2>3, HandoverUnique
<1> QED
  BY <1>1, <1>2, FinishKeepsSerial

(* Every step of every handler keeps the invariant. *)
LEMMA SerialStep == TypeOK /\ NumberingInv /\ SerialInv /\ [Next]_vars => SerialInv'
<1> SUFFICES ASSUME TypeOK, NumberingInv, SerialInv, [Next]_vars
             PROVE  SerialInv'
  OBVIOUS
<1>1. CASE UNCHANGED vars
  BY <1>1 DEF vars, SerialInv, MineDraft, RollbackRow, OneBusy, LoadedFresh,
              CurrentFresh, ActiveUnique, ActiveKept, ActiveRows, Is
<1>2. ASSUME NEW s \in Sessions, Step(s) PROVE SerialInv'
  <2>1. ASSUME NEW n \in Names, CreateLoad(s, n) PROVE SerialInv'
    <3>1. /\ Begins(s) /\ rows' = rows
          /\ \A t \in Sessions \ {s} : req'[t] = req[t]
          /\ req'[s].mine = {} /\ req'[s].op = "create" /\ req'[s].at = "numbered"
      BY <2>1 DEF CreateLoad, TypeOK, Request, NoRequest
    <3> QED
      BY <3>1, BeginKeepsSerial DEF LoadOps
  <2>2. CASE ImportStart(s)
    <3>1. /\ Begins(s) /\ rows' = rows
          /\ \A t \in Sessions \ {s} : req'[t] = req[t]
          /\ req'[s].mine = {} /\ req'[s].op = "import" /\ req'[s].at = "loaded"
      BY <2>2 DEF ImportStart, TypeOK, Request, NoRequest
    <3> QED
      BY <3>1, BeginKeepsSerial DEF LoadOps
  <2>3. ASSUME NEW op \in LoadOps, NEW r \in rows, LoadConfiguration(s, op, r)
        PROVE  SerialInv'
    <3>1. /\ Begins(s) /\ rows' = rows /\ ~r.deleted /\ Accepts(op, r)
          /\ \A t \in Sessions \ {s} : req'[t] = req[t]
          /\ req'[s].mine = {} /\ req'[s].op = op /\ req'[s].config = r
          /\ req'[s].at = IF op \in {"delete", "archive"} THEN "ready" ELSE "loaded"
      BY <2>3 DEF LoadConfiguration, TypeOK, Request, NoRequest
    <3>2. /\ req'[s].at \notin {"inserted"}
          /\ req'[s].op \in {"activate", "rollback"} => req'[s].at = "loaded"
      BY <3>1
    <3>3. req'[s].config \in rows /\ ~req'[s].config.deleted
          /\ Accepts(req'[s].op, req'[s].config)
      BY <3>1
    <3> QED
      BY <3>1, <3>2, <3>3, BeginKeepsSerial
  <2>4. ASSUME NEW n \in Names, ReadVersion(s, n) PROVE SerialInv'
    BY <2>4, ReadVersionKeepsSerial
  <2>5. CASE ReadCurrent(s)
    BY <2>5, ReadCurrentKeepsSerial
  <2>6. CASE Insert(s)
    BY <2>6, InsertKeepsSerial
  <2>7. CASE CommitDrafts(s)
    BY <2>7, DraftsKeepSerial
  <2>8. CASE CommitDelete(s) \/ CommitArchive(s)
    BY <2>8, RetireKeepsSerial
  <2>9. CASE CommitActivate(s)
    BY <2>9, ActivateKeepsSerial
  <2>10. CASE CommitRollback(s)
    BY <2>10, RollbackCommitKeepsSerial
  <2>11. CASE Rollback(s)
    <3>1. rows' = rows /\ Finish(s) /\ req[s] # NoRequest
      BY <2>11 DEF Rollback
    <3>2. ~overlapped => ActiveUnique' /\ ActiveKept'
      BY <3>1 DEF SerialInv, ActiveUnique, ActiveKept
    <3> QED
      BY <3>1, <3>2, FinishKeepsSerial
  <2> QED
    BY <1>2, <2>1, <2>2, <2>3, <2>4, <2>5, <2>6, <2>7, <2>8, <2>9, <2>10, <2>11 DEF Step
<1> QED
  BY <1>1, <1>2 DEF Next

(* The invariant of serial use holds in every reachable state. *)
LEMMA SerialInvariant == Spec => []SerialInv
<1>1. Init => SerialInv
  <2> SUFFICES ASSUME Init PROVE SerialInv
    OBVIOUS
  <2>1. rows = {} /\ \A s \in Sessions : req[s] = NoRequest
    BY DEF Init
  <2>2. MineDraft /\ RollbackRow /\ OneBusy /\ LoadedFresh /\ CurrentFresh
    BY <2>1, NoRequestFacts
       DEF MineDraft, RollbackRow, OneBusy, LoadedFresh, CurrentFresh, Is
  <2>3. ActiveUnique /\ ActiveKept
    BY <2>1 DEF ActiveUnique, ActiveKept
  <2> QED
    BY <2>2, <2>3 DEF SerialInv
<1> QED
  BY <1>1, SerialStep, NumberingInvariant, PTL DEF Spec

(* Until two requests overlap, activate and rollback leave at most one        *)
(* ACTIVE version of a name, for any number of names, versions and sessions.  *)
THEOREM OneActiveUntilOverlap == Spec => []OneActiveIfSerial
<1>1. ActiveUnique => OneActive
  <2> SUFFICES ASSUME ActiveUnique, NEW n \in Names
               PROVE  Cardinality(ActiveRows(rows, n)) <= 1
    BY DEF OneActive
  <2>1. CASE ActiveRows(rows, n) = {}
    BY <2>1, FS_EmptySet
  <2>2. ASSUME NEW r \in ActiveRows(rows, n)
        PROVE  Cardinality(ActiveRows(rows, n)) <= 1
    <3>1. ActiveRows(rows, n) = {r}
      BY <2>2 DEF ActiveUnique, ActiveRows
    <3>2. Cardinality({r}) = 1
      BY FS_Singleton
    <3> QED
      BY <3>1, <3>2
  <2> QED
    BY <2>1, <2>2
<1>2. SerialInv => OneActiveIfSerial
  BY <1>1 DEF SerialInv, OneActiveIfSerial
<1> QED
  BY <1>2, SerialInvariant, PTL

-----------------------------------------------------------------------------
(* Part 3: the handover is one commit. *)

(* No step removes the key of a committed row. *)
LEMMA KeysPersist ==
  ASSUME TypeOK, NEW s \in Sessions, Step(s)
  PROVE  \A q \in rows : \E r \in rows' : Key(r) = Key(q)
<1> SUFFICES ASSUME NEW q \in rows PROVE \E r \in rows' : Key(r) = Key(q)
  OBVIOUS
<1>1. \A x \in {q, [q EXCEPT !.deleted = TRUE], Archived(q), Superseded(s, q),
                Activated(q, req[s].config)} : Key(x) = Key(q)
  <2>1. PICK l : l = req[s].config
    OBVIOUS
  <2>2. q \in Configuration
    BY DEF TypeOK
  <2>3. \A x \in {q, [q EXCEPT !.deleted = TRUE], Archived(q), Superseded(s, q),
                  Activated(q, l)} : Key(x) = Key(q)
    BY <2>2, UpdateKeepsKey
  <2> QED
    BY <2>1, <2>3
<1>2. CASE UNCHANGED rows
  BY <1>2
<1>3. CASE CommitDrafts(s)
  BY <1>3 DEF CommitDrafts, Visible
<1>4. CASE CommitDelete(s)
  BY <1>1, <1>4 DEF CommitDelete
<1>5. CASE CommitArchive(s)
  BY <1>1, <1>5 DEF CommitArchive
<1>6. CASE CommitActivate(s)
  BY <1>1, <1>6 DEF CommitActivate
<1>7. CASE CommitRollback(s)
  BY <1>1, <1>7 DEF CommitRollback
<1> QED
  BY <1>2, <1>3, <1>4, <1>5, <1>6, <1>7
     DEF Step, CreateLoad, ReadVersion, ImportStart, LoadConfiguration, ReadCurrent,
         Insert, Rollback

(* A request that keeps its operation and the row it loaded, and whose       *)
(* version to archive is of its name, keeps the invariant.                   *)
LEMMA HandoverLocal ==
  ASSUME TypeOK, HandoverInv, NEW s \in Sessions, Step(s),
         \A t \in Sessions \ {s} : req'[t] = req[t],
         req'[s].op \in LoadOps => \E q \in rows : Key(q) = Key(req'[s].config),
         req'[s].op \in {"activate", "rollback"} /\ req'[s].current # NULL =>
           req'[s].current.name = req'[s].name
  PROVE  HandoverInv'
<1>1. \A q \in rows : \E r \in rows' : Key(r) = Key(q)
  BY KeysPersist
<1>2. LoadedStored'
  <2> SUFFICES ASSUME NEW t \in Sessions, req'[t].op \in LoadOps
               PROVE  \E q \in rows' : Key(q) = Key(req'[t].config)
    BY DEF LoadedStored, Key
  <2>1. PICK q \in rows : Key(q) = Key(req'[t].config)
    BY DEF HandoverInv, LoadedStored
  <2> QED
    BY <1>1, <2>1
<1>3. CurrentNamed'
  BY DEF HandoverInv, CurrentNamed
<1> QED
  BY <1>2, <1>3 DEF HandoverInv

(* What _active_configuration returns is a row of the name it is asked for.  *)
LEMMA CurrentOfName ==
  ASSUME TypeOK, NumberingInv, NEW s \in Sessions, NEW own,
         active_configuration(s, own) # NULL
  PROVE  active_configuration(s, own).name = own[1]
<1> DEFINE actives == {r \in Visible(s) : /\ r.name = own[1]
                                          /\ r.status = "ACTIVE"
                                          /\ ~r.deleted}
           newest  == CHOOSE r \in actives : \A q \in actives : q.version <= r.version
<1>1. \A r \in actives : r.version \in Nat /\ r.version <= MaxVersion
  BY DEF Visible, TypeOK, Request, Configuration, NumberingInv, VersionBound
<1>2. actives # {}
  BY DEF active_configuration
<1>3. \E r \in actives : \A q \in actives : q.version <= r.version
  <2> DEFINE V == {r.version : r \in actives}
  <2>1. V \subseteq Nat /\ V # {} /\ \A v \in V : v <= MaxVersion
    BY <1>1, <1>2
  <2>2. PICK m \in V : \A v \in V : v <= m
    BY <2>1, GreatestNatural, ConfigurationsAssumption
  <2> QED
    BY <2>2
<1>4. newest \in actives
  BY <1>3
<1>5. newest.name = own[1]
  BY <1>4
<1> HIDE DEF newest
<1>6. active_configuration(s, own) = newest \/
        (active_configuration(s, own) = req[s].config /\ Key(newest) = Key(req[s].config))
  BY DEF active_configuration, newest
<1> QED
  BY <1>5, <1>6, KeyEquality

(* Every step of every handler keeps the invariant of the handover. *)
LEMMA HandoverStep ==
  ASSUME TypeOK, NumberingInv, HandoverInv, [Next]_vars
  PROVE  HandoverInv'
<1>1. CASE UNCHANGED vars
  BY <1>1 DEF vars, HandoverInv, LoadedStored, CurrentNamed
<1>2. ASSUME NEW s \in Sessions, Step(s) PROVE HandoverInv'
  <2> USE <1>2
  <2>0. /\ req[s].op \in LoadOps => \E q \in rows : Key(q) = Key(req[s].config)
        /\ req[s].op \in {"activate", "rollback"} /\ req[s].current # NULL =>
             req[s].current.name = req[s].name
    BY DEF HandoverInv, LoadedStored, CurrentNamed
  <2>1. ASSUME NEW n \in Names, CreateLoad(s, n) PROVE HandoverInv'
    <3>1. /\ \A t \in Sessions \ {s} : req'[t] = req[t]
          /\ req'[s].op = "create"
      BY <2>1 DEF CreateLoad, TypeOK, Request
    <3> QED
      BY <3>1, HandoverLocal DEF LoadOps
  <2>2. CASE ImportStart(s)
    <3>1. /\ \A t \in Sessions \ {s} : req'[t] = req[t]
          /\ req'[s].op = "import"
      BY <2>2 DEF ImportStart, TypeOK, Request
    <3> QED
      BY <3>1, HandoverLocal DEF LoadOps
  <2>3. ASSUME NEW op \in LoadOps, NEW r \in rows, LoadConfiguration(s, op, r)
        PROVE  HandoverInv'
    <3>1. /\ \A t \in Sessions \ {s} : req'[t] = req[t]
          /\ req'[s].config = r /\ req'[s].current = NULL
      BY <2>3 DEF LoadConfiguration, TypeOK, Request, NoRequest
    <3> QED
      BY <3>1, HandoverLocal
  <2>4. ASSUME NEW n \in Names, ReadVersion(s, n) PROVE HandoverInv'
    <3>1. /\ \A t \in Sessions \ {s} : req'[t] = req[t]
          /\ req'[s].op = req[s].op /\ req'[s].config = req[s].config
          /\ req'[s].current = req[s].current
          /\ req[s].op = "rollback" => req'[s].name = req[s].name
          /\ req[s].op # "activate"
      BY <2>4 DEF ReadVersion, TypeOK, Request
    <3> QED
      BY <2>0, <3>1, HandoverLocal
  <2>5. CASE ReadCurrent(s)
    <3>1. PICK own : /\ own = IF req[s].op = "activate" THEN Key(req[s].config)
                              ELSE <<req[s].name, req[s].version>>
                     /\ req' = [req EXCEPT ![s].at = "ready",
                                           ![s].current = active_configuration(s, own)]
      BY <2>5 DEF ReadCurrent
    <3>2. own[1] = req[s].name
      BY <2>5, <3>1 DEF ReadCurrent, Is, Key, NumberingInv, RequestShape, LoadOps, Ops
    <3>3. PICK c : c = active_configuration(s, own)
      OBVIOUS
    <3>4. /\ \A t \in Sessions \ {s} : req'[t] = req[t]
          /\ req'[s].op = req[s].op /\ req'[s].config = req[s].config
          /\ req'[s].current = c /\ req'[s].name = req[s].name
      BY <3>1, <3>3 DEF TypeOK, Request
    <3>5. c # NULL => c.name = req[s].name
      BY <3>2, <3>3, CurrentOfName
    <3> QED
      BY <2>0, <3>4, <3>5, HandoverLocal
  <2>6. CASE Insert(s)
    <3>1. /\ \A t \in Sessions \ {s} : req'[t] = req[t]
          /\ req'[s].op = req[s].op /\ req'[s].config = req[s].config
          /\ req'[s].current = req[s].current /\ req'[s].name = req[s].name
      BY <2>6 DEF Insert, TypeOK, Request
    <3> QED
      BY <2>0, <3>1, HandoverLocal
  <2>7. CASE Finish(s)
    <3>1. /\ \A t \in Sessions \ {s} : req'[t] = req[t]
          /\ req'[s].op = "none"
      BY <2>7, NoRequestFacts DEF Finish, TypeOK
    <3> QED
      BY <3>1, HandoverLocal DEF LoadOps, Ops
  <2> QED
    BY <2>1, <2>2, <2>3, <2>4, <2>5, <2>6, <2>7
       DEF Step, CommitDrafts, CommitDelete, CommitArchive, CommitActivate,
           CommitRollback, Rollback
<1> QED
  BY <1>1, <1>2 DEF Next

(* The invariant of the handover holds in every reachable state. *)
LEMMA HandoverInvariant == Spec => []HandoverInv
<1>1. Init => HandoverInv
  BY NoRequestFacts DEF Init, HandoverInv, LoadedStored, CurrentNamed
<1> QED
  BY <1>1, HandoverStep, NumberingInvariant, PTL DEF Spec

(* The ACTIVE rows before the commit of an activation or of a rollback of    *)
(* another name stay ACTIVE.                                                 *)
LEMMA OthersStayActive ==
  ASSUME TypeOK, HandoverInv, NEW s \in Sessions, NEW r \in rows,
         req[s].op \in {"activate", "rollback"}, r.status = "ACTIVE",
         r.name # req[s].name
  PROVE  Superseded(s, r) = r
<1>1. CASE req[s].current = NULL \/ Key(r) # Key(req[s].current)
  BY <1>1 DEF Superseded
<1>2. CASE req[s].current # NULL /\ Key(r) = Key(req[s].current)
  BY <1>2, KeyEquality DEF HandoverInv, CurrentNamed
<1> QED
  BY <1>1, <1>2

(* A step of a request leaves a name without ACTIVE version only when it     *)
(* commits an archive of that name.                                          *)
LEMMA OnlyArchiveRetires ==
  ASSUME TypeOK, NumberingInv, SerialInv, HandoverInv, NEW s \in Sessions, Step(s),
         NEW n \in Names, NEW r \in ActiveRows(rows, n), ActiveRows(rows', n) = {}
  PROVE  CommitArchive(s) /\ req[s].name = n
<1>0. r \in rows /\ r \in Configuration /\ r.name = n /\ r.status = "ACTIVE"
  BY DEF ActiveRows, TypeOK
<1>1. \A x \in rows' : ~(x.name = n /\ x.status = "ACTIVE")
  BY DEF ActiveRows
<1>2. CASE UNCHANGED rows
  BY <1>0, <1>1, <1>2
<1>3. CASE CommitDrafts(s)
  BY <1>0, <1>1, <1>3 DEF CommitDrafts, Visible
<1>4. CASE CommitDelete(s)
  <2>1. LET x == [r EXCEPT !.deleted = TRUE] IN x.name = n /\ x.status = "ACTIVE"
    BY <1>0 DEF Configuration
  <2> QED
    BY <1>0, <1>1, <1>4, <2>1 DEF CommitDelete
<1>5. CASE CommitArchive(s)
  <2>1. Key(r) = Key(req[s].config)
    BY <1>0, <1>1, <1>5 DEF CommitArchive
  <2>2. req[s].name = req[s].config.name
    BY <1>5 DEF CommitArchive, Is, NumberingInv, RequestShape, LoadOps, Ops
  <2> QED
    BY <1>0, <1>5, <2>1, <2>2, KeyEquality
<1>6. CASE CommitActivate(s)
  <2>1. /\ req[s].op = "activate" /\ req[s].name = req[s].config.name
        /\ req[s].op \in LoadOps
    BY <1>6 DEF CommitActivate, Is, NumberingInv, RequestShape, LoadOps, Ops
  <2>2. PICK q \in rows : Key(q) = Key(req[s].config)
    BY <2>1 DEF HandoverInv, LoadedStored
  <2>3. PICK x : x = Activated(q, req[s].config)
    OBVIOUS
  <2>4. x \in rows'
    BY <1>6, <2>2, <2>3 DEF CommitActivate
  <2>5. x.name = q.name /\ x.status = "ACTIVE" /\ q.name = req[s].name
    BY <2>1, <2>2, <2>3, KeyEquality DEF Activated, TypeOK, Configuration
  <2>6. n # req[s].name
    BY <1>1, <2>4, <2>5
  <2>7. Superseded(s, r) = r
    BY <1>0, <2>1, <2>6, OthersStayActive
  <2>8. Key(r) # Key(req[s].config)
    BY <1>0, <2>1, <2>6, KeyEquality
  <2>9. r \in rows'
    BY <1>0, <1>6, <2>7, <2>8 DEF CommitActivate
  <2> QED
    BY <1>0, <1>1, <2>9
<1>7. CASE CommitRollback(s)
  <2>1. req[s].op = "rollback" /\ req[s].mine = {Draft(req[s].name, req[s].version)}
    BY <1>7 DEF CommitRollback, Is, SerialInv, RollbackRow
  <2>2. PICK x : x = [Draft(req[s].name, req[s].version) EXCEPT !.status = "ACTIVE"]
    OBVIOUS
  <2>3. x \in rows'
    BY <1>7, <2>1, <2>2 DEF CommitRollback
  <2>4. x.name = req[s].name /\ x.status = "ACTIVE"
    BY <2>2 DEF Draft
  <2>5. n # req[s].name
    BY <1>1, <2>3, <2>4
  <2>6. Superseded(s, r) = r
    BY <1>0, <2>1, <2>5, OthersStayActive
  <2>7. r \in rows'
    BY <1>0, <1>7, <2>6 DEF CommitRollback
  <2> QED
    BY <1>0, <1>1, <2>7
<1> QED
  BY <1>2, <1>3, <1>4, <1>5, <1>6, <1>7
     DEF Step, CreateLoad, ReadVersion, ImportStart, LoadConfiguration, ReadCurrent,
         Insert, Rollback

(* Whatever requests overlap, activate_configuration and                     *)
(* rollback_configuration never leave a name that has an ACTIVE version      *)
(* without one: only the commit of an archive request does.                  *)
THEOREM HandoverIsOneCommit == Spec => HandoverAtomic
<1> DEFINE A == \A n \in Names :
                  ActiveRows(rows, n) # {} /\ ActiveRows(rows', n) = {} =>
                    \E s \in Sessions : /\ req[s].op = "archive" /\ req[s].name = n
                                        /\ req'[s] = NoRequest
<1>1. TypeOK /\ NumberingInv /\ SerialInv /\ HandoverInv /\ [Next]_vars => [A]_vars
  <2> SUFFICES ASSUME TypeOK, NumberingInv, SerialInv, HandoverInv, Next,
                      NEW n \in Names, ActiveRows(rows, n) # {}, ActiveRows(rows', n) = {}
               PROVE  \E s \in Sessions : /\ req[s].op = "archive" /\ req[s].name = n
                                          /\ req'[s] = NoRequest
    OBVIOUS
  <2>1. PICK s \in Sessions : Step(s)
    BY DEF Next
  <2>2. PICK r \in ActiveRows(rows, n) : TRUE
    OBVIOUS
  <2>3. CommitArchive(s) /\ req[s].name = n
    BY <2>1, <2>2, OnlyArchiveRetires
  <2> QED
    BY <2>3 DEF CommitArchive, Is, Finish, TypeOK
<1> QED
  BY <1>1, NumberingInvariant, SerialInvariant, HandoverInvariant, PTL
     DEF Spec, HandoverAtomic

-----------------------------------------------------------------------------
(* Part 4: the ACTIVE version is the last audited one. *)

(* A step that adds no ACTIVE row and writes no such audit entry. *)
LEMMA FewerActiveKeepAudited ==
  ASSUME ActiveIsLastAudited, overlapped => overlapped', lastAudited' = lastAudited,
         ~overlapped => \A x \in rows' : x.status = "ACTIVE" =>
           \E r \in rows : /\ r.status = "ACTIVE" /\ x.name = r.name /\ x.version = r.version
                           /\ x.deleted = r.deleted /\ x.archived = r.archived
  PROVE  ActiveIsLastAudited'
BY DEF ActiveIsLastAudited

(* The handover of a request that is alone: the new ACTIVE row is the one    *)
(* that is audited, and the others are of other names.                       *)
LEMMA HandoverAudited ==
  ASSUME TypeOK, SerialInv, HandoverInv, ActiveIsLastAudited, NEW s \in Sessions,
         ~overlapped,
         Is(s, "activate", "ready") \/ Is(s, "rollback", "ready"),
         NEW a, a.name = req[s].name, ~a.deleted, ~a.archived, req[s].name \in Names,
         lastAudited' = [lastAudited EXCEPT ![req[s].name] = a.version],
         \A x \in rows' : x = a \/ \E r \in rows : x = Superseded(s, r)
  PROVE  ActiveIsLastAudited'
<1> SUFFICES ASSUME NEW x \in rows', x.status = "ACTIVE"
             PROVE  lastAudited'[x.name] = x.version /\ ~x.deleted /\ ~x.archived
  BY DEF ActiveIsLastAudited
<1>1. CASE x = a
  BY <1>1 DEF TypeOK
<1>2. CASE x # a
  <2>1. PICK r \in rows : x = Superseded(s, r)
    BY <1>2
  <2>2. r.status = "ACTIVE" /\ r.name # req[s].name /\ r \in Configuration
    BY <2>1, SupersededFacts DEF TypeOK
  <2>3. lastAudited[r.name] = r.version /\ ~r.deleted /\ ~r.archived
    BY <2>2 DEF ActiveIsLastAudited
  <2>4. x = r
    BY <2>1, <2>2, OthersStayActive DEF Is
  <2> QED
    BY <2>2, <2>3, <2>4 DEF TypeOK, Configuration
<1> QED
  BY <1>1, <1>2

(* Every step of every handler keeps the ACTIVE version the audited one. *)
LEMMA AuditedStep ==
  ASSUME TypeOK, NumberingInv, SerialInv, HandoverInv, ActiveIsLastAudited, [Next]_vars
  PROVE  ActiveIsLastAudited'
<1>1. CASE UNCHANGED vars
  BY <1>1 DEF vars, ActiveIsLastAudited
<1>2. ASSUME NEW s \in Sessions, Step(s) PROVE ActiveIsLastAudited'
  <2> DEFINE c == req[s].config
  <2>0. overlapped => overlapped'
    BY <1>2 DEF Step, CreateLoad, ImportStart, LoadConfiguration, Begins, ReadVersion,
                ReadCurrent, Insert, CommitDrafts, CommitDelete, CommitArchive,
                CommitActivate, CommitRollback, Rollback, Finish
  <2>1. CASE UNCHANGED <<rows, lastAudited>>
    BY <2>0, <2>1, FewerActiveKeepAudited
  <2>2. CASE CommitDrafts(s)
    <3>1. \A r \in req[s].mine : r.status # "ACTIVE"
      BY DEF SerialInv, MineDraft
    <3> QED
      BY <2>0, <2>2, <3>1, FewerActiveKeepAudited DEF CommitDrafts, Visible
  <2>3. CASE CommitDelete(s)
    <3>1. ASSUME ~overlapped, NEW x \in rows', x.status = "ACTIVE" PROVE x \in rows
      <4>1. c \in rows /\ c.status # "ACTIVE"
        BY <2>3, <3>1 DEF CommitDelete, Is, SerialInv, LoadedFresh, Accepts, LoadOps, Ops
      <4>2. \A r \in rows : Key(r) = Key(c) => r = c
        BY <4>1 DEF NumberingInv, VersionsContiguous
      <4>3. [c EXCEPT !.deleted = TRUE].status = c.status
        BY <4>1 DEF TypeOK, Configuration
      <4> QED
        BY <2>3, <3>1, <4>1, <4>2, <4>3 DEF CommitDelete
    <3> QED
      BY <2>0, <2>3, <3>1, FewerActiveKeepAudited DEF CommitDelete
  <2>4. CASE CommitArchive(s)
    <3>1. \A r \in rows : Archived(r).status = "ARCHIVED"
      BY DEF Archived, TypeOK, Configuration
    <3>2. \A x \in rows' : x.status = "ACTIVE" => x \in rows
      BY <2>4, <3>1 DEF CommitArchive
    <3> QED
      BY <2>0, <2>4, <3>2, FewerActiveKeepAudited DEF CommitArchive
  <2>5. CASE CommitActivate(s) /\ ~overlapped
    <3>1. Is(s, "activate", "ready")
      BY <2>5 DEF CommitActivate
    <3>2. c \in rows /\ ~c.deleted /\ c.name = req[s].name
      BY <2>5, <3>1 DEF Is, SerialInv, LoadedFresh, NumberingInv, RequestShape, LoadOps, Ops
    <3>3. PICK a : a = Activated(c, c)
      OBVIOUS
    <3>4. a.name = req[s].name /\ a.version = c.version /\ ~a.deleted /\ ~a.archived
      BY <3>2, <3>3 DEF Activated, TypeOK, Configuration
    <3>5. \A r \in rows : Key(r) = Key(c) => r = c
      BY <3>2 DEF NumberingInv, VersionsContiguous
    <3>6. \A x \in rows' : x = a \/ \E r \in rows : x = Superseded(s, r)
      BY <2>5, <3>3, <3>5 DEF CommitActivate
    <3>7. lastAudited' = [lastAudited EXCEPT ![req[s].name] = a.version]
      BY <2>5, <3>4 DEF CommitActivate
    <3>8. req[s].name \in Names
      BY <3>2 DEF TypeOK, Configuration
    <3> QED
      BY <2>5, <3>1, <3>4, <3>6, <3>7, <3>8, HandoverAudited
  <2>6. CASE CommitRollback(s) /\ ~overlapped
    <3> DEFINE d == Draft(req[s].name, req[s].version)
    <3>1. Is(s, "rollback", "ready")
      BY <2>6 DEF CommitRollback
    <3>2. req[s].mine = {d}
      BY <3>1 DEF Is, SerialInv, RollbackRow
    <3>3. PICK a : a = [d EXCEPT !.status = "ACTIVE"]
      OBVIOUS
    <3>4. a.name = req[s].name /\ a.version = req[s].version /\ ~a.deleted /\ ~a.archived
      BY <3>3 DEF Draft
    <3>5. \A x \in rows' : x = a \/ \E r \in rows : x = Superseded(s, r)
      BY <2>6, <3>2, <3>3 DEF CommitRollback
    <3>6. lastAudited' = [lastAudited EXCEPT ![req[s].name] = a.version]
      BY <2>6, <3>4 DEF CommitRollback
    <3>7. req[s].name \in Names
      BY <3>1 DEF Is, NumberingInv, RequestShape, LoadOps, Ops, Configuration
    <3> QED
      BY <2>6, <3>1, <3>4, <3>5, <3>6, <3>7, HandoverAudited
  <2>7. CASE overlapped
    BY <2>0, <2>7 DEF ActiveIsLastAudited
  <2> QED
    BY <1>2, <2>1, <2>2, <2>3, <2>4, <2>5, <2>6, <2>7
       DEF Step, CreateLoad, ReadVersion, ImportStart, LoadConfiguration, ReadCurrent,
           Insert, Rollback
<1> QED
  BY <1>1, <1>2 DEF Next

(* Until two requests overlap, the ACTIVE version of a name is the one its   *)
(* newest CONFIGURATION_ACTIVATED or CONFIGURATION_ROLLED_BACK entry names,  *)
(* is not soft-deleted and has archived_at cleared.                          *)
THEOREM ActiveVersionIsAudited == Spec => []ActiveIsLastAudited
<1>1. Init => ActiveIsLastAudited
  BY DEF Init, ActiveIsLastAudited
<1> QED
  BY <1>1, AuditedStep, NumberingInvariant, SerialInvariant, HandoverInvariant, PTL
     DEF Spec

=============================================================================
