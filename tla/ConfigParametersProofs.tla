----------------------- MODULE ConfigParametersProofs -----------------------
(***************************************************************************)
(* Theorems about ConfigParameters for any sets of sessions, parameters    *)
(* and values.  Part 1: change records are never lost.  Part 2: what holds *)
(* under every interleaving.  Part 3: what an apply commits.  Part 4: what *)
(* holds until requests overlap.                                           *)
(***************************************************************************)
EXTENDS ConfigParameters, FiniteSetTheorems, SequenceTheorems, TLAPS

-----------------------------------------------------------------------------
(* Part 1: change records are never lost. *)

\* Records are only added, and keep the parameter and the value they name.
RecordsKept ==
    /\ Len(changes) <= Len(changes')
    /\ \A i \in DOMAIN changes : /\ changes'[i].param = changes[i].param
                                 /\ changes'[i].new = changes[i].new

LEMMA ExplainedKept ==
  ASSUME TypeOK, changes' \in Seq(ConfigChange), RecordsKept,
         NEW p, NEW row, Explained(p, row)
  PROVE  Explained(p, row)'
<1>1. DOMAIN changes \subseteq DOMAIN changes'
  BY DEF TypeOK, RecordsKept
<1>2. ASSUME NEW v, Recorded(p, v) PROVE Recorded(p, v)'
  BY <1>1, <1>2 DEF Recorded, RecordsKept
<1>3. row.pending # NULL => Recorded(p, row.pending)'
  BY <1>2 DEF Explained
<1>4. row.active # Initial[p] => Recorded(p, row.active)'
  BY <1>2 DEF Explained
<1> QED
  BY <1>3, <1>4 DEF Explained

LEMMA RecordsOfKept ==
  ASSUME TypeOK, changes' \in Seq(ConfigChange), RecordsKept, NEW p
  PROVE  RecordsOf(p) \subseteq RecordsOf(p)'
<1>1. DOMAIN changes \subseteq DOMAIN changes'
  BY DEF TypeOK, RecordsKept
<1> QED
  BY <1>1 DEF RecordsOf, RecordsKept

LEMMA ApplySoundKept ==
  ASSUME TypeOK, changes' \in Seq(ConfigChange), RecordsKept, NEW t \in Sessions,
         ApplySound(t), req'[t].loaded = req[t].loaded, req'[t].todo = req[t].todo,
         req'[t].flushed = req[t].flushed
  PROVE  ApplySound(t)'
<1>1. PICK done : done = req[t].flushed
  OBVIOUS
<1>2. \A k \in DOMAIN done : done[k].closes \subseteq RecordsOf(done[k].param)'
  BY <1>1, RecordsOfKept DEF ApplySound
<1>3. done = req'[t].flushed
  BY <1>1
<1> QED
  BY <1>1, <1>2, <1>3 DEF ApplySound

(* A request that does not move stays sound. *)
LEMMA RequestKept ==
  ASSUME TypeOK, changes' \in Seq(ConfigChange), RecordsKept,
         NEW t \in Sessions, RequestSound(t), req'[t] = req[t]
  PROVE  RequestSound(t)'
<1>1. PICK r : r = req[t]
  OBVIOUS
<1>2. \A p \in Params : r.loaded[p] # NULL => Explained(p, r.loaded[p])'
  BY <1>1, ExplainedKept DEF RequestSound
<1>3. r.chosen \subseteq RecordsOf(r.current)'
  BY <1>1, RecordsOfKept DEF RequestSound
<1>4. IF r.op = "apply" THEN ApplySound(t)' ELSE r.flushed = <<>>
  <2>1. CASE r.op # "apply"
    BY <2>1, <1>1 DEF RequestSound
  <2>2. CASE r.op = "apply"
    <3>1. ApplySound(t)
      BY <2>2, <1>1 DEF RequestSound
    <3> QED
      BY <2>2, <3>1, ApplySoundKept
  <2> QED
    BY <2>1, <2>2
<1>5. req'[t] = r
  BY <1>1
<1> QED
  BY <1>1, <1>2, <1>3, <1>4, <1>5 DEF RequestSound

LEMMA StepKept ==
  ASSUME ParametersInv, TypeOK', RecordsKept, NEW s \in Sessions,
         \A t \in Sessions \ {s} : req'[t] = req[t], RequestSound(s)',
         \A p \in Params : params'[p] = params[p] \/ Explained(p, params[p])'
  PROVE  ParametersInv'
<1>1. changes' \in Seq(ConfigChange)
  BY DEF TypeOK
<1>2. ASSUME NEW p \in Params PROVE Explained(p, params[p])'
  <2>1. CASE params'[p] = params[p]
    <3>1. PICK row : row = params[p]
      OBVIOUS
    <3>2. Explained(p, row)'
      BY <3>1, <1>1, ExplainedKept DEF ParametersInv
    <3> QED
      BY <3>1, <3>2, <2>1 DEF Explained
  <2> QED
    BY <2>1
<1>3. ASSUME NEW t \in Sessions PROVE RequestSound(t)'
  BY <1>1, RequestKept DEF ParametersInv
<1> QED
  BY <1>2, <1>3 DEF ParametersInv

(* A request that only reads or writes to its own session. *)
LEMMA ReadKept ==
  ASSUME ParametersInv, NEW s \in Sessions, NEW r \in Request,
         UNCHANGED <<params, changes, audit>>, overlapped' \in BOOLEAN,
         req' = [req EXCEPT ![s] = r], RequestSound(s)'
  PROVE  ParametersInv'
<1>1. req' \in [Sessions -> Request] /\ \A t \in Sessions \ {s} : req'[t] = req[t]
  BY DEF ParametersInv, TypeOK
<1>2. TypeOK'
  BY <1>1 DEF ParametersInv, TypeOK
<1>3. RecordsKept
  BY DEF ParametersInv, TypeOK, RecordsKept
<1> QED
  BY <1>1, <1>2, <1>3, StepKept

LEMMA NoRequestTyped ==
  NoRequest \in Request
<1>1. [p \in Params |-> NULL] \in [Params -> ConfigParameter \cup {NULL}]
  OBVIOUS
<1>2. <<>> \in Seq(Flushed)
  OBVIOUS
<1> QED
  BY <1>1, <1>2 DEF NoRequest, Request

LEMMA FinishSound ==
  ASSUME TypeOK, NEW s \in Sessions, Finish(s)
  PROVE  /\ req' \in [Sessions -> Request] /\ overlapped' = overlapped
         /\ req'[s] = NoRequest /\ \A t \in Sessions \ {s} : req'[t] = req[t]
         /\ RequestSound(s)'
<1>1. /\ req' \in [Sessions -> Request]
      /\ req'[s] = NoRequest /\ \A t \in Sessions \ {s} : req'[t] = req[t]
  BY NoRequestTyped DEF Finish, TypeOK
<1>2. RequestSound(s)'
  BY <1>1 DEF RequestSound, NoRequest
<1> QED
  BY <1>1, <1>2 DEF Finish

-----------------------------------------------------------------------------
(* Part 2: what holds under every interleaving. *)

LEMMA ParameterRow ==
  ASSUME ParametersInv, NEW p \in Params
  PROVE  /\ params[p] \in ConfigParameter /\ params[p] # NULL
         /\ params[p].active \in Values /\ params[p].pending \in Values \cup {NULL}
         /\ Explained(p, params[p])
<1>1. params[p] \in ConfigParameter
  BY DEF ParametersInv, TypeOK
<1> QED
  BY <1>1, NoRow DEF ConfigParameter, ParametersInv

(* The row a request loaded. *)
LEMMA LoadedRow ==
  ASSUME ParametersInv, NEW s \in Sessions, NEW p \in Params, req[s].loaded[p] # NULL
  PROVE  /\ req[s].loaded[p] \in ConfigParameter
         /\ req[s].loaded[p].active \in Values
         /\ req[s].loaded[p].pending \in Values \cup {NULL}
         /\ Explained(p, req[s].loaded[p])
<1>1. req[s] \in Request
  BY DEF ParametersInv, TypeOK
<1>2. req[s].loaded[p] \in ConfigParameter
  BY <1>1 DEF Request
<1> QED
  BY <1>2 DEF ConfigParameter, ParametersInv, RequestSound

LEMMA StageLoadKeeps ==
  ASSUME ParametersInv, NEW s \in Sessions, NEW p \in Params, NEW v \in Values,
         StageLoad(s, p, v)
  PROVE  ParametersInv'
<1>1. PICK row : row = params[p]
  OBVIOUS
<1>0. PICK r : r = [NoRequest EXCEPT !.op = "stage", !.loaded[p] = row, !.todo = {p},
                                     !.value = v]
  OBVIOUS
<1>2. r = [op |-> "stage", loaded |-> [NoRequest.loaded EXCEPT ![p] = row],
           todo |-> {p}, value |-> v, current |-> NULL, chosen |-> {}, flushed |-> <<>>]
  BY <1>0 DEF NoRequest
<1>3. r \in Request
  <2>1. r.loaded \in [Params -> ConfigParameter \cup {NULL}]
    BY <1>1, <1>2, ParameterRow DEF NoRequest
  <2>2. <<>> \in Seq(Flushed)
    OBVIOUS
  <2> QED
    BY <1>2, <2>1, <2>2 DEF Request
<1>4. req' = [req EXCEPT ![s] = r]
  BY <1>0, <1>1 DEF StageLoad, ParametersInv, TypeOK
<1>5. UNCHANGED <<params, changes, audit>> /\ overlapped' \in BOOLEAN
  BY DEF StageLoad, Begins, ParametersInv, TypeOK
<1>6. RequestSound(s)'
  <2>1. req'[s] = r
    BY <1>4 DEF ParametersInv, TypeOK
  <2>2. \A q \in Params : r.loaded[q] = IF q = p THEN row ELSE NULL
    BY <1>2 DEF NoRequest
  <2>3. Explained(p, row)'
    BY <1>1, <1>5, ParameterRow DEF Explained, Recorded
  <2>4. v \in Allowed[p] /\ row # NULL
    BY <1>1, ParameterRow DEF StageLoad
  <2> QED
    BY <1>2, <2>1, <2>2, <2>3, <2>4 DEF RequestSound
<1> QED
  BY <1>3, <1>4, <1>5, <1>6, ReadKept

LEMMA RevertLoadKeeps ==
  ASSUME ParametersInv, NEW s \in Sessions, NEW p \in Params, RevertLoad(s, p)
  PROVE  ParametersInv'
<1>1. PICK row : row = params[p]
  OBVIOUS
<1>0. PICK r : r = [NoRequest EXCEPT !.op = "revert", !.loaded[p] = row, !.todo = {p}]
  OBVIOUS
<1>2. r = [op |-> "revert", loaded |-> [NoRequest.loaded EXCEPT ![p] = row],
           todo |-> {p}, value |-> NULL, current |-> NULL, chosen |-> {},
           flushed |-> <<>>]
  BY <1>0 DEF NoRequest
<1>3. r \in Request
  <2>1. r.loaded \in [Params -> ConfigParameter \cup {NULL}]
    BY <1>1, <1>2, ParameterRow DEF NoRequest
  <2>2. <<>> \in Seq(Flushed)
    OBVIOUS
  <2> QED
    BY <1>2, <2>1, <2>2 DEF Request
<1>4. req' = [req EXCEPT ![s] = r]
  BY <1>0, <1>1 DEF RevertLoad, ParametersInv, TypeOK
<1>5. UNCHANGED <<params, changes, audit>> /\ overlapped' \in BOOLEAN
  BY DEF RevertLoad, Begins, ParametersInv, TypeOK
<1>6. RequestSound(s)'
  <2>1. req'[s] = r
    BY <1>4 DEF ParametersInv, TypeOK
  <2>2. \A q \in Params : r.loaded[q] = IF q = p THEN row ELSE NULL
    BY <1>2 DEF NoRequest
  <2>3. Explained(p, row)'
    BY <1>1, <1>5, ParameterRow DEF Explained, Recorded
  <2> QED
    BY <1>1, <1>2, <2>1, <2>2, <2>3, ParameterRow DEF RequestSound
<1> QED
  BY <1>3, <1>4, <1>5, <1>6, ReadKept

LEMMA ApplyLoadKeeps ==
  ASSUME ParametersInv, NEW s \in Sessions, ApplyLoad(s)
  PROVE  ParametersInv'
<1> DEFINE staged == {p \in Params : params[p].pending # NULL}
<1>1. PICK rows, S : /\ S = staged
                     /\ rows = [p \in Params |-> IF p \in staged THEN params[p] ELSE NULL]
  OBVIOUS
<1>0. PICK r : r = [NoRequest EXCEPT !.op = "apply", !.todo = S, !.loaded = rows]
  OBVIOUS
<1>2. r = [op |-> "apply", loaded |-> rows, todo |-> S, value |-> NULL,
           current |-> NULL, chosen |-> {}, flushed |-> <<>>]
  BY <1>0 DEF NoRequest
<1>3. r \in Request
  <2>1. rows \in [Params -> ConfigParameter \cup {NULL}] /\ S \subseteq Params
    BY <1>1, ParameterRow
  <2>2. <<>> \in Seq(Flushed)
    OBVIOUS
  <2> QED
    BY <1>2, <2>1, <2>2 DEF Request
<1>4. req' = [req EXCEPT ![s] = r]
  <2>1. req[s] = NoRequest /\ req' = [req EXCEPT ![s].op = "apply", ![s].todo = S,
                                                 ![s].loaded = rows]
    BY <1>1 DEF ApplyLoad
  <2> QED
    BY <1>0, <2>1 DEF ParametersInv, TypeOK
<1>5. UNCHANGED <<params, changes, audit>> /\ overlapped' \in BOOLEAN
  BY DEF ApplyLoad, Begins, ParametersInv, TypeOK
<1>6. RequestSound(s)'
  <2>1. req'[s] = r
    BY <1>4 DEF ParametersInv, TypeOK
  <2>2. \A p \in Params : /\ (p \in S) = (params[p].pending # NULL)
                          /\ rows[p] = IF p \in S THEN params[p] ELSE NULL
    BY <1>1
  <2>3. ASSUME NEW p \in S PROVE Explained(p, rows[p])' /\ rows[p] # NULL
    <3>1. p \in Params /\ rows[p] = params[p]
      BY <1>1
    <3> QED
      BY <3>1, <1>5, ParameterRow DEF Explained, Recorded
  <2>4. ApplySound(s)'
    BY <1>2, <2>1, <2>2, ParameterRow DEF ApplySound
  <2>5. S \subseteq Params
    BY <1>1
  <2> QED
    BY <1>2, <2>1, <2>2, <2>3, <2>4, <2>5 DEF RequestSound
<1> QED
  BY <1>3, <1>4, <1>5, <1>6, ReadKept

(* The SELECT of revert and of apply's loop. *)
LEMMA SelectKeeps ==
  ASSUME ParametersInv, NEW s \in Sessions, NEW p \in req[s].todo, NEW r,
         r = [req[s] EXCEPT !.current = p, !.chosen = r.chosen],
         r.chosen \subseteq PendingChanges(p),
         req' = [req EXCEPT ![s] = r],
         UNCHANGED <<params, changes, audit, overlapped>>
  PROVE  ParametersInv'
<1>1. PICK q, ids : q = req[s] /\ ids = r.chosen
  OBVIOUS
<1>2. r = [q EXCEPT !.current = p, !.chosen = ids]
  BY <1>1
<1>3. q \in Request /\ p \in Params /\ ids \subseteq RecordsOf(p) /\ ids \subseteq Nat
  BY <1>1 DEF ParametersInv, TypeOK, Request, PendingChanges, RecordsOf
<1>4. r \in Request /\ r.op = q.op /\ r.loaded = q.loaded /\ r.todo = q.todo
      /\ r.value = q.value /\ r.flushed = q.flushed /\ r.current = p /\ r.chosen = ids
  BY <1>2, <1>3 DEF Request
<1>6. RequestSound(s)'
  <2>1. req'[s] = r
    BY DEF ParametersInv, TypeOK
  <2>2. RequestSound(s) /\ changes' = changes /\ params' = params
    BY DEF ParametersInv
  <2>3. q.op = "apply" => ApplySound(s)'
    <3>1. RecordsKept /\ TypeOK /\ changes' \in Seq(ConfigChange)
      BY <2>2 DEF RecordsKept, ParametersInv, TypeOK
    <3> QED
      BY <3>1, <2>1, <2>2, <1>1, <1>4, ApplySoundKept DEF RequestSound
  <2>4. \A x \in Params : r.loaded[x] # NULL => Explained(x, r.loaded[x])'
    BY <2>2, <1>1, <1>4 DEF RequestSound, Explained, Recorded
  <2>5. r.chosen \subseteq RecordsOf(r.current)'
    BY <2>2, <1>3, <1>4 DEF RecordsOf
  <2> QED
    BY <2>1, <2>2, <2>3, <2>4, <2>5, <1>1, <1>4 DEF RequestSound
<1>7. overlapped' \in BOOLEAN
  BY DEF ParametersInv, TypeOK
<1> QED
  BY <1>4, <1>6, <1>7, ReadKept

LEMMA RevertSelectKeeps ==
  ASSUME ParametersInv, NEW s \in Sessions, RevertSelect(s)
  PROVE  ParametersInv'
<1>1. PICK p \in req[s].todo :
        req' = [req EXCEPT ![s].current = p, ![s].chosen = PendingChanges(p)]
  BY DEF RevertSelect
<1>2. PICK r : r = [req[s] EXCEPT !.current = p, !.chosen = PendingChanges(p)]
  OBVIOUS
<1>3. r.chosen = PendingChanges(p) /\ req' = [req EXCEPT ![s] = r]
  BY <1>1, <1>2 DEF ParametersInv, TypeOK, Request
<1>4. r = [req[s] EXCEPT !.current = p, !.chosen = r.chosen]
  BY <1>2, <1>3
<1>5. UNCHANGED <<params, changes, audit, overlapped>>
  BY DEF RevertSelect
<1> QED
  BY <1>3, <1>4, <1>5, SelectKeeps

LEMMA ApplySelectKeeps ==
  ASSUME ParametersInv, NEW s \in Sessions, ApplySelect(s)
  PROVE  ParametersInv'
<1>1. PICK p \in req[s].todo :
        \/ /\ PendingChanges(p) = {}
           /\ req' = [req EXCEPT ![s].current = p]
        \/ \E i \in PendingChanges(p) :
              req' = [req EXCEPT ![s].current = p, ![s].chosen = {i}]
  BY DEF ApplySelect
<1>2. CASE req' = [req EXCEPT ![s].current = p]
  <2>1. PICK r : r = [req[s] EXCEPT !.current = p]
    OBVIOUS
  <2>2. req[s] \in Request /\ changes \in Seq(ConfigChange)
    BY DEF ParametersInv, TypeOK
  <2>3. req[s].chosen = {}
    <3>1. req[s].chosen \subseteq RecordsOf(NULL)
      BY DEF ApplySelect, ParametersInv, RequestSound
    <3>2. \A i \in DOMAIN changes : changes[i] \in ConfigChange
      BY <2>2
    <3>3. \A i \in DOMAIN changes : changes[i].param # NULL
      BY <3>2, ConfigAssumption DEF ConfigChange
    <3> QED
      BY <3>1, <3>3 DEF RecordsOf
  <2>4. r = [req[s] EXCEPT !.current = p, !.chosen = r.chosen] /\ r.chosen = {}
    BY <2>1, <2>2, <2>3 DEF Request
  <2>5. req' = [req EXCEPT ![s] = r]
    BY <1>2, <2>1 DEF ParametersInv, TypeOK
  <2> QED
    BY <2>4, <2>5, SelectKeeps DEF ApplySelect
<1>3. ASSUME NEW i \in PendingChanges(p),
             req' = [req EXCEPT ![s].current = p, ![s].chosen = {i}]
      PROVE  ParametersInv'
  <2>1. PICK r : r = [req[s] EXCEPT !.current = p, !.chosen = {i}]
    OBVIOUS
  <2>2. r.chosen = {i} /\ req' = [req EXCEPT ![s] = r]
    BY <1>3, <2>1 DEF ParametersInv, TypeOK, Request
  <2>3. r = [req[s] EXCEPT !.current = p, !.chosen = r.chosen]
    BY <2>1, <2>2
  <2>4. UNCHANGED <<params, changes, audit, overlapped>> /\ r.chosen \subseteq PendingChanges(p)
    BY <2>2 DEF ApplySelect
  <2> QED
    BY <2>2, <2>3, <2>4, SelectKeeps
<1> QED
  BY <1>1, <1>2, <1>3

(* Flushing one row: it moves from the rows to do to the rows done. *)
LEMMA ApplyFlushKeeps ==
  ASSUME ParametersInv, NEW s \in Sessions, ApplyFlush(s)
  PROVE  ParametersInv'
<1>1. PICK q, p, w : /\ q = req[s] /\ p = q.current
                     /\ w = [param |-> p, loaded |-> q.loaded[p], closes |-> q.chosen]
  OBVIOUS
<1>2. PICK r, f, T : /\ r = [q EXCEPT !.flushed = f, !.todo = T, !.current = NULL,
                                       !.chosen = {}]
                     /\ f = Append(q.flushed, w) /\ T = q.todo \ {p}
  OBVIOUS
<1>3. /\ q \in Request /\ RequestSound(s) /\ ApplySound(s) /\ q.op = "apply" /\ p # NULL
      /\ UNCHANGED <<params, changes, audit, overlapped>>
  BY <1>1 DEF ApplyFlush, ParametersInv, TypeOK, RequestSound
<1>4. p \in q.todo /\ p \in Params /\ q.loaded[p] # NULL /\ q.chosen \subseteq RecordsOf(p)
  BY <1>1, <1>3 DEF RequestSound, Request
<1>5. w \in Flushed /\ w.param = p /\ w.loaded = q.loaded[p] /\ w.closes = q.chosen
  BY <1>1, <1>3, <1>4 DEF Flushed, Request
<1>6. /\ r \in Request /\ r.op = "apply" /\ r.loaded = q.loaded /\ r.todo = q.todo \ {p}
      /\ r.value = q.value /\ r.flushed = Append(q.flushed, w) /\ r.current = NULL
      /\ r.chosen = {}
  <2>1. f \in Seq(Flushed) /\ T \subseteq Params
    BY <1>2, <1>3, <1>5 DEF Request
  <2> QED
    BY <2>1, <1>2, <1>3 DEF Request
<1>7. req' = [req EXCEPT ![s] = r]
  BY <1>1, <1>2 DEF ApplyFlush, ParametersInv, TypeOK
<1>8. req'[s] = r
  BY <1>7 DEF ParametersInv, TypeOK
<1> HIDE <1>7
<1>9. ApplySound(s)'
  <2>1. PICK d, e : d = q.flushed /\ e = r.flushed
    OBVIOUS
  <2>2. /\ d \in Seq(Flushed) /\ e = Append(d, w) /\ Len(e) = Len(d) + 1
        /\ DOMAIN d = 1..Len(d) /\ DOMAIN e = 1..(Len(d) + 1) /\ Len(d) \in Nat
        /\ e[Len(d) + 1] = w /\ \A k \in DOMAIN d : e[k] = d[k]
    BY <2>1, <1>3, <1>5, <1>6 DEF Request
  <2>3. /\ \A x \in Params : q.loaded[x] # NULL =>
             /\ q.loaded[x].pending # NULL
             /\ x \in q.todo \/ \E k \in DOMAIN d : d[k].param = x
        /\ \A k \in DOMAIN d :
             /\ d[k].param \notin q.todo
             /\ q.loaded[d[k].param] # NULL
             /\ d[k].loaded = q.loaded[d[k].param]
             /\ d[k].closes \subseteq RecordsOf(d[k].param)
        /\ \A i, k \in DOMAIN d : d[i].param = d[k].param => i = k
    BY <2>1, <1>1, <1>3 DEF ApplySound
  <2>4. \A x \in Params : r.loaded[x] # NULL =>
             /\ r.loaded[x].pending # NULL
             /\ x \in r.todo \/ \E k \in DOMAIN e : e[k].param = x
    BY <2>2, <2>3, <1>5, <1>6
  <2>5. \A k \in DOMAIN e :
             /\ e[k].param \notin r.todo
             /\ r.loaded[e[k].param] # NULL
             /\ e[k].loaded = r.loaded[e[k].param]
             /\ e[k].closes \subseteq RecordsOf(e[k].param)'
    <3>1. \A x : RecordsOf(x)' = RecordsOf(x)
      BY <1>3 DEF RecordsOf
    <3>2. \A k \in DOMAIN d : d[k].closes \subseteq RecordsOf(d[k].param)'
      BY <2>3, <3>1
    <3>3. w.closes \subseteq RecordsOf(w.param)'
      BY <3>1, <1>4, <1>5
    <3>4. \A k \in DOMAIN e : k \in DOMAIN d \/ e[k] = w
      BY <2>2
    <3> QED
      BY <3>2, <3>3, <3>4, <2>2, <2>3, <1>4, <1>5, <1>6
  <2>6. \A i, k \in DOMAIN e : e[i].param = e[k].param => i = k
    <3>1. \A k \in DOMAIN d : d[k].param # p
      BY <2>3, <1>4
    <3>2. \A k \in DOMAIN e : k \in DOMAIN d \/ k = Len(d) + 1
      BY <2>2
    <3> QED
      BY <3>1, <3>2, <2>2, <2>3, <1>5
  <2> QED
    BY <2>1, <2>4, <2>5, <2>6, <1>8 DEF ApplySound
<1>10. RequestSound(s)'
  <2>1. \A x \in Params : r.loaded[x] # NULL => Explained(x, r.loaded[x])'
    BY <1>1, <1>3, <1>6 DEF RequestSound, Explained, Recorded
  <2>2. \A x \in r.todo : r.loaded[x] # NULL
    BY <1>1, <1>3, <1>6 DEF RequestSound
  <2> QED
    BY <2>1, <2>2, <1>6, <1>8, <1>9 DEF RequestSound
<1>11. overlapped' \in BOOLEAN
  BY <1>3 DEF ParametersInv, TypeOK
<1> QED
  BY <1>3, <1>6, <1>7, <1>10, <1>11, ReadKept

(* A commit of stage or revert writes one row's pending value. *)
LEMMA PendingWritten ==
  ASSUME ParametersInv, NEW p \in Params, NEW v \in Values \cup {NULL},
         params' = [params EXCEPT ![p].pending = v]
  PROVE  /\ params' \in [Params -> ConfigParameter]
         /\ \A x \in Params \ {p} : params'[x] = params[x]
         /\ params'[p].active = params[p].active /\ params'[p].pending = v
<1>1. PICK row : row = [params[p] EXCEPT !.pending = v]
  OBVIOUS
<1>2. row \in ConfigParameter /\ row.active = params[p].active /\ row.pending = v
  BY <1>1, ParameterRow DEF ConfigParameter
<1>3. params' = [params EXCEPT ![p] = row]
  BY <1>1 DEF ParametersInv, TypeOK
<1> QED
  BY <1>2, <1>3 DEF ParametersInv, TypeOK

(* Closing change records changes their status only. *)
LEMMA RecordsClosed ==
  ASSUME TypeOK, NEW ids, NEW st \in {"APPLIED", "REVERTED"},
         changes' = [i \in DOMAIN changes |->
                       IF i \in ids THEN [changes[i] EXCEPT !.status = st]
                       ELSE changes[i]]
  PROVE  /\ changes' \in Seq(ConfigChange) /\ Len(changes') = Len(changes)
         /\ RecordsKept
         /\ \A i \in DOMAIN changes : i \notin ids => changes'[i] = changes[i]
<1>1. changes \in Seq(ConfigChange) /\ DOMAIN changes = 1..Len(changes) /\ Len(changes) \in Nat
  BY DEF TypeOK
<1>2. ASSUME NEW i \in 1..Len(changes)
      PROVE  /\ changes'[i] \in ConfigChange /\ changes'[i].param = changes[i].param
             /\ changes'[i].new = changes[i].new
             /\ i \notin ids => changes'[i] = changes[i]
  <2>1. changes[i] \in ConfigChange
    BY <1>1
  <2>2. PICK c, d : c = changes[i] /\ d = [c EXCEPT !.status = st]
    OBVIOUS
  <2>3. d \in ConfigChange /\ d.param = c.param /\ d.new = c.new
    BY <2>1, <2>2 DEF ConfigChange
  <2>4. changes'[i] = IF i \in ids THEN d ELSE c
    BY <1>1, <2>2
  <2> QED
    BY <2>1, <2>2, <2>3, <2>4
<1>3. DOMAIN changes' = 1..Len(changes)
  BY <1>1
<1>4. changes' \in [1..Len(changes) -> ConfigChange]
  <2>1. PICK ch : ch = changes'
    OBVIOUS
  <2>2. ch = [i \in 1..Len(changes) |-> ch[i]]
    BY <2>1, <1>1
  <2> QED
    BY <2>1, <2>2, <1>2
<1>5. changes' \in Seq(ConfigChange) /\ Len(changes') = Len(changes)
  BY <1>1, <1>3, <1>4
<1> QED
  BY <1>1, <1>2, <1>5 DEF RecordsKept

\* What a stage commits.
Stages(s, p, row, v) ==
    /\ p \in req[s].todo /\ row = req[s].loaded[p] /\ v = req[s].value
    /\ params' = [params EXCEPT ![p].pending =
                    FlushPending(p, row, IF v = row.active THEN NULL ELSE v)]
    /\ changes' = IF v = row.active THEN changes
                  ELSE Append(changes, [param |-> p, previous |-> row.active,
                                        new |-> v, status |-> "PENDING"])
    /\ Finish(s) /\ UNCHANGED audit

LEMMA StageWrites ==
  ASSUME ParametersInv, NEW s \in Sessions, NEW p, NEW row, NEW v,
         req[s].op = "stage", Stages(s, p, row, v)
  PROVE  /\ p \in Params /\ row \in ConfigParameter /\ v \in Values /\ v \in Allowed[p]
         /\ Explained(p, row) /\ req[s].loaded[p] # NULL
         /\ changes' \in Seq(ConfigChange) /\ RecordsKept
         /\ v # row.active =>
              /\ Len(changes') = Len(changes) + 1
              /\ \A i \in DOMAIN changes : changes'[i] = changes[i]
              /\ changes'[Len(changes')].param = p /\ changes'[Len(changes')].new = v
              /\ changes'[Len(changes')].status = "PENDING"
         /\ params' \in [Params -> ConfigParameter]
         /\ \A x \in Params \ {p} : params'[x] = params[x]
         /\ params'[p].active = params[p].active
         /\ params'[p].pending = FlushPending(p, row, IF v = row.active THEN NULL ELSE v)
<1>1. p \in Params /\ req[s].loaded[p] # NULL
  BY DEF Stages, ParametersInv, TypeOK, Request, RequestSound
<1>2. row \in ConfigParameter /\ Explained(p, row) /\ row.active \in Values
  BY <1>1, LoadedRow DEF Stages
<1>3. v \in Allowed[p] /\ v \in Values
  <2>1. v \in Allowed[p]
    BY DEF Stages, ParametersInv, RequestSound
  <2> QED
    BY <2>1, <1>1, ConfigAssumption
<1>4. /\ changes' \in Seq(ConfigChange) /\ RecordsKept
      /\ v # row.active =>
              /\ Len(changes') = Len(changes) + 1
              /\ \A i \in DOMAIN changes : changes'[i] = changes[i]
              /\ changes'[Len(changes')].param = p /\ changes'[Len(changes')].new = v
              /\ changes'[Len(changes')].status = "PENDING"
  <2>1. changes \in Seq(ConfigChange)
    BY DEF ParametersInv, TypeOK
  <2>2. CASE v = row.active
    BY <2>1, <2>2 DEF Stages, RecordsKept
  <2>3. CASE v # row.active
    <3>1. PICK c : c = [param |-> p, previous |-> row.active, new |-> v, status |-> "PENDING"]
      OBVIOUS
    <3>2. c \in ConfigChange /\ c.param = p /\ c.new = v /\ c.status = "PENDING"
      BY <3>1, <1>1, <1>2, <1>3 DEF ConfigChange
    <3>3. changes' = Append(changes, c)
      BY <2>3, <3>1 DEF Stages
    <3>4. /\ changes' \in Seq(ConfigChange) /\ Len(changes') = Len(changes) + 1
          /\ \A i \in DOMAIN changes : changes'[i] = changes[i]
          /\ changes'[Len(changes')] = c
      BY <2>1, <3>2, <3>3
    <3> QED
      BY <2>1, <3>2, <3>4 DEF RecordsKept
  <2> QED
    BY <2>2, <2>3
<1>5. PICK u : u = FlushPending(p, row, IF v = row.active THEN NULL ELSE v)
  OBVIOUS
<1>6. u \in Values \cup {NULL}
  BY <1>1, <1>3, <1>5, ParameterRow DEF FlushPending
<1>7. /\ params' \in [Params -> ConfigParameter]
      /\ \A x \in Params \ {p} : params'[x] = params[x]
      /\ params'[p].active = params[p].active /\ params'[p].pending = u
  BY <1>1, <1>5, <1>6, PendingWritten DEF Stages
<1> QED
  BY <1>1, <1>2, <1>3, <1>4, <1>5, <1>7

LEMMA TypeKept ==
  ASSUME ParametersInv, NEW s \in Sessions, Finish(s),
         params' \in [Params -> ConfigParameter], changes' \in Seq(ConfigChange),
         audit' \in Seq(AuditEntry), RecordsKept,
         \A p \in Params : params'[p] = params[p] \/ Explained(p, params[p])'
  PROVE  ParametersInv'
<1>1. TypeOK
  BY DEF ParametersInv
<1>2. /\ req' \in [Sessions -> Request] /\ overlapped' = overlapped
      /\ \A t \in Sessions \ {s} : req'[t] = req[t]
      /\ RequestSound(s)'
  BY <1>1, FinishSound
<1>3. \A p \in Params : /\ params'[p].active \in Allowed[p]
                        /\ params'[p].pending \in Allowed[p] \cup {NULL}
  BY <1>1 DEF TypeOK, Explained
<1>4. TypeOK'
  BY <1>1, <1>2, <1>3 DEF TypeOK
<1> QED
  BY <1>2, <1>4, StepKept

LEMMA StageCommitKeeps ==
  ASSUME ParametersInv, NEW s \in Sessions, StageCommit(s)
  PROVE  ParametersInv'
<1>1. PICK p, row, v : Stages(s, p, row, v)
  BY DEF StageCommit, Stages
<1>2. req[s].op = "stage" /\ Finish(s) /\ audit' = audit
  BY DEF StageCommit
<1>3. /\ p \in Params /\ v \in Values /\ v \in Allowed[p] /\ Explained(p, row)
      /\ changes' \in Seq(ConfigChange) /\ RecordsKept
      /\ v # row.active => Recorded(p, v)'
      /\ params' \in [Params -> ConfigParameter]
      /\ \A x \in Params \ {p} : params'[x] = params[x]
      /\ params'[p].active = params[p].active
      /\ params'[p].pending = FlushPending(p, row, IF v = row.active THEN NULL ELSE v)
  BY <1>1, <1>2, StageWrites DEF Recorded
<1>4. Explained(p, params[p])'
  <2>1. PICK cur : cur = params[p]
    OBVIOUS
  <2>2. Explained(p, cur)'
    BY <2>1, <1>3, ExplainedKept, ParameterRow DEF ParametersInv
  <2>3. CASE params'[p].pending = cur.pending
    BY <2>1, <2>2, <2>3, <1>3 DEF Explained
  <2>4. CASE params'[p].pending # cur.pending
    <3>1. params'[p].pending = IF v = row.active THEN NULL ELSE v
      BY <2>1, <2>4, <1>3 DEF FlushPending
    <3> QED
      BY <2>1, <2>2, <3>1, <1>3 DEF Explained
  <2> QED
    BY <2>3, <2>4
<1>5. \A x \in Params : params'[x] = params[x] \/ Explained(x, params[x])'
  BY <1>3, <1>4
<1>6. audit' \in Seq(AuditEntry)
  BY <1>2 DEF ParametersInv, TypeOK
<1> QED
  BY <1>2, <1>3, <1>5, <1>6, TypeKept

(* What a revert commits. *)
LEMMA RevertWrites ==
  ASSUME ParametersInv, NEW s \in Sessions, RevertCommit(s), NEW p, NEW ids,
         p = req[s].current, ids = req[s].chosen
  PROVE  /\ p \in Params /\ req[s].loaded[p] # NULL /\ ids \subseteq RecordsOf(p)
         /\ changes' \in Seq(ConfigChange) /\ Len(changes') = Len(changes) /\ RecordsKept
         /\ \A i \in DOMAIN changes : i \notin ids => changes'[i] = changes[i]
         /\ params' \in [Params -> ConfigParameter]
         /\ \A x \in Params \ {p} : params'[x] = params[x]
         /\ params'[p].active = params[p].active
         /\ params'[p].pending = IF req[s].loaded[p].pending = NULL
                                 THEN params[p].pending ELSE NULL
<1>1. p \in Params /\ req[s].loaded[p] # NULL /\ ids \subseteq RecordsOf(p)
  BY DEF RevertCommit, ParametersInv, TypeOK, Request, RequestSound
<1>2. PICK u : u = FlushPending(p, req[s].loaded[p], NULL)
  OBVIOUS
<1>3. u = IF req[s].loaded[p].pending = NULL THEN params[p].pending ELSE NULL
  BY <1>2 DEF FlushPending
<1>4. u \in Values \cup {NULL}
  BY <1>1, <1>3, ParameterRow
<1>5. params' = [params EXCEPT ![p].pending = u]
  BY <1>2 DEF RevertCommit
<1>6. changes' = [i \in DOMAIN changes |->
                    IF i \in ids THEN [changes[i] EXCEPT !.status = "REVERTED"]
                    ELSE changes[i]]
  BY DEF RevertCommit
<1>7. /\ changes' \in Seq(ConfigChange) /\ Len(changes') = Len(changes) /\ RecordsKept
      /\ \A i \in DOMAIN changes : i \notin ids => changes'[i] = changes[i]
  BY <1>6, RecordsClosed DEF ParametersInv
<1>8. /\ params' \in [Params -> ConfigParameter]
      /\ \A x \in Params \ {p} : params'[x] = params[x]
      /\ params'[p].active = params[p].active /\ params'[p].pending = u
  BY <1>1, <1>4, <1>5, PendingWritten
<1> QED
  BY <1>1, <1>3, <1>7, <1>8

LEMMA RevertCommitKeeps ==
  ASSUME ParametersInv, NEW s \in Sessions, RevertCommit(s)
  PROVE  ParametersInv'
<1>1. PICK p, ids : p = req[s].current /\ ids = req[s].chosen
  OBVIOUS
<1>2. /\ p \in Params /\ changes' \in Seq(ConfigChange) /\ RecordsKept
      /\ params' \in [Params -> ConfigParameter]
      /\ \A x \in Params \ {p} : params'[x] = params[x]
      /\ params'[p].active = params[p].active
      /\ params'[p].pending \in {params[p].pending, NULL}
  BY <1>1, RevertWrites
<1>3. Explained(p, params[p])'
  <2>1. PICK cur : cur = params[p]
    OBVIOUS
  <2>2. Explained(p, cur)'
    BY <2>1, <1>2, ExplainedKept, ParameterRow DEF ParametersInv
  <2> QED
    BY <2>1, <2>2, <1>2 DEF Explained
<1>4. \A x \in Params : params'[x] = params[x] \/ Explained(x, params[x])'
  BY <1>2, <1>3
<1>5. audit' \in Seq(AuditEntry) /\ Finish(s)
  BY DEF RevertCommit, ParametersInv, TypeOK
<1> QED
  BY <1>2, <1>4, <1>5, TypeKept

-----------------------------------------------------------------------------
(* Part 3: what an apply commits. *)

(* The rows an apply has flushed: each once, with the record it closes. *)
LEMMA FlushedRow ==
  ASSUME ParametersInv, NEW s \in Sessions, req[s].op = "apply",
         NEW d, d = req[s].flushed
  PROVE  /\ d \in Seq(Flushed) /\ Len(d) \in Nat /\ DOMAIN d = 1..Len(d)
         /\ \A k \in 1..Len(d) :
              /\ d[k].param \in Params /\ req[s].loaded[d[k].param] # NULL
              /\ d[k].loaded = req[s].loaded[d[k].param]
              /\ d[k].loaded \in ConfigParameter
              /\ d[k].loaded.active \in Values /\ d[k].loaded.pending \in Values
              /\ Explained(d[k].param, d[k].loaded)
              /\ d[k].closes \subseteq RecordsOf(d[k].param)
         /\ \A i, k \in 1..Len(d) : d[i].param = d[k].param => i = k
<1>1. d \in Seq(Flushed) /\ Len(d) \in Nat /\ DOMAIN d = 1..Len(d)
  BY DEF ParametersInv, TypeOK, Request
<1>2. ApplySound(s)
  BY DEF ParametersInv, RequestSound
<1>3. ASSUME NEW k \in 1..Len(d)
      PROVE  /\ d[k].param \in Params /\ req[s].loaded[d[k].param] # NULL
             /\ d[k].loaded = req[s].loaded[d[k].param]
             /\ d[k].closes \subseteq RecordsOf(d[k].param)
             /\ req[s].loaded[d[k].param].pending # NULL
  <2>1. d[k] \in Flushed
    BY <1>1
  <2>2. d[k].param \in Params
    BY <2>1 DEF Flushed
  <2> QED
    BY <1>1, <1>2, <2>2 DEF ApplySound
<1>4. ASSUME NEW k \in 1..Len(d)
      PROVE  /\ d[k].loaded \in ConfigParameter
             /\ d[k].loaded.active \in Values /\ d[k].loaded.pending \in Values
             /\ Explained(d[k].param, d[k].loaded)
  <2>1. PICK p : p = d[k].param
    OBVIOUS
  <2> QED
    BY <2>1, <1>3, LoadedRow
<1>5. \A i, k \in 1..Len(d) : d[i].param = d[k].param => i = k
  BY <1>1, <1>2 DEF ApplySound
<1> QED
  BY <1>1, <1>3, <1>4, <1>5

\* The audit entry of one flushed row.
EntryOf(w) == [param    |-> w.param,
               previous |-> audit_value(w.param, w.loaded.active),
               new      |-> audit_value(w.param, w.loaded.pending)]

LEMMA AuditWritten ==
  ASSUME ParametersInv, NEW s \in Sessions, ApplyCommit(s), NEW d, d = req[s].flushed
  PROVE  /\ audit' \in Seq(AuditEntry) /\ Len(audit') = Len(audit) + Len(d)
         /\ \A i \in 1..Len(audit) : audit'[i] = audit[i]
         /\ \A k \in 1..Len(d) : audit'[Len(audit) + k] = EntryOf(d[k])
<1>1. req[s].op = "apply" /\ audit' = audit \o [k \in DOMAIN d |-> EntryOf(d[k])]
  BY DEF ApplyCommit, ApplyPublish, EntryOf
<1>2. PICK e : e = [k \in DOMAIN d |-> EntryOf(d[k])]
  OBVIOUS
<1>3. Len(d) \in Nat /\ DOMAIN d = 1..Len(d)
  BY <1>1, FlushedRow
<1>4. ASSUME NEW k \in 1..Len(d) PROVE EntryOf(d[k]) \in AuditEntry
  BY <1>1, FlushedRow DEF EntryOf, AuditEntry, audit_value
<1>5. e \in Seq(AuditEntry) /\ Len(e) = Len(d)
  <2>1. e \in [1..Len(d) -> AuditEntry]
    BY <1>2, <1>3, <1>4
  <2> QED
    BY <2>1, <1>3
<1>6. audit \in Seq(AuditEntry) /\ audit' = audit \o e
  BY <1>1, <1>2 DEF ParametersInv, TypeOK
<1>7. /\ audit' \in Seq(AuditEntry) /\ Len(audit') = Len(audit) + Len(d)
      /\ \A i \in 1..Len(audit) : audit'[i] = audit[i]
      /\ \A k \in 1..Len(d) : audit'[Len(audit) + k] = e[k]
  <2>1. PICK a, b : a = audit /\ b = audit'
    OBVIOUS
  <2>2. a \in Seq(AuditEntry) /\ b = a \o e /\ Len(a) \in Nat
    BY <2>1, <1>6
  <2>3. b \in Seq(AuditEntry) /\ Len(b) = Len(a) + Len(e)
    BY <2>2, <1>5, ConcatProperties
  <2>4. \A i \in 1..Len(a) : b[i] = a[i]
    BY <2>2, <1>5
  <2>5. \A k \in 1..Len(e) : b[Len(a) + k] = e[k]
    BY <2>2, <1>5
  <2> QED
    BY <2>1, <2>3, <2>4, <2>5, <1>5
<1> QED
  BY <1>2, <1>3, <1>7

LEMMA ValuesPromoted ==
  ASSUME ParametersInv, NEW s \in Sessions, ApplyCommit(s), NEW d, d = req[s].flushed
  PROVE  /\ params' \in [Params -> ConfigParameter]
         /\ \A k \in 1..Len(d) :
              /\ params'[d[k].param].pending = NULL
              /\ IF d[k].loaded.pending = d[k].loaded.active
                 THEN params'[d[k].param].active = params[d[k].param].active
                 ELSE params'[d[k].param].active = d[k].loaded.pending
         /\ \A p \in Params :
              (\A k \in 1..Len(d) : d[k].param # p) => params'[p] = params[p]
<1>1. req[s].op = "apply" /\ params' = [p \in Params |-> Promoted(p, params[p], Range(d))]
  BY DEF ApplyCommit, ApplyPublish
<1>2. Len(d) \in Nat /\ DOMAIN d = 1..Len(d)
  BY <1>1, FlushedRow
<1>3. ASSUME NEW k \in 1..Len(d)
      PROVE  /\ params'[d[k].param].pending = NULL
             /\ IF d[k].loaded.pending = d[k].loaded.active
                THEN params'[d[k].param].active = params[d[k].param].active
                ELSE params'[d[k].param].active = d[k].loaded.pending
             /\ params'[d[k].param] \in ConfigParameter
  <2>0. PICK a : a = IF d[k].loaded.pending = d[k].loaded.active
                     THEN params[d[k].param].active ELSE d[k].loaded.pending
    OBVIOUS
  <2>1. d[k].param \in Params
    BY <1>1, FlushedRow
  <2>2. {w \in Range(d) : w.param = d[k].param} = {d[k]}
    BY <1>1, <1>2, FlushedRow DEF Range
  <2>3. (CHOOSE x \in {d[k]} : TRUE) = d[k]
    OBVIOUS
  <2>4. Promoted(d[k].param, params[d[k].param], Range(d)) = [active |-> a, pending |-> NULL]
    BY <2>0, <2>2, <2>3 DEF Promoted
  <2>5. params'[d[k].param] = [active |-> a, pending |-> NULL]
    BY <1>1, <2>1, <2>4
  <2>6. a \in Values
    <3>1. d[k].loaded.pending \in Values /\ params[d[k].param].active \in Values
      BY <2>1, <1>1, FlushedRow, ParameterRow
    <3> QED
      BY <3>1, <2>0
  <2>7. params'[d[k].param] \in ConfigParameter
    BY <2>5, <2>6 DEF ConfigParameter
  <2>8. params'[d[k].param].pending = NULL /\ params'[d[k].param].active = a
    BY <2>5
  <2> QED
    BY <2>0, <2>7, <2>8
<1>4. ASSUME NEW p \in Params, \A k \in 1..Len(d) : d[k].param # p
      PROVE  params'[p] = params[p]
  <2>1. {w \in Range(d) : w.param = p} = {}
    BY <1>2, <1>4 DEF Range
  <2> QED
    BY <1>1, <2>1 DEF Promoted
<1>5. ASSUME NEW p \in Params PROVE params'[p] \in ConfigParameter
  <2>1. CASE \A k \in 1..Len(d) : d[k].param # p
    BY <2>1, <1>4, ParameterRow
  <2> QED
    BY <2>1, <1>3
<1>6. params' \in [Params -> ConfigParameter]
  BY <1>1, <1>5
<1> QED
  BY <1>3, <1>4, <1>6

LEMMA RecordsApplied ==
  ASSUME ParametersInv, NEW s \in Sessions, ApplyCommit(s), NEW d, d = req[s].flushed
  PROVE  /\ changes' \in Seq(ConfigChange) /\ Len(changes') = Len(changes) /\ RecordsKept
         /\ \A i \in DOMAIN changes :
              (\A k \in 1..Len(d) : d[k].param # changes[i].param) => changes'[i] = changes[i]
<1>1. PICK closed : closed = UNION {w.closes : w \in Range(d)}
  OBVIOUS
<1>2. changes' = [i \in DOMAIN changes |->
                    IF i \in closed THEN [changes[i] EXCEPT !.status = "APPLIED"]
                    ELSE changes[i]]
  BY <1>1 DEF ApplyCommit, ApplyPublish
<1>3. /\ changes' \in Seq(ConfigChange) /\ Len(changes') = Len(changes) /\ RecordsKept
      /\ \A i \in DOMAIN changes : i \notin closed => changes'[i] = changes[i]
  BY <1>2, RecordsClosed DEF ParametersInv
<1>4. ASSUME NEW i \in closed
      PROVE  \E k \in 1..Len(d) : d[k].param = changes[i].param
  <2>1. req[s].op = "apply"
    BY DEF ApplyCommit
  <2>2. PICK k \in DOMAIN d : i \in d[k].closes
    BY <1>1, <1>4 DEF Range
  <2>3. k \in 1..Len(d) /\ d[k].closes \subseteq RecordsOf(d[k].param)
    BY <2>1, <2>2, FlushedRow
  <2> QED
    BY <2>2, <2>3 DEF RecordsOf
<1> QED
  BY <1>3, <1>4

LEMMA ApplyCommitKeeps ==
  ASSUME ParametersInv, NEW s \in Sessions, ApplyCommit(s)
  PROVE  ParametersInv'
<1>1. PICK d : d = req[s].flushed
  OBVIOUS
<1>2. req[s].op = "apply" /\ Finish(s)
  BY DEF ApplyCommit, ApplyPublish
<1>3. audit' \in Seq(AuditEntry)
  BY <1>1, AuditWritten
<1>4. changes' \in Seq(ConfigChange) /\ RecordsKept
  BY <1>1, RecordsApplied
<1>5. ASSUME NEW k \in 1..Len(d) PROVE Explained(d[k].param, params[d[k].param])'
  <2>1. PICK p, row, cur : p = d[k].param /\ row = d[k].loaded /\ cur = params[p]
    OBVIOUS
  <2>2. p \in Params /\ Explained(p, row) /\ Explained(p, cur) /\ row.pending # NULL
    BY <2>1, <1>1, <1>2, FlushedRow, ParameterRow, ConfigAssumption
  <2>3. Explained(p, row)' /\ Explained(p, cur)'
    BY <2>2, <1>4, ExplainedKept DEF ParametersInv
  <2>4. /\ params'[p].pending = NULL
        /\ params'[p].active \in {cur.active, row.pending}
    BY <2>1, <1>1, ValuesPromoted
  <2>5. Explained(p, params[p])'
    BY <2>2, <2>3, <2>4 DEF Explained
  <2> QED
    BY <2>1, <2>5
<1>6. params' \in [Params -> ConfigParameter]
      /\ \A p \in Params : (\A k \in 1..Len(d) : d[k].param # p) => params'[p] = params[p]
  BY <1>1, ValuesPromoted
<1>7. \A p \in Params : params'[p] = params[p] \/ Explained(p, params[p])'
  BY <1>5, <1>6
<1> QED
  BY <1>2, <1>3, <1>4, <1>6, <1>7, TypeKept

LEMMA RollbackKeeps ==
  ASSUME ParametersInv, NEW s \in Sessions, Rollback(s)
  PROVE  ParametersInv'
<1>1. TypeOK
  BY DEF ParametersInv
<1>2. UNCHANGED <<params, changes, audit>> /\ Finish(s)
  BY DEF Rollback
<1>3. RecordsKept
  BY <1>1, <1>2 DEF RecordsKept, TypeOK
<1> QED
  BY <1>1, <1>2, <1>3, TypeKept DEF TypeOK

LEMMA ParametersStart ==
  Init => ParametersInv
<1> SUFFICES ASSUME Init PROVE ParametersInv
  OBVIOUS
<1>1. TypeOK
  <2>1. ASSUME NEW p \in Params
        PROVE  /\ params[p] \in ConfigParameter /\ params[p].active = Initial[p]
               /\ params[p].pending = NULL
    BY ConfigAssumption DEF Init, ConfigParameter
  <2>2. params \in [Params -> ConfigParameter]
    BY <2>1 DEF Init
  <2>3. req \in [Sessions -> Request]
    BY NoRequestTyped DEF Init
  <2>4. overlapped \in BOOLEAN
    BY DEF Init
  <2> QED
    BY <2>1, <2>2, <2>3, <2>4, ConfigAssumption DEF TypeOK, Init
<1>2. \A p \in Params : Explained(p, params[p])
  BY ConfigAssumption DEF Init, Explained
<1>3. \A s \in Sessions : RequestSound(s)
  BY DEF Init, NoRequest, RequestSound
<1> QED
  BY <1>1, <1>2, <1>3 DEF ParametersInv

LEMMA ParametersStep ==
  ParametersInv /\ [Next]_vars => ParametersInv'
<1> SUFFICES ASSUME ParametersInv, [Next]_vars PROVE ParametersInv'
  OBVIOUS
<1>1. CASE UNCHANGED vars
  BY <1>1 DEF vars, ParametersInv, TypeOK, Explained, Recorded, RequestSound, ApplySound,
              RecordsOf
<1>2. ASSUME NEW s \in Sessions, Step(s) PROVE ParametersInv'
  BY <1>2, StageLoadKeeps, StageCommitKeeps, RevertLoadKeeps, RevertSelectKeeps,
     RevertCommitKeeps, ApplyLoadKeeps, ApplySelectKeeps, ApplyFlushKeeps,
     ApplyCommitKeeps, RollbackKeeps DEF Step
<1> QED
  BY <1>1, <1>2 DEF Next

(* Every reachable state is well typed: whatever the interleaving, the       *)
(* active and the pending value of a parameter are ones that _validate_value *)
(* accepts, though only stage_config_change validates.                       *)
THEOREM ParametersTypeCorrect == Spec => []TypeOK
<1>1. ParametersInv => TypeOK
  BY DEF ParametersInv
<1> QED
  BY <1>1, ParametersStart, ParametersStep, PTL DEF Spec

(* No value becomes pending or active without a change record that           *)
(* introduced it, even when apply promotes the value it loaded before a      *)
(* concurrent stage or revert committed.                                     *)
THEOREM EveryValueIsRecorded == Spec => []Provenance
<1>1. ParametersInv => Provenance
  BY DEF ParametersInv, Provenance, Explained
<1> QED
  BY <1>1, ParametersStart, ParametersStep, PTL DEF Spec

(* Only the commit of an apply changes active values or the audit log. *)
LEMMA OnlyApplyPromotes ==
  ASSUME ParametersInv, NEW s \in Sessions, Step(s), ~ApplyCommit(s)
  PROVE  audit' = audit /\ \A p \in Params : params'[p].active = params[p].active
<1>1. CASE StageCommit(s)
  <2>1. PICK p, row, v : Stages(s, p, row, v)
    BY <1>1 DEF StageCommit, Stages
  <2>2. req[s].op = "stage" /\ audit' = audit
    BY <1>1 DEF StageCommit
  <2> QED
    BY <2>1, <2>2, StageWrites
<1>2. CASE RevertCommit(s)
  <2>1. PICK p, ids : p = req[s].current /\ ids = req[s].chosen
    OBVIOUS
  <2>2. audit' = audit
    BY <1>2 DEF RevertCommit
  <2> QED
    BY <1>2, <2>1, <2>2, RevertWrites
<1>3. CASE ~StageCommit(s) /\ ~RevertCommit(s)
  BY <1>3 DEF Step, StageLoad, RevertLoad, RevertSelect, ApplyLoad, ApplySelect, ApplyFlush,
              Rollback
<1> QED
  BY <1>1, <1>2, <1>3

LEMMA ApplyAudits ==
  ASSUME ParametersInv, NEW s \in Sessions, ApplyCommit(s)
  PROVE  PromotionAudited /\ AppliedWhole
<1>1. PICK d, n : d = req[s].flushed /\ n = Len(audit)
  OBVIOUS
<1>2. req[s].op = "apply" /\ req[s].todo = {} /\ n \in Nat
  BY <1>1 DEF ApplyCommit, ParametersInv, TypeOK
<1>3. Len(d) \in Nat /\ DOMAIN d = 1..Len(d) /\ Len(audit') = n + Len(d)
  BY <1>1, <1>2, FlushedRow, AuditWritten
<1>4. ASSUME NEW k \in 1..Len(d) PROVE EntryOf(d[k]) \in NewEntries
  <2>1. n + k \in n + 1 .. n + Len(d)
    BY <1>2, <1>3
  <2>2. audit'[n + k] = EntryOf(d[k])
    BY <1>1, AuditWritten
  <2> QED
    BY <2>1, <2>2, <1>1, <1>3 DEF NewEntries
<1>5. ASSUME NEW e \in NewEntries PROVE \E k \in 1..Len(d) : e = EntryOf(d[k])
  <2>1. PICK i \in n + 1 .. n + Len(d) : e = audit'[i]
    BY <1>1, <1>3 DEF NewEntries
  <2>2. i - n \in 1..Len(d) /\ i = n + (i - n)
    BY <1>2, <1>3
  <2>3. audit'[n + (i - n)] = EntryOf(d[i - n])
    BY <2>2, <1>1, AuditWritten
  <2> QED
    BY <2>1, <2>2, <2>3
<1>6. PromotionAudited
  <2> SUFFICES ASSUME NEW p \in Params, params'[p].active # params[p].active
               PROVE  \E e \in NewEntries :
                        e.param = p /\ e.new = audit_value(p, params'[p].active)
    BY DEF PromotionAudited
  <2>1. PICK k \in 1..Len(d) : d[k].param = p
    BY <1>1, ValuesPromoted
  <2>2. params'[p].active = d[k].loaded.pending
    BY <2>1, <1>1, ValuesPromoted
  <2>3. EntryOf(d[k]).param = p /\ EntryOf(d[k]).new = audit_value(p, d[k].loaded.pending)
    BY <2>1 DEF EntryOf
  <2> QED
    BY <2>2, <2>3, <1>4
<1>7. AppliedWhole
  <2>0. PICK loaded : loaded = {p \in Params : req[s].loaded[p] # NULL}
    OBVIOUS
  <2>1. \A p \in loaded : \E k \in 1..Len(d) : d[k].param = p
    <3>1. ApplySound(s)
      BY <1>2 DEF ParametersInv, RequestSound
    <3> QED
      BY <2>0, <3>1, <1>1, <1>2, <1>3 DEF ApplySound
  <2>2. \A k \in 1..Len(d) : d[k].param \in loaded
    BY <2>0, <1>1, <1>2, FlushedRow
  <2>3. {e.param : e \in NewEntries} = loaded
    <3>1. \A k \in 1..Len(d) : EntryOf(d[k]).param = d[k].param
      BY DEF EntryOf
    <3>2. ASSUME NEW e \in NewEntries PROVE e.param \in loaded
      BY <3>1, <2>2, <1>5
    <3>3. ASSUME NEW p \in loaded PROVE \E e \in NewEntries : e.param = p
      BY <3>1, <2>1, <1>4
    <3> QED
      BY <3>2, <3>3
  <2>4. Len(audit') = Len(audit) + Cardinality(loaded)
    <3>1. PICK f : f = [k \in 1..Len(d) |-> d[k].param]
      OBVIOUS
    <3>2. f \in Bijection(1..Len(d), loaded)
      <4>1. \A i, k \in 1..Len(d) : f[i] = f[k] => i = k
        BY <3>1, <1>1, <1>2, FlushedRow
      <4>2. f \in [1..Len(d) -> loaded] /\ \A p \in loaded : \E k \in 1..Len(d) : f[k] = p
        BY <3>1, <2>1, <2>2
      <4>3. f \in Injection(1..Len(d), loaded)
        BY <4>1, <4>2 DEF Injection, IsInjective
      <4>4. f \in Surjection(1..Len(d), loaded)
        BY <4>2 DEF Surjection
      <4> QED
        BY <4>3, <4>4 DEF Bijection
    <3>3. IsFiniteSet(1..Len(d)) /\ Cardinality(1..Len(d)) = Len(d)
      <4>1. 1 \in Int /\ Len(d) \in Int
        BY <1>3
      <4>2. IsFiniteSet(1..Len(d))
        BY <4>1, FS_Interval
      <4>3. Cardinality(1..Len(d)) = IF 1 > Len(d) THEN 0 ELSE Len(d) - 1 + 1
        BY <4>1, FS_Interval
      <4>4. Cardinality(1..Len(d)) = Len(d)
        BY <4>3, <1>3
      <4> QED
        BY <4>2, <4>4
    <3>4. Cardinality(loaded) = Len(d)
      <4>1. ExistsBijection(1..Len(d), loaded)
        BY <3>2 DEF ExistsBijection
      <4> QED
        BY <4>1, <3>3, FS_Bijection
    <3> QED
      BY <3>4, <1>1, <1>3
  <2>5. ASSUME NEW p \in loaded PROVE params'[p].pending = NULL
    <3>1. PICK k \in 1..Len(d) : d[k].param = p
      BY <2>1
    <3>2. params'[d[k].param].pending = NULL
      BY <1>1, ValuesPromoted
    <3> QED
      BY <3>1, <3>2
  <2> DEFINE L(t) == {p \in Params : req[t].loaded[p] # NULL}
  <2>6. L(s) = loaded
    BY <2>0
  <2> HIDE DEF L
  <2>7. \E t \in Sessions : /\ {e.param : e \in NewEntries} = L(t)
                            /\ Len(audit') = Len(audit) + Cardinality(L(t))
                            /\ \A p \in L(t) : params'[p].pending = NULL
    <3>1. /\ {e.param : e \in NewEntries} = L(s)
          /\ Len(audit') = Len(audit) + Cardinality(L(s))
          /\ \A p \in L(s) : params'[p].pending = NULL
      BY <2>3, <2>4, <2>5, <2>6
    <3> QED
      BY <3>1
  <2> QED
    BY <2>7 DEF AppliedWhole, L
<1> QED
  BY <1>6, <1>7

LEMMA StepAudits ==
  ASSUME ParametersInv, [Next]_vars
  PROVE  [PromotionAudited]_vars /\ [AppliedWhole]_vars
<1>1. CASE UNCHANGED vars
  BY <1>1
<1>2. ASSUME NEW s \in Sessions, Step(s) PROVE PromotionAudited /\ AppliedWhole
  <2>1. CASE ApplyCommit(s)
    BY <2>1, ApplyAudits
  <2>2. CASE ~ApplyCommit(s)
    BY <1>2, <2>2, OnlyApplyPromotes DEF PromotionAudited, AppliedWhole
  <2> QED
    BY <2>1, <2>2
<1> QED
  BY <1>1, <1>2 DEF Next

(* A step that changes an active value commits, in the same transaction, an  *)
(* audit entry that names the parameter and the new value (redacted when the *)
(* parameter is sensitive).                                                  *)
THEOREM PromotionsAreAudited == Spec => AuditedPromotion
<1>1. Spec => []ParametersInv /\ [][Next]_vars
  BY ParametersStart, ParametersStep, PTL DEF Spec
<1> QED
  BY <1>1, StepAudits, PTL DEF AuditedPromotion

(* Apply is all-or-nothing: one audit entry for every parameter it loaded as *)
(* pending, no more and no fewer, and none of them still has a pending value.*)
THEOREM ApplyIsAtomic == Spec => AllOrNothing
<1>1. Spec => []ParametersInv /\ [][Next]_vars
  BY ParametersStart, ParametersStep, PTL DEF Spec
<1> QED
  BY <1>1, StepAudits, PTL DEF AllOrNothing

-----------------------------------------------------------------------------
(* Part 4: what holds until requests overlap. *)

LEMMA TrailKept ==
  ASSUME TrailLeads, audit' = audit, \A p \in Params : params'[p].active = params[p].active
  PROVE  TrailLeads'
BY DEF TrailLeads, LeaveAt

LEMMA SerialBegins ==
  ASSUME ParametersInv, SerialInv, NEW s \in Sessions, req[s] = NoRequest, Begins(s),
         UNCHANGED <<params, changes, audit>>,
         \A t \in Sessions \ {s} : req'[t] = req[t],
         \A p \in Params : req'[s].loaded[p] # NULL => req'[s].loaded[p] = params[p]
  PROVE  SerialInv'
<1> SUFFICES ASSUME ~overlapped'
             PROVE  /\ OneRequest' /\ \A t \in Sessions : RequestFresh(t)'
                    /\ StagedOpen' /\ TrailLeads'
  BY DEF SerialInv
<1>1. ~overlapped /\ \A t \in Sessions \ {s} : req[t] = NoRequest
  BY DEF Begins, ParametersInv, TypeOK
<1>2. OneRequest'
  BY <1>1 DEF OneRequest
<1>3. \A t \in Sessions : RequestFresh(t)'
  BY <1>1 DEF SerialInv, RequestFresh
<1>4. StagedOpen'
  BY <1>1 DEF SerialInv, StagedOpen, PendingChanges
<1>5. TrailLeads'
  BY <1>1, TrailKept DEF SerialInv
<1> QED
  BY <1>2, <1>3, <1>4, <1>5

LEMMA SerialContinues ==
  ASSUME SerialInv, NEW s \in Sessions, req[s] # NoRequest,
         UNCHANGED <<params, changes, audit, overlapped>>,
         \A t \in Sessions \ {s} : req'[t] = req[t],
         \A p \in Params : req'[s].loaded[p] \in {req[s].loaded[p], NULL}
  PROVE  SerialInv'
<1> SUFFICES ASSUME ~overlapped
             PROVE  /\ OneRequest' /\ \A t \in Sessions : RequestFresh(t)'
                    /\ StagedOpen' /\ TrailLeads'
  BY DEF SerialInv
<1>1. OneRequest'
  BY DEF SerialInv, OneRequest
<1>2. \A t \in Sessions : RequestFresh(t)'
  BY DEF SerialInv, RequestFresh
<1>3. StagedOpen'
  BY DEF SerialInv, StagedOpen, PendingChanges
<1>4. TrailLeads'
  BY TrailKept DEF SerialInv
<1> QED
  BY <1>1, <1>2, <1>3, <1>4

LEMMA SerialEnds ==
  ASSUME ParametersInv, SerialInv, NEW s \in Sessions, req[s] # NoRequest, Finish(s),
         ~overlapped => StagedOpen' /\ TrailLeads'
  PROVE  SerialInv'
<1>1. /\ overlapped' = overlapped /\ req'[s] = NoRequest
      /\ \A t \in Sessions \ {s} : req'[t] = req[t]
  BY FinishSound DEF ParametersInv
<1>2. ASSUME ~overlapped PROVE OneRequest' /\ \A t \in Sessions : RequestFresh(t)'
  <2>1. \A t \in Sessions : req'[t] = NoRequest
    BY <1>1, <1>2 DEF SerialInv, OneRequest
  <2>2. OneRequest'
    BY <2>1 DEF OneRequest
  <2>3. \A p \in Params : NoRequest.loaded[p] = NULL
    BY DEF NoRequest
  <2> QED
    BY <2>1, <2>2, <2>3 DEF RequestFresh
<1> QED
  BY <1>1, <1>2 DEF SerialInv

LEMMA SerialLoads ==
  ASSUME ParametersInv, SerialInv, NEW s \in Sessions,
         \/ \E p \in Params, v \in Values : StageLoad(s, p, v)
         \/ \E p \in Params : RevertLoad(s, p)
         \/ ApplyLoad(s)
  PROVE  SerialInv'
<1>1. req \in [Sessions -> Request]
  BY DEF ParametersInv, TypeOK
<1>2. ASSUME NEW p \in Params, NEW v \in Values, StageLoad(s, p, v) PROVE SerialInv'
  <2>1. /\ req[s] = NoRequest /\ Begins(s) /\ UNCHANGED <<params, changes, audit>>
        /\ req' = [req EXCEPT ![s].op = "stage", ![s].loaded[p] = params[p],
                              ![s].todo = {p}, ![s].value = v]
    BY <1>2 DEF StageLoad
  <2>2. \A t \in Sessions \ {s} : req'[t] = req[t]
    BY <1>1, <2>1
  <2>3. req'[s].loaded = [req[s].loaded EXCEPT ![p] = params[p]]
    BY <1>1, <2>1 DEF NoRequest
  <2>4. \A x \in Params : req'[s].loaded[x] # NULL => req'[s].loaded[x] = params[x]
    BY <2>1, <2>3 DEF NoRequest
  <2> QED
    BY <2>1, <2>2, <2>4, SerialBegins
<1>3. ASSUME NEW p \in Params, RevertLoad(s, p) PROVE SerialInv'
  <2>1. /\ req[s] = NoRequest /\ Begins(s) /\ UNCHANGED <<params, changes, audit>>
        /\ req' = [req EXCEPT ![s].op = "revert", ![s].loaded[p] = params[p],
                              ![s].todo = {p}]
    BY <1>3 DEF RevertLoad
  <2>2. \A t \in Sessions \ {s} : req'[t] = req[t]
    BY <1>1, <2>1
  <2>3. req'[s].loaded = [req[s].loaded EXCEPT ![p] = params[p]]
    BY <1>1, <2>1 DEF NoRequest
  <2>4. \A x \in Params : req'[s].loaded[x] # NULL => req'[s].loaded[x] = params[x]
    BY <2>1, <2>3 DEF NoRequest
  <2> QED
    BY <2>1, <2>2, <2>4, SerialBegins
<1>4. ASSUME ApplyLoad(s) PROVE SerialInv'
  <2>1. PICK S, rows : /\ S = {p \in Params : params[p].pending # NULL}
                       /\ rows = [p \in Params |-> IF p \in S THEN params[p] ELSE NULL]
    OBVIOUS
  <2>2. /\ req[s] = NoRequest /\ Begins(s) /\ UNCHANGED <<params, changes, audit>>
        /\ req' = [req EXCEPT ![s].op = "apply", ![s].todo = S, ![s].loaded = rows]
    BY <1>4, <2>1 DEF ApplyLoad
  <2>3. \A t \in Sessions \ {s} : req'[t] = req[t]
    BY <1>1, <2>2
  <2>4. req'[s].loaded = rows
    BY <1>1, <2>2 DEF NoRequest
  <2> QED
    BY <2>1, <2>2, <2>3, <2>4, SerialBegins
<1> QED
  BY <1>2, <1>3, <1>4

LEMMA SerialSelects ==
  ASSUME ParametersInv, SerialInv, NEW s \in Sessions,
         RevertSelect(s) \/ ApplySelect(s) \/ ApplyFlush(s) \/ Rollback(s)
  PROVE  SerialInv'
<1>1. req \in [Sessions -> Request] /\ req[s] \in Request
  BY DEF ParametersInv, TypeOK
<1>2. /\ req[s] # NoRequest
      /\ UNCHANGED <<params, changes, audit, overlapped>>
  BY DEF RevertSelect, ApplySelect, ApplyFlush, Rollback, Finish, NoRequest
<1>3. \A t \in Sessions \ {s} : req'[t] = req[t]
  BY <1>1 DEF RevertSelect, ApplySelect, ApplyFlush, Rollback, Finish
<1>4. \A p \in Params : req'[s].loaded[p] \in {req[s].loaded[p], NULL}
  <2>1. CASE RevertSelect(s)
    BY <2>1, <1>1 DEF RevertSelect, Request
  <2>2. CASE ApplySelect(s)
    BY <2>2, <1>1 DEF ApplySelect, Request
  <2>3. CASE ApplyFlush(s)
    BY <2>3, <1>1 DEF ApplyFlush, Request
  <2>4. CASE Rollback(s)
    BY <2>4, <1>1 DEF Rollback, Finish, NoRequest
  <2> QED
    BY <2>1, <2>2, <2>3, <2>4
<1> QED
  BY <1>2, <1>3, <1>4, SerialContinues

LEMMA SerialStages ==
  ASSUME ParametersInv, SerialInv, NEW s \in Sessions, StageCommit(s)
  PROVE  SerialInv'
<1>1. PICK p, row, v : Stages(s, p, row, v)
  BY DEF StageCommit, Stages
<1>2. req[s].op = "stage" /\ req[s] # NoRequest /\ Finish(s) /\ audit' = audit
  BY DEF StageCommit, NoRequest
<1>3. ASSUME ~overlapped PROVE StagedOpen' /\ TrailLeads'
  <2>1. /\ p \in Params /\ changes \in Seq(ConfigChange) /\ changes' \in Seq(ConfigChange)
        /\ \A i \in DOMAIN changes : i \in DOMAIN changes' /\ changes'[i] = changes[i]
        /\ v # row.active =>
             \E i \in PendingChanges(p)' : changes'[i].new = v
        /\ \A x \in Params \ {p} : params'[x] = params[x]
        /\ params'[p].active = params[p].active
        /\ params'[p].pending = FlushPending(p, row, IF v = row.active THEN NULL ELSE v)
        /\ v # NULL
    <3>1. changes \in Seq(ConfigChange) /\ p \in Params /\ changes' \in Seq(ConfigChange)
          /\ v \in Values
      BY <1>1, <1>2, StageWrites DEF ParametersInv, TypeOK
    <3>2. v = row.active => changes' = changes
      BY <1>1 DEF Stages
    <3>3. v # row.active =>
              /\ Len(changes') = Len(changes) + 1
              /\ \A i \in DOMAIN changes : changes'[i] = changes[i]
              /\ changes'[Len(changes')].param = p /\ changes'[Len(changes')].new = v
              /\ changes'[Len(changes')].status = "PENDING"
      BY <1>1, <1>2, StageWrites
    <3>4. v # row.active => Len(changes') \in PendingChanges(p)'
      BY <3>1, <3>3 DEF PendingChanges
    <3>5. \A i \in DOMAIN changes : i \in DOMAIN changes' /\ changes'[i] = changes[i]
      BY <3>1, <3>2, <3>3
    <3>6. v # NULL
      BY <3>1, ConfigAssumption
    <3> QED
      BY <3>1, <3>3, <3>4, <3>5, <3>6, <1>1, <1>2, StageWrites
  <2>2. row = params[p]
    <3>1. req[s].loaded[p] # NULL
      BY <1>1, <1>2, StageWrites
    <3>2. row = req[s].loaded[p]
      BY <1>1 DEF Stages
    <3> QED
      BY <2>1, <3>1, <3>2, <1>3 DEF SerialInv, RequestFresh
  <2>3. params'[p].pending = IF v = row.active THEN NULL ELSE v
    BY <2>1, <2>2 DEF FlushPending
  <2>4. StagedOpen'
    <3> SUFFICES ASSUME NEW x \in Params, params'[x].pending # NULL
                 PROVE  /\ params'[x].pending # params'[x].active
                        /\ \E i \in PendingChanges(x)' : changes'[i].new = params'[x].pending
      BY DEF StagedOpen
    <3>1. CASE x = p
      BY <3>1, <2>1, <2>2, <2>3
    <3>2. CASE x # p
      <4>1. /\ params[x].pending # params[x].active
            /\ \E i \in PendingChanges(x) : changes[i].new = params[x].pending
        BY <3>2, <2>1, <1>3 DEF SerialInv, StagedOpen
      <4>2. \A i \in PendingChanges(x) : i \in PendingChanges(x)' /\ changes'[i] = changes[i]
        BY <2>1 DEF PendingChanges
      <4> QED
        BY <3>2, <4>1, <4>2, <2>1
    <3> QED
      BY <3>1, <3>2
  <2>5. TrailLeads'
    BY <2>1, <1>2, <1>3, TrailKept DEF SerialInv
  <2> QED
    BY <2>4, <2>5
<1> QED
  BY <1>2, <1>3, SerialEnds

LEMMA SerialReverts ==
  ASSUME ParametersInv, SerialInv, NEW s \in Sessions, RevertCommit(s)
  PROVE  SerialInv'
<1>1. PICK p, ids : p = req[s].current /\ ids = req[s].chosen
  OBVIOUS
<1>2. req[s] # NoRequest /\ Finish(s) /\ audit' = audit
  BY DEF RevertCommit, NoRequest
<1>3. ASSUME ~overlapped PROVE StagedOpen' /\ TrailLeads'
  <2>1. /\ p \in Params /\ changes \in Seq(ConfigChange) /\ changes' \in Seq(ConfigChange)
        /\ Len(changes') = Len(changes) /\ ids \subseteq RecordsOf(p)
        /\ \A i \in DOMAIN changes : i \notin ids => changes'[i] = changes[i]
        /\ \A x \in Params \ {p} : params'[x] = params[x]
        /\ params'[p].active = params[p].active /\ req[s].loaded[p] # NULL
        /\ params'[p].pending = IF req[s].loaded[p].pending = NULL
                                THEN params[p].pending ELSE NULL
    <3>1. changes \in Seq(ConfigChange)
      BY DEF ParametersInv, TypeOK
    <3> QED
      BY <3>1, <1>1, RevertWrites
  <2>2. params'[p].pending = NULL
    BY <2>1, <1>3 DEF SerialInv, RequestFresh
  <2>3. StagedOpen'
    <3> SUFFICES ASSUME NEW x \in Params, params'[x].pending # NULL
                 PROVE  /\ params'[x].pending # params'[x].active
                        /\ \E i \in PendingChanges(x)' : changes'[i].new = params'[x].pending
      BY DEF StagedOpen
    <3>1. x # p /\ params'[x] = params[x]
      BY <2>1, <2>2
    <3>2. /\ params[x].pending # params[x].active
          /\ \E i \in PendingChanges(x) : changes[i].new = params[x].pending
      BY <3>1, <1>3 DEF SerialInv, StagedOpen
    <3>3. DOMAIN changes' = DOMAIN changes
      BY <2>1
    <3>4. \A i \in PendingChanges(x) : i \in PendingChanges(x)' /\ changes'[i] = changes[i]
      BY <3>1, <3>3, <2>1 DEF PendingChanges, RecordsOf
    <3> QED
      BY <3>1, <3>2, <3>4
  <2>4. TrailLeads'
    BY <2>1, <1>2, <1>3, TrailKept DEF SerialInv
  <2> QED
    BY <2>3, <2>4
<1> QED
  BY <1>2, <1>3, SerialEnds

\* LeaveAt for a given audit log.
Leaves(log, p, n, v) ==
    \/ /\ \A i \in 1..n : log[i].param # p
       /\ v = Initial[p]
    \/ \E i \in 1..n : /\ log[i].param = p /\ log[i].new = v
                       /\ \A j \in i + 1 .. n : log[j].param # p

LEMMA LeavesPrefix ==
  ASSUME NEW a, NEW b, NEW n \in Int, \A i \in 1..n : b[i] = a[i], NEW p, NEW v,
         Leaves(a, p, n, v)
  PROVE  Leaves(b, p, n, v)
<1>1. CASE (\A i \in 1..n : a[i].param # p) /\ v = Initial[p]
  BY <1>1 DEF Leaves
<1>2. ASSUME NEW i \in 1..n, a[i].param = p, a[i].new = v,
             \A j \in i + 1 .. n : a[j].param # p
      PROVE  Leaves(b, p, n, v)
  <2>1. \A j \in i + 1 .. n : j \in 1..n
    OBVIOUS
  <2> QED
    BY <1>2, <2>1 DEF Leaves
<1> QED
  BY <1>1, <1>2 DEF Leaves

LEMMA LeavesSkips ==
  ASSUME NEW b, NEW k \in Int, NEW l \in Int, k <= l, NEW p, NEW v,
         \A j \in k + 1 .. l : b[j].param # p, Leaves(b, p, k, v)
  PROVE  Leaves(b, p, l, v)
<1>1. CASE (\A i \in 1..k : b[i].param # p) /\ v = Initial[p]
  <2>1. \A i \in 1..l : i \in 1..k \/ i \in k + 1 .. l
    OBVIOUS
  <2> QED
    BY <1>1, <2>1 DEF Leaves
<1>2. ASSUME NEW i \in 1..k, b[i].param = p, b[i].new = v,
             \A j \in i + 1 .. k : b[j].param # p
      PROVE  Leaves(b, p, l, v)
  <2>1. i \in 1..l /\ \A j \in i + 1 .. l : j \in i + 1 .. k \/ j \in k + 1 .. l
    OBVIOUS
  <2>2. \A j \in i + 1 .. l : b[j].param # p
    BY <1>2, <2>1
  <2> QED
    BY <1>2, <2>1, <2>2 DEF Leaves
<1> QED
  BY <1>1, <1>2 DEF Leaves

LEMMA SerialApplies ==
  ASSUME ParametersInv, SerialInv, NEW s \in Sessions, ApplyCommit(s)
  PROVE  SerialInv'
<1>1. PICK d : d = req[s].flushed
  OBVIOUS
<1>2. req[s].op = "apply" /\ req[s] # NoRequest /\ Finish(s)
  <2>1. req[s].op = "apply" /\ ApplyPublish(s)
    BY DEF ApplyCommit
  <2>2. Finish(s)
    BY <2>1 DEF ApplyPublish
  <2> QED
    BY <2>1, <2>2 DEF NoRequest
<1>3. ASSUME ~overlapped PROVE StagedOpen'
  <2> SUFFICES ASSUME NEW x \in Params, params'[x].pending # NULL
               PROVE  /\ params'[x].pending # params'[x].active
                      /\ \E i \in PendingChanges(x)' : changes'[i].new = params'[x].pending
    BY DEF StagedOpen
  <2>1. \A k \in 1..Len(d) : d[k].param # x
    BY <1>1, ValuesPromoted
  <2>2. params'[x] = params[x]
    BY <2>1, <1>1, ValuesPromoted
  <2>3. /\ params[x].pending # params[x].active
        /\ \E i \in PendingChanges(x) : changes[i].new = params[x].pending
    BY <2>2, <1>3 DEF SerialInv, StagedOpen
  <2>4. /\ DOMAIN changes' = DOMAIN changes
        /\ \A i \in DOMAIN changes : changes[i].param = x => changes'[i] = changes[i]
    <3>1. changes' \in Seq(ConfigChange) /\ Len(changes') = Len(changes)
      BY <1>1, RecordsApplied
    <3>2. changes \in Seq(ConfigChange)
      BY DEF ParametersInv, TypeOK
    <3> QED
      BY <3>1, <3>2, <2>1, <1>1, RecordsApplied
  <2>5. \A i \in PendingChanges(x) : i \in PendingChanges(x)' /\ changes'[i] = changes[i]
    BY <2>4 DEF PendingChanges
  <2> QED
    BY <2>2, <2>3, <2>5
<1>4. ASSUME ~overlapped PROVE TrailLeads'
  <2>1. PICK a, b, n, m : a = audit /\ b = audit' /\ n = Len(audit) /\ m = Len(d)
    OBVIOUS
  <2>2. n \in Nat /\ m \in Nat /\ Len(audit') = n + m
    BY <2>1, <1>1, <1>2, FlushedRow, AuditWritten DEF ParametersInv, TypeOK
  <2>3. \A i \in 1..n : b[i] = a[i]
    BY <2>1, <1>1, AuditWritten
  <2>4. ASSUME NEW k \in 1..m, d[k].param \notin Sensitive
        PROVE  /\ d[k].param \in Params
               /\ b[n + k].previous = params[d[k].param].active
               /\ b[n + k].new = params[d[k].param].pending
               /\ params[d[k].param].pending # params[d[k].param].active
               /\ params'[d[k].param].active = params[d[k].param].pending
    <3>1. PICK p : p = d[k].param
      OBVIOUS
    <3>2. /\ p \in Params /\ d[k].loaded = req[s].loaded[p] /\ req[s].loaded[p] # NULL
          /\ d[k].loaded.pending \in Values
      BY <2>1, <3>1, <1>1, <1>2, FlushedRow
    <3>3. d[k].loaded = params[p] /\ params[p].pending # NULL
      BY <3>2, <1>4, ConfigAssumption DEF SerialInv, RequestFresh
    <3>4. params[p].pending # params[p].active
      BY <3>2, <3>3, <1>4 DEF SerialInv, StagedOpen
    <3>5. params'[p].active = params[p].pending
      <4>1. IF d[k].loaded.pending = d[k].loaded.active
            THEN params'[d[k].param].active = params[d[k].param].active
            ELSE params'[d[k].param].active = d[k].loaded.pending
        BY <2>1, <1>1, ValuesPromoted
      <4> QED
        BY <4>1, <3>1, <3>3, <3>4
    <3>6. b[n + k] = EntryOf(d[k])
      BY <2>1, <1>1, AuditWritten
    <3>7. b[n + k].previous = params[p].active /\ b[n + k].new = params[p].pending
      BY <2>4, <3>1, <3>3, <3>6 DEF EntryOf, audit_value
    <3> QED
      BY <3>1, <3>2, <3>4, <3>5, <3>7
  <2>5. \A k \in 1..m : b[n + k].param = d[k].param
    <3>1. \A k \in 1..m : b[n + k] = EntryOf(d[k])
      BY <2>1, <1>1, AuditWritten
    <3>2. \A w : EntryOf(w).param = w.param
      BY DEF EntryOf
    <3> QED
      BY <3>1, <3>2
  <2>6. \A i, k \in 1..m : d[i].param = d[k].param => i = k
    BY <2>1, <1>1, <1>2, FlushedRow
  <2>7. \A j \in n + 1 .. n + m : j - n \in 1..m /\ j = n + (j - n)
    BY <2>2
  <2>8. ASSUME NEW p \in Params \ Sensitive
        PROVE  /\ Leaves(a, p, n, params[p].active)
               /\ \A i \in 1..n : a[i].param = p =>
                    Leaves(a, p, i - 1, a[i].previous) /\ a[i].new # a[i].previous
    BY <2>1, <1>4 DEF SerialInv, TrailLeads, LeaveAt, Leaves
  <2>9. ASSUME NEW p \in Params \ Sensitive PROVE Leaves(b, p, n, params[p].active)
    <3>1. n \in Int /\ Leaves(a, p, n, params[p].active)
      BY <2>2, <2>8
    <3>2. PICK v : v = params[p].active
      OBVIOUS
    <3>3. Leaves(b, p, n, v)
      BY <3>1, <3>2, <2>3, LeavesPrefix
    <3> QED
      BY <3>2, <3>3
  <2>10. ASSUME NEW p \in Params \ Sensitive PROVE Leaves(b, p, n + m, params'[p].active)
    <3>1. CASE \A k \in 1..m : d[k].param # p
      <4>1. params'[p].active = params[p].active
        BY <3>1, <2>1, <1>1, ValuesPromoted
      <4>2. \A j \in n + 1 .. n + m : b[j].param # p
        BY <3>1, <2>5, <2>7
      <4> QED
        BY <4>1, <4>2, <2>2, <2>9, LeavesSkips
    <3>2. ASSUME NEW k \in 1..m, d[k].param = p PROVE Leaves(b, p, n + m, params'[p].active)
      <4>1. b[n + k].param = p /\ b[n + k].new = params'[p].active
        BY <3>2, <2>4, <2>5
      <4>2. n + k \in 1..(n + m) /\ \A j \in n + k + 1 .. n + m : j \in n + 1 .. n + m /\ j # n + k
        BY <2>2
      <4>3. \A j \in n + k + 1 .. n + m : b[j].param # p
        BY <3>2, <4>2, <2>5, <2>6, <2>7
      <4> QED
        BY <4>1, <4>2, <4>3 DEF Leaves
    <3> QED
      BY <3>1, <3>2
  <2>11. ASSUME NEW p \in Params \ Sensitive, NEW i \in 1..(n + m), b[i].param = p
         PROVE  Leaves(b, p, i - 1, b[i].previous) /\ b[i].new # b[i].previous
    <3>1. CASE i \in 1..n
      <4>1. Leaves(a, p, i - 1, a[i].previous) /\ a[i].new # a[i].previous /\ b[i] = a[i]
        BY <2>11, <3>1, <2>3, <2>8
      <4>2. i - 1 \in Int /\ \A j \in 1..(i - 1) : b[j] = a[j]
        BY <3>1, <2>2, <2>3
      <4> QED
        BY <4>1, <4>2, LeavesPrefix
    <3>2. CASE i \notin 1..n
      <4>1. PICK k \in 1..m : i = n + k
        BY <3>2, <2>2, <2>7
      <4>2. d[k].param = p
        BY <4>1, <2>5, <2>11
      <4>3. b[i].previous = params[p].active /\ b[i].new # b[i].previous
        BY <4>1, <4>2, <2>4
      <4>4. /\ i - 1 \in Int /\ n <= i - 1
            /\ \A j \in n + 1 .. i - 1 : j \in n + 1 .. n + m /\ j # n + k
        BY <4>1, <2>2
      <4>5. \A j \in n + 1 .. i - 1 : b[j].param # p
        BY <4>2, <4>4, <2>5, <2>6, <2>7
      <4> QED
        BY <4>3, <4>4, <4>5, <2>2, <2>9, LeavesSkips
    <3> QED
      BY <3>1, <3>2
  <2> SUFFICES ASSUME NEW p \in Params \ Sensitive
               PROVE  /\ LeaveAt(p, Len(audit), params[p].active)'
                      /\ \A i \in 1..Len(audit') : audit'[i].param = p =>
                           /\ LeaveAt(p, i - 1, audit[i].previous)'
                           /\ audit'[i].new # audit'[i].previous
    BY DEF TrailLeads
  <2>12. LeaveAt(p, Len(audit), params[p].active)'
    BY <2>2, <2>10, <2>1 DEF LeaveAt, Leaves
  <2>13. ASSUME NEW i \in 1..Len(audit'), audit'[i].param = p
         PROVE  LeaveAt(p, i - 1, audit[i].previous)' /\ audit'[i].new # audit'[i].previous
    <3>1. Leaves(b, p, i - 1, b[i].previous) /\ b[i].new # b[i].previous
      BY <2>13, <2>1, <2>2, <2>11
    <3> QED
      BY <3>1, <2>1 DEF LeaveAt, Leaves
  <2> QED
    BY <2>12, <2>13
<1> QED
  BY <1>2, <1>3, <1>4, SerialEnds

LEMMA SerialStart ==
  Init => SerialInv
<1> SUFFICES ASSUME Init PROVE SerialInv
  OBVIOUS
<1>1. OneRequest
  BY DEF Init, OneRequest
<1>2. \A s \in Sessions : RequestFresh(s)
  BY DEF Init, RequestFresh, NoRequest
<1>3. StagedOpen
  BY DEF Init, StagedOpen
<1>4. TrailLeads
  BY DEF Init, TrailLeads, LeaveAt
<1> QED
  BY <1>1, <1>2, <1>3, <1>4 DEF SerialInv

LEMMA SerialStep ==
  ParametersInv /\ SerialInv /\ [Next]_vars => SerialInv'
<1> SUFFICES ASSUME ParametersInv, SerialInv, [Next]_vars PROVE SerialInv'
  OBVIOUS
<1>1. CASE UNCHANGED vars
  BY <1>1 DEF vars, SerialInv, OneRequest, RequestFresh, StagedOpen, PendingChanges,
              TrailLeads, LeaveAt
<1>2. ASSUME NEW s \in Sessions, Step(s) PROVE SerialInv'
  BY <1>2, SerialLoads, SerialSelects, SerialStages, SerialReverts, SerialApplies DEF Step
<1> QED
  BY <1>1, <1>2 DEF Next

(* Until requests overlap every staged value has an open change record, and  *)
(* only values that differ from the active one are staged.                   *)
THEOREM StagedValuesAreOpen == Spec => []StagedHasOpenRecord
<1>1. SerialInv => StagedHasOpenRecord
  BY DEF SerialInv, StagedHasOpenRecord
<1> QED
  BY <1>1, ParametersStart, ParametersStep, SerialStart, SerialStep, PTL DEF Spec

(* Until requests overlap the audit entries of a parameter lead from its     *)
(* initial to its active value, each from the value the one before it set.   *)
THEOREM AuditTrailIsHistory == Spec => []AuditTrail
<1>1. SerialInv => AuditTrail
  BY DEF SerialInv, AuditTrail
<1> QED
  BY <1>1, ParametersStart, ParametersStep, SerialStart, SerialStep, PTL DEF Spec

=============================================================================
