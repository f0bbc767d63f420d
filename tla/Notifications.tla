---------------------------- MODULE Notifications ----------------------------
(***************************************************************************)
(* A user's notifications and the administrators' alert rules              *)
(* (app/services/notification_service.py).                                 *)
(***************************************************************************)
EXTENDS Requests

CONSTANTS
    Inbox,          \* notifications, generated elsewhere
    Recipients,     \* users that receive them
    RuleNames,
    MaxTime,        \* bound: times at which notifications are read
    MaxRules        \* bound: alert rules created

ASSUME NotificationsAssumption == {MaxTime, MaxRules} \subseteq Nat /\ IsFiniteSet(Inbox)

VARIABLES
    notes,          \* table notifications: owner, is_read, read_at (0: NULL)
    rules,          \* table alert_rules
    ruleIds,        \* ids handed out to alert rules
    clock           \* datetime.now()

notesTables == <<notes, rules, ruleIds, clock>>

-----------------------------------------------------------------------------
Notification == [user_id : Recipients, is_read : BOOLEAN, read_at : Nat]

Unread == [user_id : Recipients, is_read : {FALSE}, read_at : {0}]

AlertRule == [id : Nat, name : RuleNames, is_enabled : BOOLEAN]

NotesRequest ==
    [op : {"mark_read"}, note : Inbox, at : Nat]
    \cup [op : {"create_rule"}, name : RuleNames, is_enabled : BOOLEAN]
    \cup [op : {"update_rule"}, rule : AlertRule, name : RuleNames, is_enabled : BOOLEAN]
    \cup [op : {"delete_rule"}, rule : AlertRule]

RuleNameTaken(n, own) == \E r \in rules : r.id # own /\ r.name = n

Tick == /\ clock < MaxTime
        /\ clock' = clock + 1

-----------------------------------------------------------------------------
(* Notifications *)

Ignores_read(u, n) == notes[n].user_id = u

\* The early returns of mark_notification_read: 404 for a notification of
\* somebody else, and nothing to do for one that is read.
Markable(u, n) == notes[n].user_id = u /\ ~notes[n].is_read

Marked(note, at) == [note EXCEPT !.is_read = TRUE, !.read_at = at]

mark_notification_read(s, u, n) ==
    /\ Markable(u, n)
    /\ Tick
    /\ Begin(s, [op |-> "mark_read", note |-> n, at |-> clock + 1])
    /\ UNCHANGED <<notes, rules, ruleIds>>

MarkReadCommit(s) ==
    /\ req[s].op = "mark_read"
    /\ notes' = [notes EXCEPT ![req[s].note] = Marked(@, req[s].at)]
    /\ Finish(s)
    /\ UNCHANGED <<rules, ruleIds, clock>>

\* mark_all_read: one UPDATE ... WHERE user_id = u AND NOT is_read.
mark_all_read(s, u) ==
    /\ Tick
    /\ Instant(s)
    /\ notes' = [n \in Inbox |-> IF notes[n].user_id = u /\ ~notes[n].is_read
                                 THEN Marked(notes[n], clock + 1) ELSE notes[n]]
    /\ UNCHANGED <<rules, ruleIds>>

get_unread_count(u) == Cardinality({n \in Inbox : notes[n].user_id = u /\ ~notes[n].is_read})

-----------------------------------------------------------------------------
(* Alert rules *)

create_alert_rule(s, n, e) ==
    /\ ~RuleNameTaken(n, 0)
    /\ Begin(s, [op |-> "create_rule", name |-> n, is_enabled |-> e])
    /\ UNCHANGED notesTables

CreateRuleCommit(s) ==
    /\ req[s].op = "create_rule"
    /\ ~RuleNameTaken(req[s].name, 0)
    /\ ruleIds < MaxRules
    /\ rules' = rules \cup {[id |-> ruleIds + 1, name |-> req[s].name,
                             is_enabled |-> req[s].is_enabled]}
    /\ ruleIds' = ruleIds + 1
    /\ Finish(s)
    /\ UNCHANGED <<notes, clock>>

update_alert_rule(s, r, n, e) ==
    /\ n # r.name => ~RuleNameTaken(n, r.id)
    /\ Begin(s, [op |-> "update_rule", rule |-> r, name |-> n, is_enabled |-> e])
    /\ UNCHANGED notesTables

\* The UPDATE writes the attributes that differ from the loaded ones.
UpdatedRule(r, q) == [r EXCEPT !.name = IF q.name = q.rule.name THEN @ ELSE q.name,
                               !.is_enabled = IF q.is_enabled = q.rule.is_enabled
                                              THEN @ ELSE q.is_enabled]

\* It fails (StaleDataError) when the row is gone, and on a name taken meanwhile.
UpdateRuleCommit(s) ==
    /\ req[s].op = "update_rule"
    /\ \E r \in rules : /\ r.id = req[s].rule.id
                        /\ ~RuleNameTaken(UpdatedRule(r, req[s]).name, r.id)
                        /\ rules' = (rules \ {r}) \cup {UpdatedRule(r, req[s])}
    /\ Finish(s)
    /\ UNCHANGED <<notes, ruleIds, clock>>

delete_alert_rule(s, r) ==
    /\ Begin(s, [op |-> "delete_rule", rule |-> r])
    /\ UNCHANGED notesTables

\* A DELETE by id; a row that is gone already is only logged.
DeleteRuleCommit(s) ==
    /\ req[s].op = "delete_rule"
    /\ rules' = {r \in rules : r.id # req[s].rule.id}
    /\ Finish(s)
    /\ UNCHANGED <<notes, ruleIds, clock>>

-----------------------------------------------------------------------------
NotesInit ==
    /\ notes \in [Inbox -> Unread]
    /\ rules = {}
    /\ ruleIds = 0
    /\ clock = 0

NotesNext ==
    \/ \E s \in Sessions, u \in Recipients, n \in Inbox : mark_notification_read(s, u, n)
    \/ \E s \in Sessions, u \in Recipients : mark_all_read(s, u)
    \/ \E s \in Sessions, n \in RuleNames, e \in BOOLEAN : create_alert_rule(s, n, e)
    \/ \E s \in Sessions, r \in rules, n \in RuleNames, e \in BOOLEAN :
         update_alert_rule(s, r, n, e)
    \/ \E s \in Sessions, r \in rules : delete_alert_rule(s, r)
    \/ \E s \in Sessions : \/ MarkReadCommit(s) \/ CreateRuleCommit(s)
                           \/ UpdateRuleCommit(s) \/ DeleteRuleCommit(s)
                           \/ Abort(s) /\ UNCHANGED notesTables

-----------------------------------------------------------------------------
NotesTypeOK ==
    /\ notes \in [Inbox -> Notification]
    /\ rules \subseteq AlertRule
    /\ ruleIds \in Nat
    /\ clock \in Nat

(* A notification that has been read stays read and keeps its owner, its     *)
(* read_at is set when it is read, and the unread count of a user never      *)
(* grows; as long as requests do not overlap the time at which it was first  *)
(* read is never overwritten by a later mark or mark-all.                    *)
ReadOnce ==
    /\ \A n \in Inbox : notes[n].is_read =>
         /\ notes'[n].is_read /\ notes'[n].read_at # 0
         /\ ~overlapped' => notes'[n].read_at = notes[n].read_at
    /\ \A u \in Recipients : get_unread_count(u)' <= get_unread_count(u)

-----------------------------------------------------------------------------
(* Inductive strengthening of ReadOnce: what is read has the time of it, a   *)
(* mark under way brings one, and until requests overlap it is of a          *)
(* notification that is still unread.                                        *)

ReadAtSet == \A n \in Inbox : notes[n].is_read => notes[n].read_at # 0

MarkLoaded(s) ==
    req[s].op = "mark_read" =>
      /\ req[s].at # 0
      /\ ~overlapped => ~notes[req[s].note].is_read

NotesInv ==
    /\ NotesTypeOK /\ RequestsOf(NotesRequest) /\ OneRequest
    /\ ReadAtSet
    /\ \A s \in Sessions : MarkLoaded(s)

=============================================================================
