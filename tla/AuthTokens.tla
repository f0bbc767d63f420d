----------------------------- MODULE AuthTokens -----------------------------
(***************************************************************************)
(* Sessions and passwords (app/services/auth_service.py, the handlers of   *)
(* app/api/v1/endpoints/auth.py and the account switch of rbac_service):   *)
(* login, refresh with rotation, logout, change of password, forgotten     *)
(* password and its reset token.                                           *)
(*                                                                         *)
(* hash_password salts, so every hash is new: hashes are numbered in the   *)
(* order they are stored, and a client's password is named by the hash it  *)
(* verifies against.  Raw tokens are named by their row.                   *)
(***************************************************************************)
EXTENDS Requests, Sequences

CONSTANTS
    Users,
    MaxIssued       \* bound: tokens, reset tokens and passwords issued together

ASSUME AuthAssumption == MaxIssued \in Nat

VARIABLES
    users,          \* table users: hashed_password and is_active
    tokens,         \* table refresh_tokens, in the order of their INSERTs
    resets,         \* table password_reset_tokens
    hashes          \* how many passwords have been set after the first

authTables == <<users, tokens, resets, hashes>>

MayIssue == Len(tokens) + Len(resets) + hashes < MaxIssued

-----------------------------------------------------------------------------
User == [hashed_password : Nat, is_active : BOOLEAN]

\* History: `parent' is the token a refresh exchanged for this one (0: a login)
\* and `era' the password hash of the user object the issuing request held.
RefreshToken == [user : Users, revoked : BOOLEAN, expired : BOOLEAN,
                 parent : Nat, era : Nat]

\* History: `uses' counts the resets the token was accepted for.
PasswordResetToken == [user : Users, used : BOOLEAN, expired : BOOLEAN, uses : Nat]

AuthRequest ==
    [op : {"redeem"}, token : Nat, user : {NULL} \cup User]
    \cup [op : {"issue"}, user : Users, parent : Nat, era : Nat]
    \cup [op : {"logout"}, token : Nat]
    \cup [op : {"change", "reset"}, user : Users, token : Nat,
          revoke : {NULL} \cup SUBSET (1..MaxIssued)]

verify_password(p, u) == p = users[u].hashed_password

\* _revoke_all_user_refresh_tokens: the rows its SELECT returns.
unrevoked_tokens(u) == {t \in 1..Len(tokens) : tokens[t].user = u /\ ~tokens[t].revoked}

list_active_sessions(u) == {t \in unrevoked_tokens(u) : ~tokens[t].expired}

\* get_current_user, for an access token that decodes: the account is active.
get_current_user(u) == users[u].is_active

-----------------------------------------------------------------------------
(* Login and refresh *)

authenticate_user(u, p) == users[u].is_active /\ verify_password(p, u)

login(s, u, p) ==
    /\ authenticate_user(u, p)
    /\ Begin(s, [op |-> "issue", user |-> u, parent |-> 0, era |-> p])
    /\ UNCHANGED authTables

\* issue_refresh_token, with its own commit.
issue_refresh_token(s) ==
    /\ req[s].op = "issue"
    /\ MayIssue
    /\ tokens' = Append(tokens, [user |-> req[s].user, revoked |-> FALSE, expired |-> FALSE,
                                 parent |-> req[s].parent, era |-> req[s].era])
    /\ Finish(s)
    /\ UNCHANGED <<users, resets, hashes>>

\* redeem_refresh_token: the SELECT of the token and its early returns ...
Accepts_revoked(t) == ~tokens[t].expired

Redeemable(t) == ~tokens[t].revoked /\ ~tokens[t].expired

refresh(s, t) ==
    /\ Redeemable(t)
    /\ Begin(s, [op |-> "redeem", token |-> t, user |-> NULL])
    /\ UNCHANGED authTables

\* ... db.get(User, token.user_id) ...
RedeemLoadUser(s) ==
    /\ req[s].op = "redeem" /\ req[s].user = NULL
    /\ Continue(s, [req[s] EXCEPT !.user = users[tokens[req[s].token].user]])
    /\ UNCHANGED authTables

Redeem_without_commit(s) ==
    /\ req[s].op = "redeem" /\ req[s].user # NULL
    /\ Continue(s, IF req[s].user.is_active
                   THEN [op |-> "issue", user |-> tokens[req[s].token].user,
                         parent |-> req[s].token, era |-> req[s].user.hashed_password]
                   ELSE Idle)
    /\ UNCHANGED authTables

\* ... and the commit of the revocation.  The handler goes on to issue the
\* successor, a transaction of its own, if the user as loaded was active.
RedeemCommit(s) ==
    /\ req[s].op = "redeem" /\ req[s].user # NULL
    /\ tokens' = [tokens EXCEPT ![req[s].token].revoked = TRUE]
    /\ Continue(s, IF req[s].user.is_active
                   THEN [op |-> "issue", user |-> tokens[req[s].token].user,
                         parent |-> req[s].token, era |-> req[s].user.hashed_password]
                   ELSE Idle)
    /\ UNCHANGED <<users, resets, hashes>>

\* logout: revoke_refresh_token loads the token, and commits only if it has to.
logout(s, t) ==
    /\ ~tokens[t].revoked
    /\ Begin(s, [op |-> "logout", token |-> t])
    /\ UNCHANGED authTables

LogoutCommit(s) ==
    /\ req[s].op = "logout"
    /\ tokens' = [tokens EXCEPT ![req[s].token].revoked = TRUE]
    /\ Finish(s)
    /\ UNCHANGED <<users, resets, hashes>>

-----------------------------------------------------------------------------
(* Passwords *)

\* change_own_password: get_current_user loads the account, change_password
\* verifies the current password against it.
change_password(s, u, p) ==
    /\ get_current_user(u)
    /\ verify_password(p, u)
    /\ Begin(s, [op |-> "change", user |-> u, token |-> 0, revoke |-> NULL])
    /\ UNCHANGED authTables

\* create_password_reset_token.
forgot_password(s, u) ==
    /\ users[u].is_active
    /\ MayIssue
    /\ Instant(s)
    /\ resets' = Append(resets, [user |-> u, used |-> FALSE, expired |-> FALSE, uses |-> 0])
    /\ UNCHANGED <<users, tokens, hashes>>

\* reset_password: the SELECT of the reset token and its early returns.
reset_password(s, k) ==
    /\ ~resets[k].used /\ ~resets[k].expired
    /\ Begin(s, [op |-> "reset", user |-> resets[k].user, token |-> k, revoke |-> NULL])
    /\ UNCHANGED authTables

Revokes_expired_only(s) ==
    /\ req[s].op \in {"change", "reset"} /\ req[s].revoke = NULL
    /\ req[s].op = "reset" => users[req[s].user].is_active
    /\ Continue(s, [req[s] EXCEPT !.revoke = {t \in unrevoked_tokens(req[s].user) :
                                              tokens[t].expired}])
    /\ UNCHANGED authTables

\* A reset loads the account (400 when it is inactive); both then run
\* _revoke_all_user_refresh_tokens.
SelectTokens(s) ==
    /\ req[s].op \in {"change", "reset"} /\ req[s].revoke = NULL
    /\ req[s].op = "reset" => users[req[s].user].is_active
    /\ Continue(s, [req[s] EXCEPT !.revoke = unrevoked_tokens(req[s].user)])
    /\ UNCHANGED authTables

Keeps_reset_token(s) ==
    /\ req[s].op \in {"change", "reset"} /\ req[s].revoke # NULL
    /\ MayIssue
    /\ hashes' = hashes + 1
    /\ users' = [users EXCEPT ![req[s].user].hashed_password = hashes + 1]
    /\ tokens' = [t \in 1..Len(tokens) |->
                    [tokens[t] EXCEPT !.revoked = @ \/ t \in req[s].revoke]]
    /\ resets' = IF req[s].op = "reset"
                 THEN [resets EXCEPT ![req[s].token].uses = @ + 1]
                 ELSE resets
    /\ Finish(s)

\* One commit writes the new hash, the revocations and, for a reset, used_at.
PasswordCommit(s) ==
    /\ req[s].op \in {"change", "reset"} /\ req[s].revoke # NULL
    /\ MayIssue
    /\ hashes' = hashes + 1
    /\ users' = [users EXCEPT ![req[s].user].hashed_password = hashes + 1]
    /\ tokens' = [t \in 1..Len(tokens) |->
                    [tokens[t] EXCEPT !.revoked = @ \/ t \in req[s].revoke]]
    /\ resets' = IF req[s].op = "reset"
                 THEN [resets EXCEPT ![req[s].token].used = TRUE, ![req[s].token].uses = @ + 1]
                 ELSE resets
    /\ Finish(s)

\* set_user_active of the administration service.
set_user_active(s, u, a) ==
    /\ Instant(s)
    /\ users' = [users EXCEPT ![u].is_active = a]
    /\ UNCHANGED <<tokens, resets, hashes>>

\* expires_at passes.  Nobody can tell once the token is revoked or used.
Expire ==
    /\ \/ /\ \E t \in 1..Len(tokens) : /\ ~tokens[t].revoked
                                       /\ tokens' = [tokens EXCEPT ![t].expired = TRUE]
          /\ UNCHANGED resets
       \/ /\ \E k \in 1..Len(resets) : /\ ~resets[k].used
                                       /\ resets' = [resets EXCEPT ![k].expired = TRUE]
          /\ UNCHANGED tokens
    /\ UNCHANGED <<users, hashes, req, overlapped>>

-----------------------------------------------------------------------------
AuthInit ==
    /\ users = [u \in Users |-> [hashed_password |-> 0, is_active |-> TRUE]]
    /\ tokens = << >>
    /\ resets = << >>
    /\ hashes = 0

AuthNext ==
    \/ \E s \in Sessions, u \in Users : \E p \in 0..hashes :
         login(s, u, p) \/ change_password(s, u, p)
    \/ \E s \in Sessions : \E t \in 1..Len(tokens) : refresh(s, t) \/ logout(s, t)
    \/ \E s \in Sessions, u \in Users : forgot_password(s, u)
    \/ \E s \in Sessions, u \in Users, a \in BOOLEAN : set_user_active(s, u, a)
    \/ \E s \in Sessions : \E k \in 1..Len(resets) : reset_password(s, k)
    \/ \E s \in Sessions : \/ issue_refresh_token(s) \/ RedeemLoadUser(s) \/ RedeemCommit(s)
                           \/ LogoutCommit(s) \/ SelectTokens(s) \/ PasswordCommit(s)
                           \/ Abort(s) /\ UNCHANGED authTables
    \/ Expire

AuthSpec == RequestsInit /\ AuthInit /\ [][AuthNext]_<<reqVars, authTables>>

-----------------------------------------------------------------------------
AuthTypeOK ==
    /\ users \in [Users -> User]
    /\ tokens \in Seq(RefreshToken)
    /\ resets \in Seq(PasswordResetToken)
    /\ hashes \in Nat

(* Rotation, whatever overlaps or fails (redeem_refresh_token): a refresh    *)
(* token that has been exchanged for a successor is revoked, because the     *)
(* revocation is committed before the successor is issued.  A crash in       *)
(* between can lose the session but never leaves both tokens usable.         *)
RotationRevokes ==
    \A t \in 1..Len(tokens) :
      tokens[t].parent # 0 =>
        /\ tokens[tokens[t].parent].revoked
        /\ tokens[tokens[t].parent].user = tokens[t].user

(* The presented refresh token "is revoked (single use)": it is exchanged    *)
(* for one successor at most (docstring of redeem_refresh_token).            *)
RefreshSingleUse ==
    \A t1, t2 \in 1..Len(tokens) :
      tokens[t1].parent # 0 /\ tokens[t1].parent = tokens[t2].parent => t1 = t2

(* "A single-use password reset token": no token sets two passwords          *)
(* (docstring of create_password_reset_token).                               *)
ResetSingleUse == \A k \in 1..Len(resets) : resets[k].uses <= 1

SingleUse == RefreshSingleUse /\ ResetSingleUse

(* Single use, as long as requests do not overlap: a refresh token is        *)
(* exchanged at most once and a reset token is accepted at most once         *)
(* (docstrings of redeem_refresh_token and create_password_reset_token).     *)
SingleUseIfSerial == ~overlapped => SingleUse

(* Every session that list_active_sessions shows was opened under the        *)
(* current password: after a change or a reset "the user must                *)
(* re-authenticate everywhere" (_revoke_all_user_refresh_tokens).            *)
SessionsOfCurrentPassword ==
    \A u \in Users : \A t \in list_active_sessions(u) :
      tokens[t].era = users[u].hashed_password

(* As long as requests do not overlap that holds: a change or a reset ends   *)
(* the sessions opened before it, the descendants of rotated tokens          *)
(* included.                                                                 *)
SessionsOfCurrentPasswordIfSerial == ~overlapped => SessionsOfCurrentPassword

-----------------------------------------------------------------------------
(* The inductive invariant of the proofs. *)

IssuedBounded == Len(tokens) + Len(resets) + hashes <= MaxIssued

ParentsExist ==
    \A t \in 1..Len(tokens) : tokens[t].parent # 0 => tokens[t].parent \in 1..Len(tokens)

\* The rows a request names exist; the token a successor is about to be issued
\* for is revoked already.
RequestRefers(s) ==
    /\ req[s].op \in {"redeem", "logout"} => req[s].token \in 1..Len(tokens)
    /\ req[s].op = "reset" => req[s].token \in 1..Len(resets)
    /\ req[s].op = "issue" /\ req[s].parent # 0 =>
         /\ req[s].parent \in 1..Len(tokens)
         /\ tokens[req[s].parent].revoked
         /\ tokens[req[s].parent].user = req[s].user

RotationInv ==
    /\ AuthTypeOK /\ RequestsOf(AuthRequest) /\ OneRequest
    /\ IssuedBounded
    /\ ParentsExist
    /\ \A s \in Sessions : RequestRefers(s)
    /\ RotationRevokes

\* What a request read is still so when it commits.
RequestFresh(s) ==
    /\ req[s].op = "redeem" => ~tokens[req[s].token].revoked
    /\ req[s].op = "redeem" /\ req[s].user # NULL =>
         req[s].user.hashed_password = users[tokens[req[s].token].user].hashed_password
    /\ req[s].op = "issue" => req[s].era = users[req[s].user].hashed_password
    /\ req[s].op = "issue" /\ req[s].parent # 0 =>
         \A t \in 1..Len(tokens) : tokens[t].parent # req[s].parent
    /\ req[s].op = "reset" => ~resets[req[s].token].used
    /\ req[s].op \in {"change", "reset"} /\ req[s].revoke # NULL =>
         req[s].revoke = unrevoked_tokens(req[s].user)

UsesCounted ==
    \A k \in 1..Len(resets) : resets[k].uses = IF resets[k].used THEN 1 ELSE 0

SingleUseInv ==
    ~overlapped => /\ UsesCounted /\ SingleUse /\ SessionsOfCurrentPassword
                   /\ \A s \in Sessions : RequestFresh(s)

=============================================================================
