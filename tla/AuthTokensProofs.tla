-------------------------- MODULE AuthTokensProofs --------------------------
(***************************************************************************)
(* Theorems about AuthTokens for any sets of sessions and users and any    *)
(* number of tokens.  Part 1: rotation, under any interleaving.  Part 2:   *)
(* single use and the sessions a password change ends, until requests      *)
(* overlap.                                                                *)
(***************************************************************************)
EXTENDS AuthTokens, RequestsProofs, TLAPS

-----------------------------------------------------------------------------
(* What the writes do to the rows of the two token tables. *)

(* An INSERT. *)
LEMMA AppendedRow ==
  ASSUME NEW S, NEW q \in Seq(S), NEW x \in S, NEW r, r = Append(q, x)
  PROVE  /\ r \in Seq(S) /\ Len(r) = Len(q) + 1
         /\ \A i \in 1..Len(q) : r[i] = q[i]
         /\ r[Len(q) + 1] = x
OBVIOUS

(* An UPDATE of one row. *)
LEMMA UpdatedRow ==
  ASSUME NEW S, NEW q \in Seq(S), NEW n \in 1..Len(q), NEW x \in S, NEW r,
         r = [q EXCEPT ![n] = x]
  PROVE  /\ r \in Seq(S) /\ Len(r) = Len(q) /\ r[n] = x
         /\ \A i \in 1..Len(q) : i # n => r[i] = q[i]
OBVIOUS

(* An UPDATE of every row. *)
LEMMA UpdatedRows ==
  ASSUME NEW S, NEW n \in Nat, NEW r \in [1..n -> S]
  PROVE  r \in Seq(S) /\ Len(r) = n
OBVIOUS

\* The rows of refresh_tokens after an UPDATE that revokes those in R.
TokensRevoked(R) ==
    /\ tokens' \in Seq(RefreshToken)
    /\ Len(tokens') = Len(tokens)
    /\ \A i \in 1..Len(tokens) :
         /\ tokens'[i].user = tokens[i].user
         /\ tokens'[i].parent = tokens[i].parent
         /\ tokens'[i].era = tokens[i].era
         /\ tokens'[i].expired = tokens[i].expired
         /\ tokens'[i].revoked <=> tokens[i].revoked \/ i \in R

LEMMA RevokeOne ==
  ASSUME AuthTypeOK, NEW t \in 1..Len(tokens),
         tokens' = [tokens EXCEPT ![t].revoked = TRUE]
  PROVE  TokensRevoked({t})
<1>1. PICK b \in BOOLEAN : b = TRUE
  OBVIOUS
<1>2. PICK x : x = [tokens[t] EXCEPT !.revoked = b]
  OBVIOUS
<1>3. tokens \in Seq(RefreshToken) /\ tokens[t] \in RefreshToken
  BY DEF AuthTypeOK
<1>4. tokens' = [tokens EXCEPT ![t] = x]
  BY <1>1, <1>2, <1>3
<1>5. /\ x \in RefreshToken /\ x.user = tokens[t].user /\ x.parent = tokens[t].parent
      /\ x.era = tokens[t].era /\ x.expired = tokens[t].expired /\ x.revoked = b
  BY <1>2, <1>3 DEF RefreshToken
<1>6. x.revoked
  BY <1>1, <1>5
<1>7. /\ tokens' \in Seq(RefreshToken) /\ Len(tokens') = Len(tokens) /\ tokens'[t] = x
      /\ \A i \in 1..Len(tokens) : i # t => tokens'[i] = tokens[i]
  <2>1. PICK q, r : q = tokens /\ r = tokens'
    OBVIOUS
  <2>2. q \in Seq(RefreshToken) /\ r = [q EXCEPT ![t] = x] /\ t \in 1..Len(q)
    BY <1>3, <1>4, <2>1
  <2>3. /\ r \in Seq(RefreshToken) /\ Len(r) = Len(q) /\ r[t] = x
        /\ \A i \in 1..Len(q) : i # t => r[i] = q[i]
    BY <2>2, <1>5, UpdatedRow
  <2> QED
    BY <2>1, <2>3
<1> QED
  BY <1>5, <1>6, <1>7 DEF TokensRevoked

LEMMA RevokeAll ==
  ASSUME AuthTypeOK, NEW R,
         tokens' = [t \in 1..Len(tokens) |-> [tokens[t] EXCEPT !.revoked = @ \/ t \in R]]
  PROVE  TokensRevoked(R)
<1>1. tokens \in Seq(RefreshToken) /\ Len(tokens) \in Nat
  BY DEF AuthTypeOK
<1>2. ASSUME NEW i \in 1..Len(tokens)
      PROVE  /\ tokens'[i] \in RefreshToken
             /\ tokens'[i].user = tokens[i].user
             /\ tokens'[i].parent = tokens[i].parent
             /\ tokens'[i].era = tokens[i].era
             /\ tokens'[i].expired = tokens[i].expired
             /\ tokens'[i].revoked <=> tokens[i].revoked \/ i \in R
  <2>1. PICK b \in BOOLEAN : b = (tokens[i].revoked \/ i \in R)
    OBVIOUS
  <2>2. PICK x : x = [tokens[i] EXCEPT !.revoked = b]
    OBVIOUS
  <2>3. tokens'[i] = x
    BY <2>1, <2>2
  <2>4. tokens[i] \in RefreshToken
    BY <1>1
  <2>5. /\ x \in RefreshToken /\ x.user = tokens[i].user /\ x.parent = tokens[i].parent
        /\ x.era = tokens[i].era /\ x.expired = tokens[i].expired /\ x.revoked = b
    BY <2>2, <2>4 DEF RefreshToken
  <2> QED
    BY <2>1, <2>3, <2>5
<1>3. tokens' \in [1..Len(tokens) -> RefreshToken]
  <2>1. DOMAIN tokens' = 1..Len(tokens) /\ tokens' = [i \in DOMAIN tokens' |-> tokens'[i]]
    OBVIOUS
  <2> QED
    BY <1>2, <2>1
<1>4. tokens' \in Seq(RefreshToken) /\ Len(tokens') = Len(tokens)
  BY <1>1, <1>3, UpdatedRows
<1> QED
  BY <1>2, <1>4 DEF TokensRevoked

LEMMA ExpireOne ==
  ASSUME AuthTypeOK, NEW t \in 1..Len(tokens),
         tokens' = [tokens EXCEPT ![t].expired = TRUE]
  PROVE  /\ tokens' \in Seq(RefreshToken)
         /\ Len(tokens') = Len(tokens)
         /\ \A i \in 1..Len(tokens) :
              /\ tokens'[i].user = tokens[i].user
              /\ tokens'[i].parent = tokens[i].parent
              /\ tokens'[i].era = tokens[i].era
              /\ tokens'[i].revoked = tokens[i].revoked
              /\ tokens[i].expired => tokens'[i].expired
<1>1. PICK b \in BOOLEAN : b = TRUE
  OBVIOUS
<1>2. PICK x : x = [tokens[t] EXCEPT !.expired = b]
  OBVIOUS
<1>3. tokens \in Seq(RefreshToken) /\ tokens[t] \in RefreshToken
  BY DEF AuthTypeOK
<1>4. tokens' = [tokens EXCEPT ![t] = x]
  BY <1>1, <1>2, <1>3
<1>5. /\ x \in RefreshToken /\ x.user = tokens[t].user /\ x.parent = tokens[t].parent
      /\ x.era = tokens[t].era /\ x.revoked = tokens[t].revoked /\ x.expired = b
  BY <1>2, <1>3 DEF RefreshToken
<1>6. x.expired
  BY <1>1, <1>5
<1>7. /\ tokens' \in Seq(RefreshToken) /\ Len(tokens') = Len(tokens) /\ tokens'[t] = x
      /\ \A i \in 1..Len(tokens) : i # t => tokens'[i] = tokens[i]
  <2>1. PICK q, r : q = tokens /\ r = tokens'
    OBVIOUS
  <2>2. q \in Seq(RefreshToken) /\ r = [q EXCEPT ![t] = x] /\ t \in 1..Len(q)
    BY <1>3, <1>4, <2>1
  <2>3. /\ r \in Seq(RefreshToken) /\ Len(r) = Len(q) /\ r[t] = x
        /\ \A i \in 1..Len(q) : i # t => r[i] = q[i]
    BY <2>2, <1>5, UpdatedRow
  <2> QED
    BY <2>1, <2>3
<1> QED
  BY <1>5, <1>6, <1>7

LEMMA UseReset ==
  ASSUME AuthTypeOK, NEW k \in 1..Len(resets),
         resets' = [resets EXCEPT ![k].used = TRUE, ![k].uses = @ + 1]
  PROVE  /\ resets' \in Seq(PasswordResetToken)
         /\ Len(resets') = Len(resets)
         /\ resets'[k].used /\ resets'[k].uses = resets[k].uses + 1
         /\ \A i \in 1..Len(resets) : i # k => resets'[i] = resets[i]
<1>1. PICK b \in BOOLEAN : b = TRUE
  OBVIOUS
<1>2. PICK x : x = [resets[k] EXCEPT !.used = b, !.uses = resets[k].uses + 1]
  OBVIOUS
<1>3. resets \in Seq(PasswordResetToken) /\ resets[k] \in PasswordResetToken
  BY DEF AuthTypeOK
<1>4. resets' = [resets EXCEPT ![k] = x]
  <2>1. resets' = [resets EXCEPT ![k].used = b, ![k].uses = @ + 1]
    BY <1>1
  <2> HIDE <1>1
  <2> QED
    BY <1>2, <1>3, <2>1
<1>5. x \in PasswordResetToken /\ x.used = b /\ x.uses = resets[k].uses + 1
  BY <1>2, <1>3 DEF PasswordResetToken
<1>6. x.used
  BY <1>1, <1>5
<1>7. PICK q, r : q = resets /\ r = resets'
  OBVIOUS
<1>8. q \in Seq(PasswordResetToken) /\ r = [q EXCEPT ![k] = x] /\ k \in 1..Len(q)
  BY <1>3, <1>4, <1>7
<1>9. /\ r \in Seq(PasswordResetToken) /\ Len(r) = Len(q) /\ r[k] = x
      /\ \A i \in 1..Len(q) : i # k => r[i] = q[i]
  BY <1>8, <1>5, UpdatedRow
<1> QED
  BY <1>5, <1>6, <1>7, <1>9

LEMMA ExpireReset ==
  ASSUME AuthTypeOK, NEW k \in 1..Len(resets),
         resets' = [resets EXCEPT ![k].expired = TRUE]
  PROVE  /\ resets' \in Seq(PasswordResetToken)
         /\ Len(resets') = Len(resets)
         /\ \A i \in 1..Len(resets) :
              resets'[i].used = resets[i].used /\ resets'[i].uses = resets[i].uses
<1>1. PICK b \in BOOLEAN : b = TRUE
  OBVIOUS
<1>2. PICK x : x = [resets[k] EXCEPT !.expired = b]
  OBVIOUS
<1>3. resets \in Seq(PasswordResetToken) /\ resets[k] \in PasswordResetToken
  BY DEF AuthTypeOK
<1>4. resets' = [resets EXCEPT ![k] = x]
  BY <1>1, <1>2, <1>3
<1>5. x \in PasswordResetToken /\ x.used = resets[k].used /\ x.uses = resets[k].uses
  BY <1>2, <1>3 DEF PasswordResetToken
<1>6. PICK q, r : q = resets /\ r = resets'
  OBVIOUS
<1>7. q \in Seq(PasswordResetToken) /\ r = [q EXCEPT ![k] = x] /\ k \in 1..Len(q)
  BY <1>3, <1>4, <1>6
<1>8. /\ r \in Seq(PasswordResetToken) /\ Len(r) = Len(q) /\ r[k] = x
      /\ \A i \in 1..Len(q) : i # k => r[i] = q[i]
  BY <1>7, <1>5, UpdatedRow
<1> QED
  BY <1>5, <1>6, <1>8

-----------------------------------------------------------------------------
(* Part 1: rotation. *)

\* Rows of refresh_tokens and password_reset_tokens are never deleted, keep
\* their user and their parent, and stay revoked.
RowsKept ==
    /\ Len(tokens) <= Len(tokens') /\ Len(resets) <= Len(resets')
    /\ \A i \in 1..Len(tokens) : /\ tokens'[i].user = tokens[i].user
                                 /\ tokens'[i].parent = tokens[i].parent
                                 /\ tokens[i].revoked => tokens'[i].revoked

LEMMA RefersKept ==
  ASSUME RotationInv, RowsKept, AuthTypeOK', NEW t \in Sessions, req'[t] = req[t]
  PROVE  RequestRefers(t)'
<1>1. Len(tokens) \in Nat /\ Len(tokens') \in Nat /\ Len(resets) \in Nat /\ Len(resets') \in Nat
  BY DEF RotationInv, AuthTypeOK
<1>2. RequestRefers(t)
  BY DEF RotationInv
<1> QED
  BY <1>1, <1>2 DEF RequestRefers, RowsKept

(* Every step but the issue of a token: what is left to show is what the     *)
(* request that took it refers to.                                           *)
LEMMA RotationKept ==
  ASSUME RotationInv, RowsKept, Len(tokens') = Len(tokens), AuthTypeOK', IssuedBounded',
         RequestsOf(AuthRequest)', OneRequest',
         NEW s \in Sessions, \A t \in Sessions \ {s} : req'[t] = req[t], RequestRefers(s)'
  PROVE  RotationInv'
<1>1. \A t \in Sessions : RequestRefers(t)'
  BY RefersKept
<1>2. ParentsExist'
  BY DEF RotationInv, ParentsExist, RowsKept
<1>3. RotationRevokes'
  BY DEF RotationInv, ParentsExist, RotationRevokes, RowsKept
<1> QED
  BY <1>1, <1>2, <1>3 DEF RotationInv

(* A request that begins and only reads. *)
LEMMA BeginsReading ==
  ASSUME RotationInv, NEW s \in Sessions, NEW r \in AuthRequest, Begin(s, r), UNCHANGED authTables,
         r.op \in {"redeem", "logout"} => r.token \in 1..Len(tokens),
         r.op = "reset" => r.token \in 1..Len(resets),
         r.op = "issue" => r.parent = 0
  PROVE  RotationInv'
<1>1. /\ RequestsOf(AuthRequest)' /\ OneRequest'
      /\ req'[s] = r /\ \A t \in Sessions \ {s} : req'[t] = req[t]
  BY Begins DEF RotationInv
<1>2. RowsKept /\ Len(tokens') = Len(tokens) /\ AuthTypeOK' /\ IssuedBounded'
  BY DEF RotationInv, RowsKept, authTables, AuthTypeOK, IssuedBounded
<1>3. RequestRefers(s)'
  BY <1>1 DEF RequestRefers, authTables
<1> QED
  BY <1>1, <1>2, <1>3, RotationKept

(* A request that goes on and only reads. *)
LEMMA ContinuesReading ==
  ASSUME RotationInv, NEW s \in Sessions, NEW r \in AuthRequest \cup {Idle}, req[s] # Idle,
         Continue(s, r), UNCHANGED authTables,
         r.op \in {"redeem", "logout"} => r.token \in 1..Len(tokens),
         r.op = "reset" => r.token \in 1..Len(resets),
         r.op # "issue"
  PROVE  RotationInv'
<1>1. /\ RequestsOf(AuthRequest)' /\ OneRequest'
      /\ req'[s] = r /\ \A t \in Sessions \ {s} : req'[t] = req[t]
  BY Continues DEF RotationInv
<1>2. RowsKept /\ Len(tokens') = Len(tokens) /\ AuthTypeOK' /\ IssuedBounded'
  BY DEF RotationInv, RowsKept, authTables, AuthTypeOK, IssuedBounded
<1>3. RequestRefers(s)'
  BY <1>1 DEF RequestRefers, authTables
<1> QED
  BY <1>1, <1>2, <1>3, RotationKept

LEMMA LoginRotates ==
  ASSUME RotationInv, NEW s \in Sessions, NEW u \in Users, NEW p \in 0..hashes,
         login(s, u, p) \/ change_password(s, u, p)
  PROVE  RotationInv'
<1>1. hashes \in Nat
  BY DEF RotationInv, AuthTypeOK
<1>2. CASE login(s, u, p)
  <2>1. [op |-> "issue", user |-> u, parent |-> 0, era |-> p] \in AuthRequest
    BY <1>1 DEF AuthRequest
  <2> QED
    BY <1>2, <2>1, BeginsReading DEF login
<1>3. CASE change_password(s, u, p)
  <2>1. [op |-> "change", user |-> u, token |-> 0, revoke |-> NULL] \in AuthRequest
    BY DEF AuthRequest
  <2> QED
    BY <1>3, <2>1, BeginsReading DEF change_password
<1> QED
  BY <1>2, <1>3

LEMMA RefreshRotates ==
  ASSUME RotationInv, NEW s \in Sessions, NEW t \in 1..Len(tokens), refresh(s, t) \/ logout(s, t)
  PROVE  RotationInv'
<1>1. t \in Nat
  BY DEF RotationInv, AuthTypeOK
<1>2. CASE refresh(s, t)
  <2>1. [op |-> "redeem", token |-> t, user |-> NULL] \in AuthRequest
    BY <1>1 DEF AuthRequest
  <2> QED
    BY <1>2, <2>1, BeginsReading DEF refresh
<1>3. CASE logout(s, t)
  <2>1. [op |-> "logout", token |-> t] \in AuthRequest
    BY <1>1 DEF AuthRequest
  <2> QED
    BY <1>3, <2>1, BeginsReading DEF logout
<1> QED
  BY <1>2, <1>3

LEMMA ResetRotates ==
  ASSUME RotationInv, NEW s \in Sessions, NEW k \in 1..Len(resets), reset_password(s, k)
  PROVE  RotationInv'
<1>1. k \in Nat /\ resets[k].user \in Users
  <2>1. resets[k] \in PasswordResetToken /\ k \in Nat
    BY DEF RotationInv, AuthTypeOK
  <2> QED
    BY <2>1 DEF PasswordResetToken
<1>2. [op |-> "reset", user |-> resets[k].user, token |-> k, revoke |-> NULL] \in AuthRequest
  BY <1>1 DEF AuthRequest
<1> QED
  BY <1>2, BeginsReading DEF reset_password

LEMMA ForgotRotates ==
  ASSUME RotationInv, NEW s \in Sessions, NEW u \in Users, forgot_password(s, u)
  PROVE  RotationInv'
<1>1. RequestsOf(AuthRequest)' /\ OneRequest' /\ req' = req
  BY Instants DEF RotationInv, forgot_password
<1>2. /\ resets' \in Seq(PasswordResetToken) /\ Len(resets') = Len(resets) + 1
      /\ tokens' = tokens /\ hashes' = hashes /\ users' = users
  <2>1. PICK x : x = [user |-> u, used |-> FALSE, expired |-> FALSE, uses |-> 0]
    OBVIOUS
  <2>2. x \in PasswordResetToken
    <3>1. PICK b \in BOOLEAN : b = FALSE
      OBVIOUS
    <3>2. x = [user |-> u, used |-> b, expired |-> b, uses |-> 0]
      BY <2>1, <3>1
    <3> HIDE <3>1, <2>1
    <3> QED
      BY <3>2 DEF PasswordResetToken
  <2>3. resets' = Append(resets, x)
    BY <2>1 DEF forgot_password
  <2> HIDE <2>1
  <2> QED
    BY <2>2, <2>3 DEF forgot_password, RotationInv, AuthTypeOK
<1>3. RowsKept /\ Len(tokens') = Len(tokens) /\ AuthTypeOK'
  BY <1>2 DEF RotationInv, RowsKept, AuthTypeOK
<1>4. IssuedBounded'
  BY <1>2, AuthAssumption DEF IssuedBounded, forgot_password, MayIssue, RotationInv, AuthTypeOK
<1>5. RequestRefers(s)'
  BY <1>1, <1>3, RefersKept
<1> QED
  BY <1>1, <1>3, <1>4, <1>5, RotationKept

LEMMA SetActiveRotates ==
  ASSUME RotationInv, NEW s \in Sessions, NEW u \in Users, NEW a \in BOOLEAN,
         set_user_active(s, u, a)
  PROVE  RotationInv'
<1>1. RequestsOf(AuthRequest)' /\ OneRequest' /\ req' = req
  BY Instants DEF RotationInv, set_user_active
<1>2. users' \in [Users -> User]
  BY DEF set_user_active, RotationInv, AuthTypeOK, User
<1>3. RowsKept /\ Len(tokens') = Len(tokens) /\ AuthTypeOK' /\ IssuedBounded'
  BY <1>2 DEF RotationInv, RowsKept, AuthTypeOK, set_user_active, IssuedBounded
<1>4. RequestRefers(s)'
  BY <1>1, <1>3, RefersKept
<1> QED
  BY <1>1, <1>3, <1>4, RotationKept

LEMMA IssueRotates ==
  ASSUME RotationInv, NEW s \in Sessions, issue_refresh_token(s)
  PROVE  /\ RotationInv'
         /\ req'[s] = Idle /\ \A t \in Sessions \ {s} : req'[t] = req[t]
         /\ Len(tokens') = Len(tokens) + 1
         /\ \A i \in 1..Len(tokens) : tokens'[i] = tokens[i]
         /\ tokens'[Len(tokens) + 1].user = req[s].user
         /\ tokens'[Len(tokens) + 1].parent = req[s].parent
         /\ tokens'[Len(tokens) + 1].era = req[s].era
<1>1. req[s] # Idle /\ req[s] \in AuthRequest
  BY DEF issue_refresh_token, Idle, RotationInv, RequestsOf
<1>2. /\ RequestsOf(AuthRequest)' /\ OneRequest'
      /\ req'[s] = Idle /\ \A t \in Sessions \ {s} : req'[t] = req[t]
  BY <1>1, Continues DEF RotationInv, issue_refresh_token, Finish
<1>3. req[s].user \in Users /\ req[s].parent \in Nat /\ req[s].era \in Nat
  BY <1>1 DEF issue_refresh_token, AuthRequest
<1>4. PICK x : x = [user |-> req[s].user, revoked |-> FALSE, expired |-> FALSE,
                    parent |-> req[s].parent, era |-> req[s].era]
  OBVIOUS
<1>5. /\ x \in RefreshToken /\ x.user = req[s].user /\ x.parent = req[s].parent
      /\ x.era = req[s].era
  <2>1. PICK b \in BOOLEAN : b = FALSE
    OBVIOUS
  <2>2. x = [user |-> req[s].user, revoked |-> b, expired |-> b,
             parent |-> req[s].parent, era |-> req[s].era]
    BY <1>4, <2>1
  <2> HIDE <2>1, <1>4
  <2> QED
    BY <1>3, <2>2 DEF RefreshToken
<1>6. /\ tokens' = Append(tokens, x) /\ tokens \in Seq(RefreshToken)
      /\ users' = users /\ resets' = resets /\ hashes' = hashes
  BY <1>4 DEF issue_refresh_token, RotationInv, AuthTypeOK
<1> HIDE <1>4
<1>7. /\ tokens' \in Seq(RefreshToken) /\ Len(tokens') = Len(tokens) + 1
      /\ \A i \in 1..Len(tokens) : tokens'[i] = tokens[i]
      /\ tokens'[Len(tokens) + 1] = x
  BY <1>5, <1>6
<1>8. AuthTypeOK' /\ RowsKept
  BY <1>6, <1>7 DEF RotationInv, AuthTypeOK, RowsKept
<1>9. IssuedBounded'
  BY <1>6, <1>7, AuthAssumption
     DEF IssuedBounded, issue_refresh_token, MayIssue, RotationInv, AuthTypeOK
<1>10. RequestRefers(s) /\ req[s].op = "issue" /\ Len(tokens) \in Nat
  BY <1>6 DEF RotationInv, issue_refresh_token
<1>11. \A i \in 1..Len(tokens') : i \in 1..Len(tokens) \/ i = Len(tokens) + 1
  BY <1>7, <1>10
<1>12. \A i \in 1..Len(tokens) : i \in 1..Len(tokens')
  BY <1>7, <1>10
<1>13. ParentsExist'
  BY <1>5, <1>7, <1>10, <1>11, <1>12 DEF RequestRefers, ParentsExist, RotationInv
<1>14. RotationRevokes'
  BY <1>5, <1>7, <1>10, <1>11, <1>12
     DEF RequestRefers, ParentsExist, RotationInv, RotationRevokes
<1>15. \A t \in Sessions : RequestRefers(t)'
  <2>1. RequestRefers(s)'
    BY <1>2 DEF RequestRefers, Idle
  <2> QED
    BY <1>2, <1>8, <2>1, RefersKept
<1> QED
  BY <1>2, <1>5, <1>7, <1>8, <1>9, <1>13, <1>14, <1>15 DEF RotationInv

LEMMA RedeemLoads ==
  ASSUME RotationInv, NEW s \in Sessions, RedeemLoadUser(s)
  PROVE  /\ RotationInv' /\ UNCHANGED authTables
         /\ req'[s] = [req[s] EXCEPT !.user = users[tokens[req[s].token].user]]
         /\ \A t \in Sessions \ {s} : req'[t] = req[t]
<1>1. req[s] # Idle /\ req[s] \in AuthRequest /\ req[s].op = "redeem"
  BY DEF RedeemLoadUser, Idle, RotationInv, RequestsOf
<1>2. req[s].token \in 1..Len(tokens) /\ req[s].token \in Nat
  BY <1>1 DEF RotationInv, RequestRefers, AuthTypeOK
<1>3. users[tokens[req[s].token].user] \in User
  <2>1. tokens[req[s].token] \in RefreshToken
    BY <1>2 DEF RotationInv, AuthTypeOK
  <2> QED
    BY <2>1 DEF RotationInv, AuthTypeOK, RefreshToken
<1>4. PICK r : r = [req[s] EXCEPT !.user = users[tokens[req[s].token].user]]
  OBVIOUS
<1>5. r \in AuthRequest /\ r.op = "redeem" /\ r.token = req[s].token
  BY <1>1, <1>3, <1>4 DEF AuthRequest
<1>6. Continue(s, r) /\ UNCHANGED authTables
  BY <1>4 DEF RedeemLoadUser
<1>7. RotationInv'
  BY <1>1, <1>2, <1>5, <1>6, ContinuesReading
<1> QED
  BY <1>1, <1>4, <1>5, <1>6, <1>7, Continues DEF RotationInv

LEMMA LogoutRotates ==
  ASSUME RotationInv, NEW s \in Sessions, LogoutCommit(s)
  PROVE  RotationInv'
<1>1. req[s] # Idle /\ req[s].op = "logout"
  BY DEF LogoutCommit, Idle
<1>2. req[s].token \in 1..Len(tokens)
  BY <1>1 DEF RotationInv, RequestRefers
<1>3. /\ RequestsOf(AuthRequest)' /\ OneRequest'
      /\ req'[s] = Idle /\ \A t \in Sessions \ {s} : req'[t] = req[t]
  BY <1>1, Continues DEF RotationInv, LogoutCommit, Finish
<1>4. TokensRevoked({req[s].token}) /\ users' = users /\ resets' = resets /\ hashes' = hashes
  BY <1>2, RevokeOne DEF RotationInv, LogoutCommit
<1>5. RowsKept /\ Len(tokens') = Len(tokens) /\ AuthTypeOK' /\ IssuedBounded'
  BY <1>4 DEF TokensRevoked, RotationInv, RowsKept, AuthTypeOK, IssuedBounded
<1>6. RequestRefers(s)'
  BY <1>3 DEF RequestRefers, Idle
<1> QED
  BY <1>3, <1>5, <1>6, RotationKept

LEMMA RedeemRotates ==
  ASSUME RotationInv, NEW s \in Sessions, RedeemCommit(s)
  PROVE  /\ RotationInv'
         /\ req[s].token \in 1..Len(tokens) /\ TokensRevoked({req[s].token})
         /\ req[s].user \in User
         /\ \/ req'[s] = Idle
            \/ req'[s] = [op |-> "issue", user |-> tokens[req[s].token].user,
                          parent |-> req[s].token, era |-> req[s].user.hashed_password]
         /\ \A t \in Sessions \ {s} : req'[t] = req[t]
<1>1. req[s] # Idle /\ req[s] \in AuthRequest /\ req[s].op = "redeem" /\ req[s].user # NULL
  BY DEF RedeemCommit, Idle, RotationInv, RequestsOf
<1>2. req[s].token \in 1..Len(tokens) /\ req[s].token \in Nat /\ req[s].user \in User
  BY <1>1 DEF RotationInv, RequestRefers, AuthTypeOK, AuthRequest
<1>3. tokens[req[s].token].user \in Users /\ req[s].user.hashed_password \in Nat
  <2>1. tokens[req[s].token] \in RefreshToken
    BY <1>2 DEF RotationInv, AuthTypeOK
  <2> QED
    BY <1>2, <2>1 DEF RefreshToken, User
<1>4. PICK i : i = [op |-> "issue", user |-> tokens[req[s].token].user,
                    parent |-> req[s].token, era |-> req[s].user.hashed_password]
  OBVIOUS
<1>5. i \in AuthRequest
  BY <1>2, <1>3, <1>4 DEF AuthRequest
<1>6. PICK r \in {i, Idle} : Continue(s, r)
  BY <1>4 DEF RedeemCommit
<1>7. /\ RequestsOf(AuthRequest)' /\ OneRequest'
      /\ req'[s] = r /\ \A t \in Sessions \ {s} : req'[t] = req[t]
  BY <1>1, <1>5, <1>6, Continues DEF RotationInv
<1>8. TokensRevoked({req[s].token}) /\ users' = users /\ resets' = resets /\ hashes' = hashes
  BY <1>2, RevokeOne DEF RotationInv, RedeemCommit
<1>9. RowsKept /\ Len(tokens') = Len(tokens) /\ AuthTypeOK' /\ IssuedBounded'
  BY <1>8 DEF TokensRevoked, RotationInv, RowsKept, AuthTypeOK, IssuedBounded
<1>10. RequestRefers(s)'
  BY <1>2, <1>4, <1>6, <1>7, <1>8 DEF RequestRefers, Idle, TokensRevoked
<1>11. RotationInv'
  BY <1>7, <1>9, <1>10, RotationKept
<1> QED
  BY <1>2, <1>4, <1>6, <1>7, <1>8, <1>11

LEMMA SelectsTokens ==
  ASSUME RotationInv, NEW s \in Sessions, SelectTokens(s)
  PROVE  /\ RotationInv' /\ UNCHANGED authTables
         /\ req'[s] = [req[s] EXCEPT !.revoke = unrevoked_tokens(req[s].user)]
         /\ req[s] \in AuthRequest /\ req[s].op \in {"change", "reset"}
         /\ \A t \in Sessions \ {s} : req'[t] = req[t]
<1>1. req[s] # Idle /\ req[s] \in AuthRequest /\ req[s].op \in {"change", "reset"}
  BY DEF SelectTokens, Idle, RotationInv, RequestsOf
<1>2. unrevoked_tokens(req[s].user) \in SUBSET (1..MaxIssued)
  <2>1. Len(tokens) \in Nat /\ Len(resets) \in Nat /\ hashes \in Nat
    BY DEF RotationInv, AuthTypeOK
  <2>2. Len(tokens) <= MaxIssued
    BY <2>1, AuthAssumption DEF RotationInv, IssuedBounded
  <2> QED
    BY <2>1, <2>2, AuthAssumption DEF unrevoked_tokens
<1>3. PICK r : r = [req[s] EXCEPT !.revoke = unrevoked_tokens(req[s].user)]
  OBVIOUS
<1>4. r \in AuthRequest /\ r.op = req[s].op /\ r.token = req[s].token
  BY <1>1, <1>2, <1>3 DEF AuthRequest
<1>5. r.op = "reset" => r.token \in 1..Len(resets)
  BY <1>4 DEF RotationInv, RequestRefers
<1>6. Continue(s, r) /\ UNCHANGED authTables
  BY <1>3 DEF SelectTokens
<1>7. RotationInv'
  BY <1>1, <1>4, <1>5, <1>6, ContinuesReading
<1> QED
  BY <1>1, <1>3, <1>4, <1>6, <1>7, Continues DEF RotationInv

LEMMA PasswordRotates ==
  ASSUME RotationInv, NEW s \in Sessions, PasswordCommit(s)
  PROVE  /\ RotationInv'
         /\ TokensRevoked(req[s].revoke)
         /\ req[s].user \in Users /\ req[s].op \in {"change", "reset"}
         /\ users' = [users EXCEPT ![req[s].user].hashed_password = hashes + 1]
         /\ Len(resets') = Len(resets)
         /\ req[s].op = "change" => resets' = resets
         /\ req[s].op = "reset" =>
              /\ req[s].token \in 1..Len(resets)
              /\ resets'[req[s].token].used
              /\ resets'[req[s].token].uses = resets[req[s].token].uses + 1
              /\ \A i \in 1..Len(resets) : i # req[s].token => resets'[i] = resets[i]
         /\ req'[s] = Idle /\ \A t \in Sessions \ {s} : req'[t] = req[t]
<1>1. /\ req[s] # Idle /\ req[s] \in AuthRequest /\ req[s].op \in {"change", "reset"}
      /\ req[s].user \in Users
  <2>1. /\ req[s] # Idle /\ req[s] \in AuthRequest /\ req[s].op \in {"change", "reset"}
    BY DEF PasswordCommit, Idle, RotationInv, RequestsOf
  <2> QED
    BY <2>1 DEF AuthRequest
<1>2. req[s].op = "reset" => req[s].token \in 1..Len(resets)
  BY DEF RotationInv, RequestRefers
<1>3. /\ RequestsOf(AuthRequest)' /\ OneRequest'
      /\ req'[s] = Idle /\ \A t \in Sessions \ {s} : req'[t] = req[t]
  BY <1>1, Continues DEF RotationInv, PasswordCommit, Finish
<1>4. TokensRevoked(req[s].revoke)
  BY RevokeAll DEF RotationInv, PasswordCommit
<1>5. /\ users' = [users EXCEPT ![req[s].user].hashed_password = hashes + 1]
      /\ hashes' = hashes + 1 /\ MayIssue
  BY DEF PasswordCommit
<1>6. users' \in [Users -> User] /\ hashes' \in Nat
  BY <1>1, <1>5 DEF RotationInv, AuthTypeOK, User
<1>7. /\ resets' \in Seq(PasswordResetToken) /\ Len(resets') = Len(resets)
      /\ req[s].op = "change" => resets' = resets
      /\ req[s].op = "reset" =>
           /\ resets'[req[s].token].used
           /\ resets'[req[s].token].uses = resets[req[s].token].uses + 1
           /\ \A i \in 1..Len(resets) : i # req[s].token => resets'[i] = resets[i]
  <2>1. CASE req[s].op = "reset"
    <3>1. resets' = [resets EXCEPT ![req[s].token].used = TRUE, ![req[s].token].uses = @ + 1]
      BY <2>1 DEF PasswordCommit
    <3> QED
      BY <1>2, <2>1, <3>1, UseReset DEF RotationInv
  <2>2. CASE req[s].op = "change"
    <3>1. resets' = resets
      BY <2>2 DEF PasswordCommit
    <3> QED
      BY <2>2, <3>1 DEF RotationInv, AuthTypeOK
  <2> QED
    BY <1>1, <2>1, <2>2
<1>8. RowsKept /\ Len(tokens') = Len(tokens) /\ AuthTypeOK'
  BY <1>4, <1>6, <1>7 DEF TokensRevoked, RotationInv, RowsKept, AuthTypeOK
<1>9. IssuedBounded'
  BY <1>5, <1>7, <1>8, AuthAssumption DEF MayIssue, IssuedBounded, RotationInv, AuthTypeOK
<1>10. RequestRefers(s)'
  BY <1>3 DEF RequestRefers, Idle
<1>11. RotationInv'
  BY <1>3, <1>8, <1>9, <1>10, RotationKept
<1> QED
  BY <1>1, <1>2, <1>3, <1>4, <1>5, <1>7, <1>11

\* The rows of both tables once a token has expired: nothing else changes.
RowsAged ==
    /\ Len(tokens') = Len(tokens) /\ Len(resets') = Len(resets)
    /\ \A i \in 1..Len(tokens) : /\ tokens'[i].user = tokens[i].user
                                 /\ tokens'[i].parent = tokens[i].parent
                                 /\ tokens'[i].era = tokens[i].era
                                 /\ tokens'[i].revoked = tokens[i].revoked
                                 /\ tokens[i].expired => tokens'[i].expired
    /\ \A i \in 1..Len(resets) :
         resets'[i].used = resets[i].used /\ resets'[i].uses = resets[i].uses

LEMMA ExpireRotates ==
  ASSUME RotationInv, Expire
  PROVE  RotationInv' /\ RowsAged /\ req' = req /\ overlapped' = overlapped /\ users' = users
<1>1. req' = req /\ overlapped' = overlapped /\ users' = users /\ hashes' = hashes
  BY DEF Expire
<1>2. RowsAged /\ AuthTypeOK'
  <2>1. ASSUME NEW t \in 1..Len(tokens), tokens' = [tokens EXCEPT ![t].expired = TRUE],
               resets' = resets
        PROVE  RowsAged /\ AuthTypeOK'
    BY <1>1, <2>1, ExpireOne DEF RotationInv, RowsAged, AuthTypeOK
  <2>2. ASSUME NEW k \in 1..Len(resets), resets' = [resets EXCEPT ![k].expired = TRUE],
               tokens' = tokens
        PROVE  RowsAged /\ AuthTypeOK'
    BY <1>1, <2>2, ExpireReset DEF RotationInv, RowsAged, AuthTypeOK
  <2> QED
    BY <2>1, <2>2 DEF Expire
<1>3. RowsKept /\ IssuedBounded'
  BY <1>1, <1>2 DEF RowsAged, RowsKept, RotationInv, IssuedBounded, AuthTypeOK
<1>4. RequestsOf(AuthRequest)' /\ OneRequest'
  BY <1>1 DEF RotationInv, RequestsOf, OneRequest
<1>5. \A t \in Sessions : RequestRefers(t)'
  BY <1>1, <1>2, <1>3, RefersKept
<1>6. ParentsExist'
  BY <1>2 DEF RowsAged, RotationInv, ParentsExist
<1>7. RotationRevokes'
  BY <1>2 DEF RowsAged, RotationInv, ParentsExist, RotationRevokes
<1> QED
  BY <1>1, <1>2, <1>3, <1>4, <1>5, <1>6, <1>7 DEF RotationInv

LEMMA AbortRotates ==
  ASSUME RotationInv, NEW s \in Sessions, Abort(s), UNCHANGED authTables
  PROVE  RotationInv' /\ req'[s] = Idle
<1>1. req[s] # Idle /\ Continue(s, Idle)
  BY DEF Abort, Finish
<1>2. RotationInv'
  BY <1>1, ContinuesReading DEF Idle
<1> QED
  BY <1>1, <1>2, Continues DEF RotationInv

LEMMA RotationStep ==
  ASSUME RotationInv, [AuthNext]_<<reqVars, authTables>>
  PROVE  RotationInv'
<1>1. CASE UNCHANGED <<reqVars, authTables>>
  BY <1>1 DEF reqVars, authTables, RotationInv, AuthTypeOK, RequestsOf, OneRequest,
     IssuedBounded, ParentsExist, RequestRefers, RotationRevokes
<1>2. CASE Expire
  BY <1>2, ExpireRotates
<1>3. ASSUME NEW s \in Sessions, NEW u \in Users, NEW a \in BOOLEAN,
             forgot_password(s, u) \/ set_user_active(s, u, a)
      PROVE  RotationInv'
  BY <1>3, ForgotRotates, SetActiveRotates
<1>4. ASSUME NEW s \in Sessions,
             \/ issue_refresh_token(s) \/ RedeemLoadUser(s) \/ RedeemCommit(s)
             \/ LogoutCommit(s) \/ SelectTokens(s) \/ PasswordCommit(s)
             \/ Abort(s) /\ UNCHANGED authTables
      PROVE  RotationInv'
  BY <1>4, IssueRotates, RedeemLoads, RedeemRotates, LogoutRotates, SelectsTokens,
     PasswordRotates, AbortRotates
<1> QED
  BY <1>1, <1>2, <1>3, <1>4, LoginRotates, RefreshRotates, ResetRotates DEF AuthNext

LEMMA RotationStart ==
  ASSUME RequestsInit, AuthInit
  PROVE  RotationInv
<1>1. users \in [Users -> User]
  <2>1. PICK b \in BOOLEAN : b = TRUE
    OBVIOUS
  <2>2. users = [u \in Users |-> [hashed_password |-> 0, is_active |-> b]]
    BY <2>1 DEF AuthInit
  <2> HIDE <2>1
  <2> QED
    BY <2>2 DEF User
<1>2. tokens = << >> /\ resets = << >> /\ hashes = 0
  BY DEF AuthInit
<1>3. AuthTypeOK /\ IssuedBounded /\ ParentsExist /\ RotationRevokes
  BY <1>1, <1>2, AuthAssumption DEF AuthTypeOK, IssuedBounded, ParentsExist, RotationRevokes
<1>4. RequestsOf(AuthRequest) /\ OneRequest /\ \A s \in Sessions : req[s] = Idle
  BY RequestsStart
<1>5. \A s \in Sessions : RequestRefers(s)
  BY <1>4 DEF RequestRefers, Idle
<1> QED
  BY <1>3, <1>4, <1>5 DEF RotationInv

LEMMA RotationInductive == AuthSpec => []RotationInv
BY RotationStart, RotationStep, PTL DEF AuthSpec

(* A refresh token that has a successor is revoked and of the same user,     *)
(* however refreshes, logouts, resets and failures interleave                *)
(* (redeem_refresh_token commits the revocation before the successor).       *)
THEOREM RotationAlwaysRevokes == AuthSpec => []RotationRevokes
BY RotationInductive, PTL DEF RotationInv

-----------------------------------------------------------------------------
(* Part 2: single use, and the sessions that a change of password ends. *)

\* What the tables promise while requests have not overlapped.
TablesSerial == UsesCounted /\ SingleUse /\ SessionsOfCurrentPassword

LEMMA SameTables ==
  ASSUME TablesSerial, UNCHANGED authTables
  PROVE  TablesSerial'
BY DEF TablesSerial, UsesCounted, SingleUse, RefreshSingleUse, ResetSingleUse,
   SessionsOfCurrentPassword, list_active_sessions,
   unrevoked_tokens, authTables

LEMMA IdleFresh ==
  ASSUME NEW s \in Sessions, req'[s] = Idle
  PROVE  RequestFresh(s)'
BY DEF RequestFresh, Idle

(* A request that begins: nothing else is under way, so it is enough that    *)
(* what it read is fresh.                                                    *)
LEMMA SerialBegins ==
  ASSUME RotationInv, SingleUseInv, NEW s \in Sessions, NEW r \in AuthRequest, Begin(s, r),
         UNCHANGED authTables, ~overlapped /\ req'[s] = r => RequestFresh(s)'
  PROVE  SingleUseInv'
<1> SUFFICES ASSUME ~overlapped'
             PROVE  TablesSerial' /\ \A t \in Sessions : RequestFresh(t)'
  BY DEF SingleUseInv, TablesSerial
<1>1. /\ req'[s] = r /\ \A t \in Sessions \ {s} : req'[t] = req[t]
      /\ ~overlapped /\ \A t \in Sessions : req[t] = Idle
  BY Begins DEF RotationInv
<1>2. TablesSerial'
  BY <1>1, SameTables DEF SingleUseInv, TablesSerial
<1>3. \A t \in Sessions : RequestFresh(t)'
  BY <1>1, IdleFresh
<1> QED
  BY <1>2, <1>3

(* A request that goes on is alone too. *)
LEMMA SerialContinues ==
  ASSUME RotationInv, SingleUseInv, NEW s \in Sessions, NEW r \in AuthRequest \cup {Idle},
         req[s] # Idle, Continue(s, r),
         ~overlapped => TablesSerial', ~overlapped /\ req'[s] = r => RequestFresh(s)'
  PROVE  SingleUseInv'
<1> SUFFICES ASSUME ~overlapped'
             PROVE  TablesSerial' /\ \A t \in Sessions : RequestFresh(t)'
  BY DEF SingleUseInv, TablesSerial
<1>1. /\ req'[s] = r /\ \A t \in Sessions \ {s} : req'[t] = req[t]
      /\ ~overlapped /\ \A t \in Sessions \ {s} : req[t] = Idle
  BY Continues DEF RotationInv
<1>2. \A t \in Sessions : RequestFresh(t)'
  BY <1>1, IdleFresh
<1> QED
  BY <1>1, <1>2

LEMMA LoginSerial ==
  ASSUME RotationInv, SingleUseInv, NEW s \in Sessions, NEW u \in Users, NEW p \in 0..hashes,
         login(s, u, p) \/ change_password(s, u, p)
  PROVE  SingleUseInv'
<1>1. hashes \in Nat
  BY DEF RotationInv, AuthTypeOK
<1>2. CASE login(s, u, p)
  <2>1. PICK r : r = [op |-> "issue", user |-> u, parent |-> 0, era |-> p]
    OBVIOUS
  <2>2. r \in AuthRequest /\ Begin(s, r) /\ UNCHANGED authTables
    BY <1>1, <1>2, <2>1 DEF AuthRequest, login
  <2>3. users'[u].hashed_password = p
    BY <1>2 DEF login, authenticate_user, verify_password, authTables
  <2>4. req'[s] = r => RequestFresh(s)'
    BY <2>1, <2>3 DEF RequestFresh
  <2> QED
    BY <2>2, <2>4, SerialBegins
<1>3. CASE change_password(s, u, p)
  <2>1. PICK r : r = [op |-> "change", user |-> u, token |-> 0, revoke |-> NULL]
    OBVIOUS
  <2>2. r \in AuthRequest /\ Begin(s, r) /\ UNCHANGED authTables
    BY <1>3, <2>1 DEF AuthRequest, change_password
  <2>3. req'[s] = r => RequestFresh(s)'
    BY <2>1 DEF RequestFresh
  <2> QED
    BY <2>2, <2>3, SerialBegins
<1> QED
  BY <1>2, <1>3

LEMMA RefreshSerial ==
  ASSUME RotationInv, SingleUseInv, NEW s \in Sessions, NEW t \in 1..Len(tokens),
         refresh(s, t) \/ logout(s, t)
  PROVE  SingleUseInv'
<1>1. t \in Nat
  BY DEF RotationInv, AuthTypeOK
<1>2. CASE refresh(s, t)
  <2>1. PICK r : r = [op |-> "redeem", token |-> t, user |-> NULL]
    OBVIOUS
  <2>2. r \in AuthRequest /\ Begin(s, r) /\ UNCHANGED authTables
    BY <1>1, <1>2, <2>1 DEF AuthRequest, refresh
  <2>3. ~tokens'[t].revoked
    BY <1>2 DEF refresh, Redeemable, authTables
  <2>4. req'[s] = r => RequestFresh(s)'
    BY <2>1, <2>3 DEF RequestFresh
  <2> QED
    BY <2>2, <2>4, SerialBegins
<1>3. CASE logout(s, t)
  <2>1. PICK r : r = [op |-> "logout", token |-> t]
    OBVIOUS
  <2>2. r \in AuthRequest /\ Begin(s, r) /\ UNCHANGED authTables
    BY <1>1, <1>3, <2>1 DEF AuthRequest, logout
  <2>3. req'[s] = r => RequestFresh(s)'
    BY <2>1 DEF RequestFresh
  <2> QED
    BY <2>2, <2>3, SerialBegins
<1> QED
  BY <1>2, <1>3

LEMMA ResetSerial ==
  ASSUME RotationInv, SingleUseInv, NEW s \in Sessions, NEW k \in 1..Len(resets),
         reset_password(s, k)
  PROVE  SingleUseInv'
<1>1. k \in Nat /\ resets[k].user \in Users
  <2>1. resets[k] \in PasswordResetToken /\ k \in Nat
    BY DEF RotationInv, AuthTypeOK
  <2> QED
    BY <2>1 DEF PasswordResetToken
<1>2. PICK r : r = [op |-> "reset", user |-> resets[k].user, token |-> k, revoke |-> NULL]
  OBVIOUS
<1>3. r \in AuthRequest /\ Begin(s, r) /\ UNCHANGED authTables
  BY <1>1, <1>2 DEF AuthRequest, reset_password
<1>4. ~resets'[k].used
  BY DEF reset_password, authTables
<1>5. req'[s] = r => RequestFresh(s)'
  BY <1>2, <1>4 DEF RequestFresh
<1> QED
  BY <1>3, <1>5, SerialBegins

(* create_password_reset_token and set_user_active are one step each. *)
LEMMA ForgotSerial ==
  ASSUME RotationInv, SingleUseInv, NEW s \in Sessions, NEW u \in Users, forgot_password(s, u)
  PROVE  SingleUseInv'
<1> SUFFICES ASSUME ~overlapped'
             PROVE  TablesSerial' /\ \A t \in Sessions : RequestFresh(t)'
  BY DEF SingleUseInv, TablesSerial
<1>1. req' = req /\ ~overlapped /\ \A t \in Sessions : req[t] = Idle
  BY Instants DEF RotationInv, forgot_password
<1>2. TablesSerial /\ users' = users /\ tokens' = tokens
  BY <1>1 DEF SingleUseInv, TablesSerial, forgot_password
<1>3. PICK x : x = [user |-> u, used |-> FALSE, expired |-> FALSE, uses |-> 0]
  OBVIOUS
<1>4. ~x.used /\ x.uses = 0
  BY <1>3
<1>5. resets' = Append(resets, x)
  BY <1>3 DEF forgot_password
<1> HIDE <1>3
<1>6. /\ Len(resets) \in Nat /\ Len(resets') = Len(resets) + 1
      /\ resets'[Len(resets) + 1] = x /\ \A i \in 1..Len(resets) : resets'[i] = resets[i]
  BY <1>5 DEF RotationInv, AuthTypeOK
<1>7. \A i \in 1..Len(resets') : i \in 1..Len(resets) \/ i = Len(resets) + 1
  BY <1>6
<1>8. UsesCounted'
  BY <1>2, <1>4, <1>6, <1>7 DEF TablesSerial, UsesCounted
<1>9. SingleUse'
  BY <1>2, <1>4, <1>6, <1>7 DEF TablesSerial, SingleUse, RefreshSingleUse, ResetSingleUse
<1>10. SessionsOfCurrentPassword'
  BY <1>2 DEF TablesSerial, SessionsOfCurrentPassword, list_active_sessions, unrevoked_tokens
<1> QED
  BY <1>1, <1>8, <1>9, <1>10, IdleFresh DEF TablesSerial

LEMMA SetActiveSerial ==
  ASSUME RotationInv, SingleUseInv, NEW s \in Sessions, NEW u \in Users, NEW a \in BOOLEAN,
         set_user_active(s, u, a)
  PROVE  SingleUseInv'
<1> SUFFICES ASSUME ~overlapped'
             PROVE  TablesSerial' /\ \A t \in Sessions : RequestFresh(t)'
  BY DEF SingleUseInv, TablesSerial
<1>1. req' = req /\ ~overlapped /\ \A t \in Sessions : req[t] = Idle
  BY Instants DEF RotationInv, set_user_active
<1>2. TablesSerial /\ resets' = resets /\ tokens' = tokens
  BY <1>1 DEF SingleUseInv, TablesSerial, set_user_active
<1>3. \A v \in Users : users'[v].hashed_password = users[v].hashed_password
  BY DEF set_user_active, RotationInv, AuthTypeOK, User
<1>4. UsesCounted' /\ SingleUse'
  BY <1>2 DEF TablesSerial, UsesCounted, SingleUse, RefreshSingleUse, ResetSingleUse
<1>5. SessionsOfCurrentPassword'
  BY <1>2, <1>3
     DEF TablesSerial, SessionsOfCurrentPassword, list_active_sessions, unrevoked_tokens
<1> QED
  BY <1>1, <1>4, <1>5, IdleFresh DEF TablesSerial

(* Revoking tokens leaves fewer sessions. *)
LEMMA FewerSessions ==
  ASSUME RotationInv, TablesSerial, NEW R, TokensRevoked(R), users' = users, resets' = resets
  PROVE  TablesSerial'
<1>1. UsesCounted' /\ SingleUse'
  BY DEF TablesSerial, UsesCounted, SingleUse, RefreshSingleUse, ResetSingleUse, TokensRevoked
<1>2. SessionsOfCurrentPassword'
  BY DEF TablesSerial, SessionsOfCurrentPassword, list_active_sessions, unrevoked_tokens,
     TokensRevoked
<1> QED
  BY <1>1, <1>2 DEF TablesSerial

LEMMA LogoutSerial ==
  ASSUME RotationInv, SingleUseInv, NEW s \in Sessions, LogoutCommit(s)
  PROVE  SingleUseInv'
<1>1. req[s] # Idle /\ req[s].op = "logout" /\ Continue(s, Idle)
  BY DEF LogoutCommit, Finish, Idle
<1>2. req[s].token \in 1..Len(tokens)
  BY <1>1 DEF RotationInv, RequestRefers
<1>3. TokensRevoked({req[s].token}) /\ users' = users /\ resets' = resets
  BY <1>2, RevokeOne DEF RotationInv, LogoutCommit
<1>4. ~overlapped => TablesSerial'
  BY <1>3, FewerSessions DEF SingleUseInv, TablesSerial
<1> QED
  BY <1>1, <1>4, IdleFresh, SerialContinues

LEMMA AbortSerial ==
  ASSUME RotationInv, SingleUseInv, NEW s \in Sessions, Abort(s), UNCHANGED authTables
  PROVE  SingleUseInv'
<1>1. ~overlapped => TablesSerial'
  BY SameTables DEF SingleUseInv, TablesSerial
<1> QED
  BY <1>1, IdleFresh, SerialContinues DEF Abort, Finish

LEMMA RedeemLoadSerial ==
  ASSUME RotationInv, SingleUseInv, NEW s \in Sessions, RedeemLoadUser(s)
  PROVE  SingleUseInv'
<1>1. req[s] # Idle /\ req[s] \in AuthRequest /\ req[s].op = "redeem"
  BY DEF RedeemLoadUser, Idle, RotationInv, RequestsOf
<1>2. PICK r : r = [req[s] EXCEPT !.user = users[tokens[req[s].token].user]]
  OBVIOUS
<1>3. /\ r.op = "redeem" /\ r.token = req[s].token
      /\ r.user = users[tokens[req[s].token].user]
  BY <1>1, <1>2 DEF AuthRequest
<1>4. req'[s] = r /\ UNCHANGED authTables /\ RotationInv' /\ Continue(s, r)
  BY <1>2, RedeemLoads DEF RedeemLoadUser
<1>5. r \in AuthRequest \cup {Idle}
  BY <1>4 DEF RotationInv, RequestsOf
<1>6. ~overlapped => TablesSerial' /\ ~tokens[req[s].token].revoked
  BY <1>1, <1>4, SameTables DEF SingleUseInv, TablesSerial, RequestFresh
<1>7. ~overlapped => RequestFresh(s)'
  BY <1>3, <1>4, <1>6 DEF RequestFresh, authTables
<1> QED
  BY <1>1, <1>4, <1>5, <1>6, <1>7, SerialContinues

LEMMA RedeemSerial ==
  ASSUME RotationInv, SingleUseInv, NEW s \in Sessions, RedeemCommit(s)
  PROVE  SingleUseInv'
<1>1. req[s] # Idle /\ req[s].op = "redeem" /\ req[s].user # NULL
  BY DEF RedeemCommit, Idle
<1>2. PICK r \in AuthRequest \cup {Idle} : Continue(s, r) /\ req'[s] = r
  <2>1. PICK r : Continue(s, r)
    BY DEF RedeemCommit
  <2>2. req'[s] = r /\ RotationInv'
    BY <2>1, RedeemRotates DEF Continue, RotationInv, RequestsOf
  <2> QED
    BY <2>1, <2>2 DEF RotationInv, RequestsOf
<1>3. /\ req[s].token \in 1..Len(tokens) /\ TokensRevoked({req[s].token})
      /\ \/ r = Idle
         \/ r = [op |-> "issue", user |-> tokens[req[s].token].user,
                 parent |-> req[s].token, era |-> req[s].user.hashed_password]
  BY <1>2, RedeemRotates
<1>4. users' = users /\ resets' = resets
  BY DEF RedeemCommit
<1>5. ~overlapped => TablesSerial'
  BY <1>3, <1>4, FewerSessions DEF SingleUseInv, TablesSerial
<1>6. ASSUME ~overlapped PROVE RequestFresh(s)'
  <2>1. RequestFresh(s)
    BY <1>6 DEF SingleUseInv
  <2>2. /\ ~tokens[req[s].token].revoked
        /\ req[s].user.hashed_password = users[tokens[req[s].token].user].hashed_password
    BY <1>1, <2>1 DEF RequestFresh
  <2>3. req[s].token # 0
    BY <1>3 DEF RotationInv, AuthTypeOK
  <2>4. \A t \in 1..Len(tokens) : tokens[t].parent # req[s].token
    BY <2>2, <2>3 DEF RotationInv, RotationRevokes
  <2>5. \A t \in 1..Len(tokens') : tokens'[t].parent # req[s].token
    BY <1>3, <2>4 DEF TokensRevoked
  <2> QED
    BY <1>2, <1>3, <1>4, <2>2, <2>5 DEF RequestFresh, Idle
<1> QED
  BY <1>1, <1>2, <1>5, <1>6, SerialContinues

LEMMA SelectSerial ==
  ASSUME RotationInv, SingleUseInv, NEW s \in Sessions, SelectTokens(s)
  PROVE  SingleUseInv'
<1>1. req[s] # Idle /\ req[s] \in AuthRequest /\ req[s].op \in {"change", "reset"}
  BY DEF SelectTokens, Idle, RotationInv, RequestsOf
<1>2. PICK r : r = [req[s] EXCEPT !.revoke = unrevoked_tokens(req[s].user)]
  OBVIOUS
<1>3. /\ r.op = req[s].op /\ r.token = req[s].token /\ r.user = req[s].user
      /\ r.revoke = unrevoked_tokens(req[s].user)
  BY <1>1, <1>2 DEF AuthRequest
<1>4. req'[s] = r /\ UNCHANGED authTables /\ RotationInv' /\ Continue(s, r)
  BY <1>2, SelectsTokens DEF SelectTokens
<1>5. r \in AuthRequest \cup {Idle}
  BY <1>4 DEF RotationInv, RequestsOf
<1>6. ~overlapped => TablesSerial' /\ (req[s].op = "reset" => ~resets[req[s].token].used)
  BY <1>1, <1>4, SameTables DEF SingleUseInv, TablesSerial, RequestFresh
<1>7. unrevoked_tokens(r.user)' = r.revoke
  BY <1>3, <1>4 DEF unrevoked_tokens, authTables
<1>8. ~overlapped => RequestFresh(s)'
  BY <1>1, <1>3, <1>4, <1>6, <1>7 DEF RequestFresh, authTables, unrevoked_tokens
<1> QED
  BY <1>1, <1>4, <1>5, <1>6, <1>8, SerialContinues

LEMMA IssueSerial ==
  ASSUME RotationInv, SingleUseInv, NEW s \in Sessions, issue_refresh_token(s)
  PROVE  SingleUseInv'
<1>1. req[s] # Idle /\ req[s].op = "issue" /\ Continue(s, Idle)
  BY DEF issue_refresh_token, Idle, Finish
<1>2. users' = users /\ resets' = resets
  BY DEF issue_refresh_token
<1>3. ASSUME ~overlapped PROVE TablesSerial'
  <2>1. TablesSerial /\ RequestFresh(s)
    BY <1>3 DEF SingleUseInv, TablesSerial
  <2>2. /\ Len(tokens') = Len(tokens) + 1 /\ Len(tokens) \in Nat
        /\ \A i \in 1..Len(tokens) : tokens'[i] = tokens[i]
        /\ tokens'[Len(tokens) + 1].user = req[s].user
        /\ tokens'[Len(tokens) + 1].parent = req[s].parent
        /\ tokens'[Len(tokens) + 1].era = req[s].era
    BY IssueRotates DEF RotationInv, AuthTypeOK
  <2>3. \A i \in 1..Len(tokens') : i \in 1..Len(tokens) \/ i = Len(tokens) + 1
    BY <2>2
  <2>4. UsesCounted'
    BY <1>2, <2>1 DEF TablesSerial, UsesCounted
  <2>5. SingleUse'
    BY <1>1, <1>2, <2>1, <2>2, <2>3
       DEF TablesSerial, SingleUse, RefreshSingleUse, ResetSingleUse, RequestFresh
  <2>6. SessionsOfCurrentPassword'
    <3> SUFFICES ASSUME NEW u \in Users, NEW t \in 1..Len(tokens'), tokens'[t].user = u,
                        ~tokens'[t].revoked, ~tokens'[t].expired
                 PROVE  tokens'[t].era = users[u].hashed_password
      BY <1>2 DEF SessionsOfCurrentPassword, list_active_sessions, unrevoked_tokens
    <3>1. CASE t \in 1..Len(tokens)
      <4>1. t \in list_active_sessions(u)
        BY <2>2, <3>1 DEF list_active_sessions, unrevoked_tokens
      <4> QED
        BY <2>1, <2>2, <3>1, <4>1 DEF TablesSerial, SessionsOfCurrentPassword
    <3>2. CASE t = Len(tokens) + 1
      BY <1>1, <2>1, <2>2, <3>2 DEF RequestFresh
    <3> QED
      BY <2>3, <3>1, <3>2
  <2> QED
    BY <2>4, <2>5, <2>6 DEF TablesSerial
<1> QED
  BY <1>1, <1>3, IdleFresh, SerialContinues

LEMMA PasswordSerial ==
  ASSUME RotationInv, SingleUseInv, NEW s \in Sessions, PasswordCommit(s)
  PROVE  SingleUseInv'
<1>1. /\ req[s] # Idle /\ req[s].op \in {"change", "reset"} /\ req[s].revoke # NULL
      /\ Continue(s, Idle)
  BY DEF PasswordCommit, Idle, Finish
<1>2. /\ TokensRevoked(req[s].revoke)
      /\ req[s].user \in Users
      /\ users' = [users EXCEPT ![req[s].user].hashed_password = hashes + 1]
      /\ Len(resets') = Len(resets)
      /\ req[s].op = "change" => resets' = resets
      /\ req[s].op = "reset" =>
           /\ req[s].token \in 1..Len(resets)
           /\ resets'[req[s].token].used
           /\ resets'[req[s].token].uses = resets[req[s].token].uses + 1
           /\ \A i \in 1..Len(resets) : i # req[s].token => resets'[i] = resets[i]
  BY PasswordRotates
<1>3. \A u \in Users \ {req[s].user} : users'[u] = users[u]
  BY <1>2 DEF RotationInv, AuthTypeOK
<1>4. ASSUME ~overlapped PROVE TablesSerial'
  <2>1. /\ TablesSerial /\ req[s].revoke = unrevoked_tokens(req[s].user)
        /\ req[s].op = "reset" => ~resets[req[s].token].used
    BY <1>1, <1>4 DEF SingleUseInv, TablesSerial, RequestFresh
  <2>2. UsesCounted'
    BY <1>1, <1>2, <2>1 DEF TablesSerial, UsesCounted
  <2>3. SingleUse'
    <3>1. \A t1, t2 \in 1..Len(tokens') :
            tokens'[t1].parent # 0 /\ tokens'[t1].parent = tokens'[t2].parent => t1 = t2
      BY <1>2, <2>1 DEF TokensRevoked, TablesSerial, SingleUse, RefreshSingleUse, ResetSingleUse
    <3>2. \A k \in 1..Len(resets') : resets'[k].uses <= 1
      BY <2>2 DEF UsesCounted
    <3> QED
      BY <3>1, <3>2 DEF SingleUse, RefreshSingleUse, ResetSingleUse
  <2>4. SessionsOfCurrentPassword'
    <3> SUFFICES ASSUME NEW u \in Users, NEW t \in 1..Len(tokens'), tokens'[t].user = u,
                        ~tokens'[t].revoked, ~tokens'[t].expired
                 PROVE  tokens'[t].era = users'[u].hashed_password
      BY DEF SessionsOfCurrentPassword, list_active_sessions, unrevoked_tokens
    <3>1. /\ t \in 1..Len(tokens) /\ tokens[t].user = u /\ ~tokens[t].revoked
          /\ ~tokens[t].expired /\ tokens'[t].era = tokens[t].era /\ t \notin req[s].revoke
      BY <1>2 DEF TokensRevoked
    <3>2. u # req[s].user /\ t \in list_active_sessions(u)
      BY <2>1, <3>1 DEF unrevoked_tokens, list_active_sessions
    <3> QED
      BY <1>3, <2>1, <3>1, <3>2 DEF TablesSerial, SessionsOfCurrentPassword
  <2> QED
    BY <2>2, <2>3, <2>4 DEF TablesSerial
<1> QED
  BY <1>1, <1>4, IdleFresh, SerialContinues

LEMMA ExpireSerial ==
  ASSUME RotationInv, SingleUseInv, Expire
  PROVE  SingleUseInv'
<1> SUFFICES ASSUME ~overlapped'
             PROVE  TablesSerial' /\ \A t \in Sessions : RequestFresh(t)'
  BY DEF SingleUseInv, TablesSerial
<1>1. RowsAged /\ req' = req /\ overlapped' = overlapped /\ users' = users
  BY ExpireRotates
<1>2. TablesSerial /\ \A t \in Sessions : RequestFresh(t) /\ RequestRefers(t)
  BY <1>1 DEF SingleUseInv, TablesSerial, RotationInv
<1>3. UsesCounted' /\ SingleUse'
  BY <1>1, <1>2 DEF RowsAged, TablesSerial, UsesCounted, SingleUse, RefreshSingleUse, ResetSingleUse
<1>4. SessionsOfCurrentPassword'
  BY <1>1, <1>2
     DEF RowsAged, TablesSerial, SessionsOfCurrentPassword, list_active_sessions, unrevoked_tokens
<1>5. \A u : unrevoked_tokens(u)' = unrevoked_tokens(u)
  BY <1>1 DEF RowsAged, unrevoked_tokens
<1>6. ASSUME NEW t \in Sessions PROVE RequestFresh(t)'
  BY <1>1, <1>2, <1>5 DEF RowsAged, RequestFresh, RequestRefers
<1> QED
  BY <1>3, <1>4, <1>6 DEF TablesSerial

LEMMA SingleUseStep ==
  ASSUME RotationInv, SingleUseInv, [AuthNext]_<<reqVars, authTables>>
  PROVE  SingleUseInv'
<1>1. CASE UNCHANGED <<reqVars, authTables>>
  <2>1. ~overlapped => TablesSerial'
    BY <1>1, SameTables DEF SingleUseInv, TablesSerial
  <2>2. \A t \in Sessions : RequestFresh(t) => RequestFresh(t)'
    BY <1>1 DEF reqVars, authTables, RequestFresh, unrevoked_tokens
  <2> QED
    BY <1>1, <2>1, <2>2 DEF SingleUseInv, TablesSerial, reqVars
<1>2. CASE Expire
  BY <1>2, ExpireSerial
<1>3. ASSUME NEW s \in Sessions, NEW u \in Users, NEW a \in BOOLEAN,
             forgot_password(s, u) \/ set_user_active(s, u, a)
      PROVE  SingleUseInv'
  BY <1>3, ForgotSerial, SetActiveSerial
<1>4. ASSUME NEW s \in Sessions,
             \/ issue_refresh_token(s) \/ RedeemLoadUser(s) \/ RedeemCommit(s)
             \/ LogoutCommit(s) \/ SelectTokens(s) \/ PasswordCommit(s)
             \/ Abort(s) /\ UNCHANGED authTables
      PROVE  SingleUseInv'
  BY <1>4, IssueSerial, RedeemLoadSerial, RedeemSerial, LogoutSerial, SelectSerial,
     PasswordSerial, AbortSerial
<1> QED
  BY <1>1, <1>2, <1>3, <1>4, LoginSerial, RefreshSerial, ResetSerial DEF AuthNext

LEMMA SingleUseInductive == AuthSpec => []SingleUseInv
<1>1. RequestsInit /\ AuthInit => SingleUseInv
  <2> SUFFICES ASSUME RequestsInit, AuthInit
               PROVE  TablesSerial /\ \A s \in Sessions : RequestFresh(s)
    BY DEF SingleUseInv, TablesSerial
  <2>1. \A s \in Sessions : req[s] = Idle
    BY RequestsStart
  <2>2. \A s \in Sessions : RequestFresh(s)
    BY <2>1 DEF RequestFresh, Idle
  <2>3. tokens = << >> /\ resets = << >>
    BY DEF AuthInit
  <2> QED
    BY <2>2, <2>3 DEF TablesSerial, UsesCounted, SingleUse, RefreshSingleUse, ResetSingleUse,
       SessionsOfCurrentPassword,
       list_active_sessions, unrevoked_tokens
<1> QED
  BY <1>1, RotationInductive, SingleUseStep, PTL DEF AuthSpec

(* Until two requests overlap a refresh token is exchanged at most once and  *)
(* a reset token is accepted at most once, whatever expires, fails or is     *)
(* switched off in between.                                                  *)
THEOREM TokensAreSingleUse == AuthSpec => []SingleUseIfSerial
BY SingleUseInductive, PTL DEF SingleUseInv, SingleUseIfSerial

(* Until two requests overlap, no session that list_active_sessions shows    *)
(* outlives the password it was opened under: change_password and            *)
(* reset_password revoke what logins and rotations issued.                   *)
THEOREM PasswordChangeEndsSessions == AuthSpec => []SessionsOfCurrentPasswordIfSerial
BY SingleUseInductive, PTL DEF SingleUseInv, SessionsOfCurrentPasswordIfSerial

=============================================================================
