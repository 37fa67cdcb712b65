---------------------------- MODULE TokenRotation ----------------------------
(***************************************************************************)
(* Refresh tokens: token.service.ts, and the requests of auth.service.ts    *)
(* that use it.  A token is a row; presenting it replaces it by a new one   *)
(* of the same family, in two statements without a transaction.  Requests   *)
(* interleave at every await and the process may die between statements.   *)
(*                                                                         *)
(* A token is its position in `tokens`, a family the position of its first  *)
(* token.  Secrets and access tokens are left out: a request whose secret    *)
(* does not verify changes nothing.  StaffAccounts has passwords, lockout    *)
(* and the accounts, of which this module knows which are inactive.        *)
(***************************************************************************)
EXTENDS Integers, Sequences

CONSTANTS
  User,
  Handler,        \* request handlers that can be in flight at once
  MaxTokens       \* bound on the tokens ever issued

VARIABLES
  tokens,         \* the refresh_tokens rows, oldest first
  expired,        \* tokens whose expires_at has passed
  inactive,       \* users whose account a manager has disabled
  work,           \* handler -> the request it handles
  held,           \* tokens that have been returned to a client
  ended           \* families somebody revoked, by logout, password or reuse

vars == <<tokens, expired, inactive, work, held, ended>>

NoToken == 0

Token == [user : User, family : Nat, revoked : BOOLEAN, replacedBy : Nat]

Idle == [step |-> "idle"]

\* `row` is the token's row as the request loaded it, `next` its successor.
Request ==
  [step : {"login", "revokeAll"}, user : User]
    \cup [step : {"refresh", "logout"}, token : Nat]
    \cup [step : {"reuse", "issue", "replace", "revoke"}, token : Nat, row : Token, next : Nat]
    \cup [step : {"respond"}, next : Nat]

Init ==
  /\ tokens = <<>>
  /\ expired = {}
  /\ inactive \in SUBSET User
  /\ work = [h \in Handler |-> Idle]
  /\ held = {}
  /\ ended = {}

-----------------------------------------------------------------------------
At(h, step) == work[h].step = step

Goes(h, request) == work' = [work EXCEPT ![h] = request]

Family(f) == {t \in DOMAIN tokens : tokens[t].family = f}

Row(user, family, revoked, replacedBy) ==
  [user |-> user, family |-> family, revoked |-> revoked, replacedBy |-> replacedBy]

NewRow(user, family) == Row(user, family, FALSE, NoToken)

FaultySaved(row, next) == Row(row.user, row.family, row.revoked, next)  \* as loaded

\* save writes every column in which the loaded entity differs from the row, so
\* that the row becomes the entity: as loaded, revoked, with this replacedBy.
Saved(row, next) == Row(row.user, row.family, TRUE, next)

Revoked(row) == Row(row.user, row.family, TRUE, row.replacedBy)

\* UPDATE ... SET revoked = true: one statement, over the rows there are.
RevokeWhere(matches) ==
  tokens' = [t \in DOMAIN tokens |->
               IF t \in matches THEN Revoked(tokens[t]) ELSE tokens[t]]

-----------------------------------------------------------------------------
(* Login: the account is checked, and a family begins. *)

BeginLogin(h, u) ==
  /\ At(h, "idle")
  /\ u \notin inactive
  /\ Goes(h, [step |-> "login", user |-> u])
  /\ UNCHANGED <<tokens, expired, inactive, held, ended>>

Responding(next) == [step |-> "respond", next |-> next]

IssueForLogin(h) ==
  LET id == Len(tokens) + 1
  IN  /\ At(h, "login")
      /\ id <= MaxTokens
      /\ tokens' = Append(tokens, NewRow(work[h].user, id))
      /\ Goes(h, Responding(id))
      /\ UNCHANGED <<expired, inactive, held, ended>>

\* What was issued or rotated is committed; the client has the token, and the
\* cookie, when the response reaches it.
Respond(h) ==
  /\ At(h, "respond")
  /\ held' = held \cup {work[h].next}
  /\ Goes(h, Idle)
  /\ UNCHANGED <<tokens, expired, inactive, ended>>

-----------------------------------------------------------------------------
(* Refresh *)

\* claimsFromRefresh, before the token itself is looked at.
BeginRefresh(h, t) ==
  /\ At(h, "idle")
  /\ t \in held
  /\ tokens[t].user \notin inactive
  /\ Goes(h, [step |-> "refresh", token |-> t])
  /\ UNCHANGED <<tokens, expired, inactive, held, ended>>

FaultyVerdict(t) == IF t \in expired THEN "refused" ELSE "issue"      \* no reuse check

\* Which way a loaded token goes.
Verdict(t) ==
  IF tokens[t].revoked THEN "reuse" ELSE IF t \in expired THEN "refused" ELSE "issue"

\* A request goes on with the row it has loaded.
Loaded(step, t, row, next) == [step |-> step, token |-> t, row |-> row, next |-> next]

Load(h) ==
  LET t == work[h].token
  IN  /\ At(h, "refresh")
      /\ Goes(h, IF Verdict(t) = "refused" THEN Idle
                 ELSE Loaded(Verdict(t), t, tokens[t], NoToken))
      /\ UNCHANGED <<tokens, expired, inactive, held, ended>>

RevokeFamily(h) ==
  LET family == work[h].row.family
  IN  /\ At(h, "reuse")
      /\ RevokeWhere(Family(family))
      /\ ended' = ended \cup {family}
      /\ Goes(h, Idle)
      /\ UNCHANGED <<expired, inactive, held>>

FaultyFamilyOf(row) == Len(tokens) + 1      \* every token begins a family

FamilyOf(row) == row.family

FaultyIssue(h) ==            \* the old token is revoked before the new one is stored
  /\ At(h, "issue")
  /\ RevokeWhere({work[h].token})
  /\ Goes(h, Loaded("replace", work[h].token, work[h].row, Len(tokens) + 1))
  /\ UNCHANGED <<expired, inactive, held, ended>>

Issue(h) ==
  LET row == work[h].row
      id == Len(tokens) + 1
  IN  /\ At(h, "issue")
      /\ id <= MaxTokens
      /\ tokens' = Append(tokens, NewRow(row.user, FamilyOf(row)))
      /\ Goes(h, Loaded("replace", work[h].token, row, id))
      /\ UNCHANGED <<expired, inactive, held, ended>>

Replace(h) ==
  LET w == work[h]
  IN  /\ At(h, "replace")
      /\ tokens' = [tokens EXCEPT ![w.token] = Saved(w.row, w.next)]
      /\ Goes(h, Responding(w.next))
      /\ UNCHANGED <<expired, inactive, held, ended>>

-----------------------------------------------------------------------------
(* Logout and password change *)

BeginLogout(h, t) ==
  /\ At(h, "idle")
  /\ t \in held
  /\ Goes(h, [step |-> "logout", token |-> t])
  /\ UNCHANGED <<tokens, expired, inactive, held, ended>>

LoadForLogout(h) ==
  LET t == work[h].token
  IN  /\ At(h, "logout")
      /\ Goes(h, IF tokens[t].revoked THEN Idle
                 ELSE Loaded("revoke", t, tokens[t], NoToken))
      /\ UNCHANGED <<tokens, expired, inactive, held, ended>>

\* The entity was loaded with a replacedBy, which is saved again.
Revoke(h) ==
  LET w == work[h]
  IN  /\ At(h, "revoke")
      /\ tokens' = [tokens EXCEPT ![w.token] = Saved(w.row, w.row.replacedBy)]
      /\ ended' = ended \cup {w.row.family}
      /\ Goes(h, Idle)
      /\ UNCHANGED <<expired, inactive, held>>

\* The password is saved; the tokens are revoked in a statement of its own.
ChangePassword(h, u) ==
  /\ At(h, "idle")
  /\ Goes(h, [step |-> "revokeAll", user |-> u])
  /\ UNCHANGED <<tokens, expired, inactive, held, ended>>

RevokeAllForUser(h) ==
  LET own == {t \in DOMAIN tokens : tokens[t].user = work[h].user}
  IN  /\ At(h, "revokeAll")
      /\ RevokeWhere(own)
      /\ ended' = ended \cup {tokens[t].family : t \in own}
      /\ Goes(h, Idle)
      /\ UNCHANGED <<expired, inactive, held>>

-----------------------------------------------------------------------------
(* Accounts, time, and failures *)

\* UsersService.update with isActive.
SetActive(u) ==
  /\ inactive' = IF u \in inactive THEN inactive \ {u} ELSE inactive \cup {u}
  /\ UNCHANGED <<tokens, expired, work, held, ended>>

Expire(t) ==
  /\ t \notin expired
  /\ expired' = expired \cup {t}
  /\ UNCHANGED <<tokens, inactive, work, held, ended>>

\* A statement fails, the process dies, or the response is lost: what has been
\* written stays.
Fail(h) ==
  /\ ~ At(h, "idle")
  /\ Goes(h, Idle)
  /\ UNCHANGED <<tokens, expired, inactive, held, ended>>

Next ==
  \/ \E h \in Handler, u \in User : BeginLogin(h, u) \/ ChangePassword(h, u)
  \/ \E h \in Handler, t \in held : BeginRefresh(h, t) \/ BeginLogout(h, t)
  \/ \E h \in Handler :
       \/ IssueForLogin(h) \/ Respond(h)
       \/ Load(h) \/ RevokeFamily(h) \/ Issue(h) \/ Replace(h)
       \/ LoadForLogout(h) \/ Revoke(h)
       \/ RevokeAllForUser(h)
       \/ Fail(h)
  \/ \E u \in User : SetActive(u)
  \/ \E t \in DOMAIN tokens : Expire(t)

Spec == Init /\ [][Next]_vars

-----------------------------------------------------------------------------
(* Properties *)

TypeOK ==
  /\ tokens \in Seq(Token)
  /\ expired \subseteq DOMAIN tokens
  /\ inactive \subseteq User
  /\ work \in [Handler -> Request \cup {Idle}]
  /\ held \subseteq DOMAIN tokens
  /\ ended \subseteq DOMAIN tokens

\* A family is one login of one user: a token's family begins with a token of
\* that user at or before it, and its successor is a later token of the same
\* family and user, whatever rotations overlap (refresh-token.entity.ts:21-32).
LineageSound ==
  \A t \in DOMAIN tokens :
    LET row == tokens[t]
        first == tokens[row.family]
        successor == tokens[row.replacedBy]
    IN  /\ row.family \in 1 .. t /\ first.family = row.family /\ first.user = row.user
        /\ row.replacedBy # NoToken =>
             /\ row.replacedBy \in t + 1 .. Len(tokens)
             /\ successor.family = row.family /\ successor.user = row.user

\* A token strands its client when presenting it again would revoke the family:
\* it is revoked, nobody asked for that, and the client has not received its
\* successor and no response is about to bring it.
Stranding(t) ==
  /\ tokens[t].revoked
  /\ tokens[t].family \notin ended
  /\ tokens[t].replacedBy \notin held
  /\ ~ \E h \in Handler : At(h, "respond") /\ work[h].next = tokens[t].replacedBy

\* The response with the successor of t is lost, or its handler dies.
LosesResponse(t) ==
  \E h \in Handler :
    /\ At(h, "respond") /\ work[h].next = tokens[t].replacedBy
    /\ Fail(h)

\* Only the loss of a response whose rotation is committed strands a client
\* (token.service.ts:117-119, auth.controller.ts:62-64); no failure between the
\* two statements and no overlapping refresh or logout does (:113-128).
OnlyLostResponseStrands ==
  [][\A t \in DOMAIN tokens : Stranding(t)' => Stranding(t) \/ LosesResponse(t)]_vars

\* A revoked token stays revoked, although two handlers may save rows they
\* loaded before the revocation (token.service.ts:115-128).
RevocationIsFinal ==
  [][\A t \in DOMAIN tokens : tokens[t].revoked => tokens'[t].revoked]_vars

\* A family in which no token is live any more, and no rotation of a token
\* loaded live is under way, has no live token ever again: nobody can continue a
\* login that was logged out, revoked or stolen (token.service.ts:103-113).
Alive(f) ==
  \/ \E t \in Family(f) : ~ tokens[t].revoked
  \/ \E h \in Handler : At(h, "issue") /\ work[h].row.family = f

DeadFamiliesStayDead ==
  [][\A t \in DOMAIN tokens : Alive(tokens[t].family)' => Alive(tokens[t].family)]_vars

=============================================================================
