------------------------- MODULE TokenRotationProofs -------------------------
(* Token chains, for any users, handlers and number of tokens. *)
EXTENDS TokenRotation, TLAPS

\* `next` can be the successor of t: a later token of its family and user.
Follows(t, next) ==
  /\ next \in t + 1 .. Len(tokens)
  /\ tokens[next].family = tokens[t].family
  /\ tokens[next].user = tokens[t].user

\* What a request has loaded describes a token there is, and the row that it
\* will save is as good as the one there.
LoadedOK(h) ==
  /\ work[h].token \in DOMAIN tokens
  /\ work[h].row.user = tokens[work[h].token].user
  /\ work[h].row.family = tokens[work[h].token].family
  /\ work[h].row.replacedBy # NoToken => Follows(work[h].token, work[h].row.replacedBy)
  /\ work[h].step = "replace" => Follows(work[h].token, work[h].next)

WorkOK(h) ==
  /\ work[h].step \in {"refresh", "logout"} => work[h].token \in DOMAIN tokens
  /\ work[h].step \in {"reuse", "issue", "replace", "revoke"} => LoadedOK(h)
  /\ work[h].step = "respond" => work[h].next \in DOMAIN tokens

TokenInv ==
  /\ TypeOK
  /\ LineageSound
  /\ \A h \in Handler : WorkOK(h)

-----------------------------------------------------------------------------
(* What the writes of the table do *)

LEMMA RowTyped ==
  ASSUME NEW user \in User, NEW family \in Nat, NEW revoked \in BOOLEAN, NEW replacedBy \in Nat
  PROVE  /\ Row(user, family, revoked, replacedBy) \in Token
         /\ Row(user, family, revoked, replacedBy).user = user
         /\ Row(user, family, revoked, replacedBy).family = family
         /\ Row(user, family, revoked, replacedBy).revoked = revoked
         /\ Row(user, family, revoked, replacedBy).replacedBy = replacedBy
BY DEF Row, Token

LEMMA TokenFields ==
  ASSUME tokens \in Seq(Token), NEW t \in DOMAIN tokens
  PROVE  /\ tokens[t] \in Token
         /\ tokens[t].user \in User /\ tokens[t].family \in Nat
         /\ tokens[t].revoked \in BOOLEAN /\ tokens[t].replacedBy \in Nat
         /\ t \in 1 .. Len(tokens) /\ t \in Nat
<1>1. tokens[t] \in Token
  OBVIOUS
<1> QED
  BY <1>1 DEF Token

\* UPDATE ... SET revoked = true
LEMMA RevokeWhereEffect ==
  ASSUME tokens \in Seq(Token), NEW matches, RevokeWhere(matches)
  PROVE  /\ tokens' \in Seq(Token) /\ Len(tokens') = Len(tokens)
         /\ DOMAIN tokens' = DOMAIN tokens
         /\ \A t \in DOMAIN tokens :
              /\ tokens'[t].user = tokens[t].user /\ tokens'[t].family = tokens[t].family
              /\ tokens'[t].replacedBy = tokens[t].replacedBy
              /\ tokens'[t].revoked = (tokens[t].revoked \/ t \in matches)
<1>1. ASSUME NEW t \in DOMAIN tokens
      PROVE  /\ tokens'[t] \in Token
             /\ tokens'[t].user = tokens[t].user /\ tokens'[t].family = tokens[t].family
             /\ tokens'[t].replacedBy = tokens[t].replacedBy
             /\ tokens'[t].revoked = (tokens[t].revoked \/ t \in matches)
  <2>1. /\ tokens[t] \in Token
        /\ tokens[t].user \in User /\ tokens[t].family \in Nat
        /\ tokens[t].revoked \in BOOLEAN /\ tokens[t].replacedBy \in Nat
    BY TokenFields
  <2>2. tokens'[t] = IF t \in matches THEN Revoked(tokens[t]) ELSE tokens[t]
    BY DEF RevokeWhere
  <2>3. /\ Revoked(tokens[t]) \in Token
        /\ Revoked(tokens[t]).user = tokens[t].user
        /\ Revoked(tokens[t]).family = tokens[t].family
        /\ Revoked(tokens[t]).revoked = TRUE
        /\ Revoked(tokens[t]).replacedBy = tokens[t].replacedBy
    BY <2>1 DEF Revoked, Row, Token
  <2> QED
    BY <2>1, <2>2, <2>3
<1>2. DOMAIN tokens = 1 .. Len(tokens) /\ Len(tokens) \in Nat
  OBVIOUS
<1>3. DOMAIN tokens' = 1 .. Len(tokens) /\ tokens' = [t \in 1 .. Len(tokens) |-> tokens'[t]]
  BY <1>2 DEF RevokeWhere
<1>4. tokens' \in [1 .. Len(tokens) -> Token]
  BY <1>1, <1>2, <1>3
<1>5. tokens' \in Seq(Token) /\ Len(tokens') = Len(tokens)
  BY <1>2, <1>4
<1> QED
  BY <1>1, <1>2, <1>3, <1>5

\* save of a loaded row
LEMMA SaveEffect ==
  ASSUME tokens \in Seq(Token), NEW t \in DOMAIN tokens, NEW row \in Token,
         tokens' = [tokens EXCEPT ![t] = row]
  PROVE  /\ tokens' \in Seq(Token) /\ Len(tokens') = Len(tokens)
         /\ DOMAIN tokens' = DOMAIN tokens
         /\ tokens'[t] = row
         /\ \A i \in DOMAIN tokens \ {t} : tokens'[i] = tokens[i]
OBVIOUS

\* INSERT
LEMMA AppendEffect ==
  ASSUME tokens \in Seq(Token), NEW row \in Token, tokens' = Append(tokens, row)
  PROVE  /\ tokens' \in Seq(Token) /\ Len(tokens') = Len(tokens) + 1
         /\ DOMAIN tokens \subseteq DOMAIN tokens'
         /\ DOMAIN tokens' = DOMAIN tokens \cup {Len(tokens) + 1}
         /\ Len(tokens) + 1 \notin DOMAIN tokens
         /\ tokens'[Len(tokens) + 1] = row
         /\ \A i \in DOMAIN tokens : tokens'[i] = tokens[i]
OBVIOUS
-----------------------------------------------------------------------------
\* A step that keeps what there is, user and family of each token, keeps who can
\* follow whom and what waiting requests know.
Kept ==
  /\ DOMAIN tokens \subseteq DOMAIN tokens'
  /\ Len(tokens') \in Nat /\ Len(tokens') >= Len(tokens)
  /\ \A t \in DOMAIN tokens :
       tokens'[t].user = tokens[t].user /\ tokens'[t].family = tokens[t].family

LEMMA FollowsKept ==
  ASSUME tokens \in Seq(Token), Kept, NEW t \in DOMAIN tokens, NEW next, Follows(t, next)
  PROVE  Follows(t, next)'
<1>1. /\ next \in t + 1 .. Len(tokens) /\ t \in 1 .. Len(tokens)
      /\ DOMAIN tokens = 1 .. Len(tokens) /\ Len(tokens) \in Nat
  BY DEF Follows
<1>2. next \in DOMAIN tokens /\ next \in t + 1 .. Len(tokens')
  BY <1>1 DEF Kept
<1> QED
  BY <1>2 DEF Follows, Kept

LEMMA WorkKept ==
  ASSUME tokens \in Seq(Token), Kept, NEW h, WorkOK(h), work'[h] = work[h]
  PROVE  WorkOK(h)'
<1>1. ASSUME work[h].step \in {"reuse", "issue", "replace", "revoke"}
      PROVE  LoadedOK(h)'
  <2>1. LoadedOK(h) /\ work[h].token \in DOMAIN tokens
    BY <1>1 DEF WorkOK, LoadedOK
  <2>2. \A next : Follows(work[h].token, next) => Follows(work[h].token, next)'
    BY <2>1, FollowsKept
  <2> QED
    BY <2>1, <2>2 DEF LoadedOK, Kept
<1> QED
  BY <1>1 DEF WorkOK, Kept

-----------------------------------------------------------------------------
(* The invariant is inductive *)

LEMMA GoesEffect ==
  ASSUME work \in [Handler -> Request \cup {Idle}], NEW h \in Handler,
         NEW request \in Request \cup {Idle}, Goes(h, request)
  PROVE  /\ work' \in [Handler -> Request \cup {Idle}]
         /\ work'[h] = request
         /\ \A g \in Handler \ {h} : work'[g] = work[g]
BY DEF Goes

LEMMA LoadedTyped ==
  ASSUME NEW step \in {"reuse", "issue", "replace", "revoke"},
         NEW t \in Nat, NEW row \in Token, NEW next \in Nat
  PROVE  /\ Loaded(step, t, row, next) \in Request
         /\ Loaded(step, t, row, next).step = step
         /\ Loaded(step, t, row, next).token = t
         /\ Loaded(step, t, row, next).row = row
         /\ Loaded(step, t, row, next).next = next
BY DEF Loaded, Request

LEMMA RespondingTyped ==
  ASSUME NEW next \in Nat
  PROVE  /\ Responding(next) \in Request
         /\ Responding(next).step = "respond" /\ Responding(next).next = next
BY DEF Responding, Request

\* What a request at one of the later steps is.
LEMMA LoadedRequest ==
  ASSUME TypeOK, NEW h \in Handler,
         work[h].step \in {"reuse", "issue", "replace", "revoke"}
  PROVE  /\ work[h].token \in Nat /\ work[h].row \in Token /\ work[h].next \in Nat
         /\ work[h].row.user \in User /\ work[h].row.family \in Nat
         /\ work[h].row.revoked \in BOOLEAN /\ work[h].row.replacedBy \in Nat
<1>1. work[h] \in Request \cup {Idle}
  BY DEF TypeOK
<1>2. work[h] \in [step : {"reuse", "issue", "replace", "revoke"},
                   token : Nat, row : Token, next : Nat]
  BY <1>1 DEF Request, Idle
<1> QED
  BY <1>2 DEF Token

\* A step of h that leaves the table of tokens alone.
LEMMA QuietStep ==
  ASSUME TokenInv, UNCHANGED <<tokens, ended>>, NEW h \in Handler,
         work' \in [Handler -> Request \cup {Idle}],
         \A g \in Handler \ {h} : work'[g] = work[g],
         WorkOK(h)', expired' \subseteq DOMAIN tokens, inactive' \subseteq User,
         held' \subseteq DOMAIN tokens
  PROVE  TokenInv'
<1>1. TypeOK' /\ LineageSound'
  BY DEF TokenInv, TypeOK, LineageSound
<1>2. Kept
  BY DEF TokenInv, TypeOK, Kept
<1>3. \A g \in Handler : WorkOK(g)'
  BY <1>2, WorkKept DEF TokenInv, TypeOK
<1> QED
  BY <1>1, <1>3 DEF TokenInv

LEMMA QuietActions ==
  ASSUME TokenInv, NEW h \in Handler,
         \/ \E u \in User : BeginLogin(h, u) \/ ChangePassword(h, u)
         \/ \E t \in held : BeginRefresh(h, t) \/ BeginLogout(h, t)
         \/ Respond(h) \/ Fail(h)
  PROVE  TokenInv'
<1> DEFINE kind == [step : {"login", "revokeAll"}, user : User]
                     \cup [step : {"refresh", "logout"}, token : DOMAIN tokens] \cup {Idle}
<1>1. PICK request \in kind : Goes(h, request)
  BY DEF BeginLogin, ChangePassword, BeginRefresh, BeginLogout, Respond, Fail, TokenInv, TypeOK
<1>2. UNCHANGED <<tokens, ended, expired, inactive>> /\ held' \subseteq DOMAIN tokens
  BY DEF BeginLogin, ChangePassword, BeginRefresh, BeginLogout, Respond, Fail, At, TokenInv,
         TypeOK, WorkOK
<1>3. request \in Request \cup {Idle}
  BY DEF Request, TokenInv, TypeOK
<1>4. /\ request.step \notin {"reuse", "issue", "replace", "revoke", "respond"}
      /\ request.step \in {"refresh", "logout"} => request.token \in DOMAIN tokens
  BY DEF Idle
<1>5. /\ work' \in [Handler -> Request \cup {Idle}] /\ work'[h] = request
      /\ \A g \in Handler \ {h} : work'[g] = work[g]
  BY <1>1, <1>3, GoesEffect DEF TokenInv, TypeOK
<1>6. WorkOK(h)'
  BY <1>2, <1>4, <1>5 DEF WorkOK
<1> QED
  BY <1>2, <1>5, <1>6, QuietStep DEF TokenInv, TypeOK

\* A token is loaded.
LEMMA LoadActions ==
  ASSUME TokenInv, NEW h \in Handler, Load(h) \/ LoadForLogout(h)
  PROVE  TokenInv'
<1> DEFINE t == work[h].token
<1>1. t \in DOMAIN tokens
  BY DEF Load, LoadForLogout, At, TokenInv, WorkOK
<1>2. /\ tokens[t] \in Token /\ t \in Nat
      /\ tokens[t].replacedBy # NoToken => Follows(t, tokens[t].replacedBy)
  BY <1>1, TokenFields DEF TokenInv, TypeOK, LineageSound, Follows
<1>3. PICK request : /\ Goes(h, request)
                     /\ \/ request = Idle
                        \/ \E step \in {"reuse", "issue", "revoke"} :
                             request = Loaded(step, t, tokens[t], NoToken)
  BY DEF Load, LoadForLogout, Verdict
<1>4. UNCHANGED <<tokens, held, ended, expired, inactive>>
  BY DEF Load, LoadForLogout
<1>5. request = Idle \/ /\ request \in Request
                        /\ request.step \in {"reuse", "issue", "revoke"}
                        /\ request.token = t /\ request.row = tokens[t]
  BY <1>2, <1>3, LoadedTyped DEF NoToken
<1>6. /\ work' \in [Handler -> Request \cup {Idle}] /\ work'[h] = request
      /\ \A g \in Handler \ {h} : work'[g] = work[g]
  BY <1>3, <1>5, GoesEffect DEF TokenInv, TypeOK
<1>7. WorkOK(h)'
  <2>1. CASE request = Idle
    BY <1>6, <2>1 DEF WorkOK, Idle
  <2>2. CASE /\ request.step \in {"reuse", "issue", "revoke"}
             /\ request.token = t /\ request.row = tokens[t]
    <3>1. PICK token, row : token = t /\ row = tokens[t]
      OBVIOUS
    <3>2. /\ work'[h].token = token /\ work'[h].row = row
          /\ work'[h].step \in {"reuse", "issue", "revoke"}
      BY <1>6, <2>2, <3>1
    <3>3. /\ token \in DOMAIN tokens'
          /\ row.user = tokens'[token].user /\ row.family = tokens'[token].family
      BY <1>1, <1>4, <3>1
    <3>4. row.replacedBy # NoToken => Follows(token, row.replacedBy)'
      BY <1>2, <1>4, <3>1 DEF Follows
    <3>5. (work[h].row.replacedBy # NoToken
             => Follows(work[h].token, work[h].row.replacedBy))'
      BY <3>2, <3>4 DEF Follows
    <3>6. LoadedOK(h)'
      BY <3>2, <3>3, <3>5 DEF LoadedOK
    <3> QED
      BY <3>2, <3>6 DEF WorkOK
  <2> QED
    BY <1>5, <2>1, <2>2
<1> QED
  BY <1>4, <1>6, <1>7, QuietStep DEF TokenInv, TypeOK

\* LineageSound, of one token.
Linked(t) ==
  /\ tokens[t].family \in 1 .. t
  /\ tokens[tokens[t].family].family = tokens[t].family
  /\ tokens[tokens[t].family].user = tokens[t].user
  /\ tokens[t].replacedBy # NoToken => Follows(t, tokens[t].replacedBy)

\* A step of h that writes the table of tokens.
LEMMA WriteStep ==
  ASSUME TokenInv, Kept, tokens' \in Seq(Token), NEW h \in Handler,
         work' \in [Handler -> Request \cup {Idle}],
         \A g \in Handler \ {h} : work'[g] = work[g],
         WorkOK(h)', expired' = expired, inactive' = inactive,
         held' = held, ended' \subseteq DOMAIN tokens',
         \A t \in DOMAIN tokens' : Linked(t)'
  PROVE  TokenInv'
<1>1. TypeOK'
  BY DEF TokenInv, TypeOK, Kept
<1>2. LineageSound'
  BY DEF LineageSound, Linked, Follows
<1>3. \A g \in Handler : WorkOK(g)'
  BY WorkKept DEF TokenInv, TypeOK
<1> QED
  BY <1>1, <1>2, <1>3 DEF TokenInv

\* A token that was there is still linked if its successor is the old one or
\* one that can follow it.
LEMMA StillLinked ==
  ASSUME TokenInv, Kept, NEW t \in DOMAIN tokens,
         \/ tokens'[t].replacedBy = tokens[t].replacedBy
         \/ tokens'[t].replacedBy = NoToken
         \/ \E next : tokens'[t].replacedBy = next /\ Follows(t, next)'
  PROVE  Linked(t)'
<1>1. Linked(t)
  BY DEF TokenInv, LineageSound, Linked, Follows
<1>2. t \in 1 .. Len(tokens) /\ DOMAIN tokens = 1 .. Len(tokens) /\ Len(tokens) \in Nat
  BY DEF TokenInv, TypeOK
<1>3. tokens[t].family \in DOMAIN tokens
  BY <1>1, <1>2 DEF Linked
<1>4. /\ tokens'[t].family \in 1 .. t
      /\ tokens'[tokens'[t].family].family = tokens'[t].family
      /\ tokens'[tokens'[t].family].user = tokens'[t].user
  BY <1>1, <1>3 DEF Linked, Kept
<1>5. \A next : tokens[t].replacedBy = next /\ next # NoToken => Follows(t, next)'
  BY <1>1, FollowsKept DEF Linked, TokenInv, TypeOK
<1>6. tokens'[t].replacedBy # NoToken => \E next : tokens'[t].replacedBy = next /\ Follows(t, next)'
  BY <1>5
<1> QED
  BY <1>4, <1>6 DEF Linked, Follows

\* UPDATE ... SET revoked = true, for all the families that it touches.
LEMMA RevokeWhereStep ==
  ASSUME TokenInv, NEW h \in Handler, NEW matches, RevokeWhere(matches), Goes(h, Idle),
         ended' = ended \cup {tokens[t].family : t \in matches \cap DOMAIN tokens},
         UNCHANGED <<expired, inactive, held>>
  PROVE  TokenInv'
<1>1. /\ tokens' \in Seq(Token) /\ Len(tokens') = Len(tokens)
      /\ DOMAIN tokens' = DOMAIN tokens
      /\ \A t \in DOMAIN tokens :
           /\ tokens'[t].user = tokens[t].user /\ tokens'[t].family = tokens[t].family
           /\ tokens'[t].replacedBy = tokens[t].replacedBy
           /\ tokens'[t].revoked = (tokens[t].revoked \/ t \in matches)
  BY RevokeWhereEffect DEF TokenInv, TypeOK
<1>2. Kept
  BY <1>1 DEF Kept, TokenInv, TypeOK
<1>3. /\ work' \in [Handler -> Request \cup {Idle}] /\ work'[h] = Idle
      /\ \A g \in Handler \ {h} : work'[g] = work[g]
  BY GoesEffect DEF TokenInv, TypeOK
<1>4. WorkOK(h)'
  BY <1>3 DEF WorkOK, Idle
<1>5. \A t \in DOMAIN tokens : tokens[t].family \in DOMAIN tokens
  BY TokenFields DEF TokenInv, TypeOK, LineageSound
<1>6. ended' \subseteq DOMAIN tokens'
  BY <1>1, <1>5 DEF TokenInv, TypeOK
<1>7. \A t \in DOMAIN tokens' : Linked(t)'
  BY <1>1, <1>2, StillLinked
<1> QED
  BY <1>1, <1>2, <1>3, <1>4, <1>6, <1>7, WriteStep

LEMMA RevokeActions ==
  ASSUME TokenInv, NEW h \in Handler, RevokeFamily(h) \/ RevokeAllForUser(h)
  PROVE  TokenInv'
<1>1. CASE RevokeFamily(h)
  <2> DEFINE family == work[h].row.family
  <2>1. /\ work[h].token \in Family(family)
        /\ Family(family) \subseteq DOMAIN tokens
        /\ \A t \in Family(family) : tokens[t].family = family
    BY <1>1 DEF RevokeFamily, At, TokenInv, WorkOK, LoadedOK, Family
  <2>2. {tokens[t].family : t \in Family(family) \cap DOMAIN tokens} = {family}
    BY <2>1
  <2> QED
    BY <1>1, <2>2, RevokeWhereStep DEF RevokeFamily
<1>2. CASE RevokeAllForUser(h)
  <2> DEFINE own == {t \in DOMAIN tokens : tokens[t].user = work[h].user}
  <2>1. own \cap DOMAIN tokens = own
    OBVIOUS
  <2> QED
    BY <1>2, <2>1, RevokeWhereStep DEF RevokeAllForUser
<1> QED
  BY <1>1, <1>2

\* INSERT of a token that begins a family or continues one.
LEMMA AppendStep ==
  ASSUME TokenInv, NEW h \in Handler, NEW user \in User, NEW family \in Nat,
         tokens' = Append(tokens, NewRow(user, family)),
         \/ family = Len(tokens) + 1
         \/ /\ family \in DOMAIN tokens
            /\ tokens[family].family = family /\ tokens[family].user = user,
         work' \in [Handler -> Request \cup {Idle}],
         \A g \in Handler \ {h} : work'[g] = work[g],
         WorkOK(h)', UNCHANGED <<expired, inactive, held, ended>>
  PROVE  TokenInv'
<1>0. PICK id : id = Len(tokens) + 1
  OBVIOUS
<1>1. /\ tokens \in Seq(Token) /\ id \in Nat /\ id \in 1 .. id
      /\ DOMAIN tokens = 1 .. Len(tokens) /\ Len(tokens) \in Nat
  BY <1>0 DEF TokenInv, TypeOK
<1>2. /\ NewRow(user, family) \in Token
      /\ NewRow(user, family).user = user /\ NewRow(user, family).family = family
      /\ NewRow(user, family).revoked = FALSE /\ NewRow(user, family).replacedBy = NoToken
  BY DEF NewRow, Row, Token, NoToken
<1>3. /\ tokens' \in Seq(Token) /\ Len(tokens') = id
      /\ DOMAIN tokens' = DOMAIN tokens \cup {id}
      /\ tokens'[id] = NewRow(user, family)
      /\ \A i \in DOMAIN tokens : tokens'[i] = tokens[i]
  BY <1>0, <1>1, <1>2, AppendEffect
<1>4. Kept
  BY <1>1, <1>3 DEF Kept
<1>5. Linked(id)'
  BY <1>0, <1>1, <1>2, <1>3 DEF Linked
<1>6. \A t \in DOMAIN tokens' : Linked(t)'
  BY <1>3, <1>4, <1>5, StillLinked
<1>7. ended' \subseteq DOMAIN tokens'
  BY <1>3 DEF TokenInv, TypeOK
<1> QED
  BY <1>3, <1>4, <1>6, <1>7, WriteStep

LEMMA IssueActions ==
  ASSUME TokenInv, NEW h \in Handler, IssueForLogin(h) \/ Issue(h)
  PROVE  TokenInv'
<1>0. PICK id : id = Len(tokens) + 1
  OBVIOUS
<1>1. CASE IssueForLogin(h)
  <2>1. work[h].user \in User
    BY <1>1 DEF IssueForLogin, At, TokenInv, TypeOK, Request, Idle
  <2>2. id \in Nat
    BY <1>0 DEF TokenInv, TypeOK
  <2>3. /\ Responding(id) \in Request
        /\ Responding(id).step = "respond" /\ Responding(id).next = id
    BY <2>2, RespondingTyped
  <2>4. /\ work' \in [Handler -> Request \cup {Idle}] /\ work'[h] = Responding(id)
        /\ \A g \in Handler \ {h} : work'[g] = work[g]
    BY <1>0, <1>1, <2>3, GoesEffect DEF IssueForLogin, TokenInv, TypeOK
  <2>5. id \in DOMAIN tokens'
    <3>1. NewRow(work[h].user, id) \in Token
      BY <2>1, <2>2 DEF NewRow, Row, Token, NoToken
    <3> QED
      BY <1>0, <1>1, <3>1, AppendEffect DEF IssueForLogin, TokenInv, TypeOK
  <2>6. WorkOK(h)'
    BY <2>3, <2>4, <2>5 DEF WorkOK
  <2> QED
    BY <1>0, <1>1, <2>1, <2>2, <2>4, <2>6, AppendStep DEF IssueForLogin
<1>2. CASE Issue(h)
  <2>0. PICK token, row : token = work[h].token /\ row = work[h].row
    OBVIOUS
  <2> DEFINE request == Loaded("replace", token, row, id)
  <2>1. LoadedOK(h) /\ token \in DOMAIN tokens
    BY <2>0, <1>2 DEF Issue, At, TokenInv, WorkOK, LoadedOK
  <2>2. /\ token \in Nat /\ row \in Token /\ id \in Nat
        /\ row.user \in User /\ row.family \in Nat
    BY <1>0, <2>0, <1>2, LoadedRequest DEF Issue, At, TokenInv, TypeOK
  <2>3. /\ row.family \in DOMAIN tokens
        /\ tokens[row.family].family = row.family /\ tokens[row.family].user = row.user
    BY <2>0, <2>1, <2>2 DEF LoadedOK, TokenInv, TypeOK, LineageSound
  <2>4. /\ request \in Request /\ request.step = "replace" /\ request.token = token
        /\ request.row = row /\ request.next = id
    BY <2>2, LoadedTyped
  <2>5. /\ work' \in [Handler -> Request \cup {Idle}] /\ work'[h] = request
        /\ \A g \in Handler \ {h} : work'[g] = work[g]
    BY <1>0, <2>0, <1>2, <2>4, GoesEffect DEF Issue, TokenInv, TypeOK
  <2>6. /\ NewRow(row.user, row.family) \in Token
        /\ NewRow(row.user, row.family).user = row.user
        /\ NewRow(row.user, row.family).family = row.family
    BY <2>2 DEF NewRow, Row, Token, NoToken
  <2>7. /\ Len(tokens') = id /\ DOMAIN tokens' = DOMAIN tokens \cup {id}
        /\ tokens'[id] = NewRow(row.user, row.family)
        /\ \A i \in DOMAIN tokens : tokens'[i] = tokens[i]
    BY <1>0, <2>0, <1>2, <2>6, AppendEffect DEF Issue, FamilyOf, TokenInv, TypeOK
  <2>8. Kept
    BY <1>0, <2>2, <2>7 DEF Kept, TokenInv, TypeOK
  <2>9. Follows(token, id)'
    BY <1>0, <2>0, <2>1, <2>2, <2>4, <2>5, <2>6, <2>7 DEF Follows, LoadedOK, TokenInv, TypeOK
  <2>10. row.replacedBy # NoToken => Follows(token, row.replacedBy)'
    <3>1. \A next : row.replacedBy = next /\ next # NoToken => Follows(token, next)'
      BY <2>0, <2>1, <2>4, <2>5, <2>8, FollowsKept DEF LoadedOK, TokenInv, TypeOK
    <3> QED
      BY <2>4, <2>5, <3>1 DEF Follows
  <2>11. WorkOK(h)'
    <3>1. /\ token \in DOMAIN tokens'
          /\ row.user = tokens'[token].user /\ row.family = tokens'[token].family
      BY <2>0, <2>1, <2>8 DEF LoadedOK, Kept
    <3>2. work'[h].token = token /\ work'[h].row = row /\ work'[h].next = id
      BY <2>4, <2>5
    <3> HIDE DEF request
    <3>3. (work[h].row.replacedBy # NoToken
             => Follows(work[h].token, work[h].row.replacedBy))'
      BY <2>10, <3>2 DEF Follows
    <3>4. Follows(work[h].token, work[h].next)'
      BY <2>9, <3>2 DEF Follows
    <3>5. LoadedOK(h)'
      BY <3>1, <3>2, <3>3, <3>4 DEF LoadedOK
    <3> QED
      BY <2>4, <2>5, <3>5 DEF WorkOK
  <2> QED
    BY <2>0, <1>2, <2>2, <2>3, <2>5, <2>11, AppendStep DEF Issue, FamilyOf
<1> QED
  BY <1>1, <1>2

\* save of a token's row as it was loaded, revoked, by a request that is then done.
LEMMA SaveStep ==
  ASSUME TokenInv, NEW h \in Handler, work[h].step \in {"replace", "revoke"},
         NEW next \in Nat, next # NoToken => Follows(work[h].token, next),
         tokens' = [tokens EXCEPT ![work[h].token] = Saved(work[h].row, next)],
         NEW request \in Request \cup {Idle}, Goes(h, request),
         request = Idle \/ (request.step = "respond" /\ request.next \in DOMAIN tokens),
         UNCHANGED <<expired, inactive, held>>, ended' \subseteq DOMAIN tokens
  PROVE  TokenInv'
<1> DEFINE token == work[h].token
           row == work[h].row
<1>1. LoadedOK(h) /\ token \in DOMAIN tokens
  BY DEF TokenInv, WorkOK, LoadedOK
<1>2. row \in Token /\ row.user \in User /\ row.family \in Nat
  BY LoadedRequest DEF TokenInv
<1>3. /\ Saved(row, next) \in Token
      /\ Saved(row, next).user = row.user /\ Saved(row, next).family = row.family
      /\ Saved(row, next).revoked = TRUE /\ Saved(row, next).replacedBy = next
  BY <1>2 DEF Saved, Row, Token
<1>4. /\ tokens' \in Seq(Token) /\ Len(tokens') = Len(tokens)
      /\ DOMAIN tokens' = DOMAIN tokens
      /\ tokens'[token] = Saved(row, next)
      /\ \A i \in DOMAIN tokens \ {token} : tokens'[i] = tokens[i]
  BY <1>1, <1>3, SaveEffect DEF TokenInv, TypeOK
<1>5. Kept
  BY <1>1, <1>3, <1>4 DEF Kept, LoadedOK, TokenInv, TypeOK
<1>6. /\ work' \in [Handler -> Request \cup {Idle}] /\ work'[h] = request
      /\ \A g \in Handler \ {h} : work'[g] = work[g]
  BY GoesEffect DEF TokenInv, TypeOK
<1>7. WorkOK(h)'
  BY <1>4, <1>6 DEF WorkOK, Idle
<1>8. ASSUME NEW t \in DOMAIN tokens PROVE Linked(t)'
  <2>1. CASE t = token
    <3>1. tokens'[t].replacedBy = NoToken \/ \E n : tokens'[t].replacedBy = n /\ Follows(t, n)'
      <4>1. next # NoToken => Follows(t, next)'
        BY <1>1, <1>5, <2>1, FollowsKept DEF TokenInv, TypeOK
      <4> QED
        BY <1>3, <1>4, <2>1, <4>1
    <3> QED
      BY <1>5, <3>1, StillLinked
  <2>2. CASE t # token
    <3>1. tokens'[t] = tokens[t]
      BY <1>4, <2>2
    <3> QED
      BY <1>5, <3>1, StillLinked
  <2> QED
    BY <2>1, <2>2
<1> QED
  BY <1>4, <1>5, <1>6, <1>7, <1>8, WriteStep

LEMMA SaveActions ==
  ASSUME TokenInv, NEW h \in Handler, Replace(h) \/ Revoke(h)
  PROVE  TokenInv'
<1>1. work[h].step \in {"replace", "revoke"} /\ LoadedOK(h)
  BY DEF Replace, Revoke, At, TokenInv, WorkOK
<1>2. /\ work[h].next \in Nat /\ work[h].row.replacedBy \in Nat
      /\ work[h].row.family \in DOMAIN tokens
  <2>1. /\ work[h].next \in Nat /\ work[h].row.replacedBy \in Nat
    BY <1>1, LoadedRequest DEF TokenInv
  <2>2. work[h].token \in DOMAIN tokens /\ tokens[work[h].token].family \in DOMAIN tokens
    BY <1>1 DEF LoadedOK, TokenInv, TypeOK, LineageSound
  <2> QED
    BY <1>1, <2>1, <2>2 DEF LoadedOK
<1>3. CASE Replace(h)
  <2>1. Follows(work[h].token, work[h].next) /\ work[h].next \in DOMAIN tokens
    BY <1>1, <1>3 DEF Replace, At, LoadedOK, Follows, TokenInv, TypeOK
  <2>2. /\ Responding(work[h].next) \in Request \cup {Idle}
        /\ Responding(work[h].next).step = "respond"
        /\ Responding(work[h].next).next \in DOMAIN tokens
    BY <1>2, <2>1, RespondingTyped
  <2> QED
    BY <1>1, <1>2, <1>3, <2>1, <2>2, SaveStep DEF Replace, TokenInv, TypeOK
<1>4. CASE Revoke(h)
  BY <1>1, <1>2, <1>4, SaveStep DEF Revoke, LoadedOK, TokenInv, TypeOK
<1> QED
  BY <1>3, <1>4

LEMMA SurroundingActions ==
  ASSUME TokenInv, (\E u \in User : SetActive(u)) \/ (\E t \in DOMAIN tokens : Expire(t))
  PROVE  TokenInv'
<1>1. UNCHANGED <<tokens, work, held, ended>>
  BY DEF SetActive, Expire
<1>2. expired' \subseteq DOMAIN tokens /\ inactive' \subseteq User
  BY DEF SetActive, Expire, TokenInv, TypeOK
<1>3. Kept
  BY <1>1 DEF Kept, TokenInv, TypeOK
<1>4. \A h \in Handler : WorkOK(h)'
  BY <1>1, <1>3, WorkKept DEF TokenInv, TypeOK
<1>5. TypeOK' /\ LineageSound'
  BY <1>1, <1>2 DEF TokenInv, TypeOK, LineageSound
<1> QED
  BY <1>4, <1>5 DEF TokenInv

LEMMA TokenInvInit == Init => TokenInv
<1> SUFFICES ASSUME Init PROVE TokenInv
  OBVIOUS
<1>1. tokens \in Seq(Token) /\ DOMAIN tokens = {}
  BY DEF Init
<1>2. \A h \in Handler : work[h] = Idle
  BY DEF Init
<1> QED
  BY <1>1, <1>2 DEF Init, TokenInv, TypeOK, LineageSound, WorkOK, Idle

LEMMA TokenInvStep == TokenInv /\ [Next]_vars => TokenInv'
<1> SUFFICES ASSUME TokenInv, [Next]_vars PROVE TokenInv'
  OBVIOUS
<1>1. CASE UNCHANGED vars
  BY <1>1 DEF vars, TokenInv, TypeOK, LineageSound, WorkOK, LoadedOK, Follows
<1>2. CASE Next
  BY <1>2, QuietActions, LoadActions, RevokeActions, IssueActions, SaveActions,
     SurroundingActions DEF Next
<1> QED
  BY <1>1, <1>2

LEMMA TokensInvariant == Spec => []TokenInv
BY TokenInvInit, TokenInvStep, PTL DEF Spec

-----------------------------------------------------------------------------
(* Theorems *)

\* The table, and what requests know of it, stay well typed.
THEOREM TokensTypeCorrect == Spec => []TypeOK
<1>1. TokenInv => TypeOK
  BY DEF TokenInv
<1> QED
  BY <1>1, TokensInvariant, PTL

\* A family is one login of one user, and successors lead forward in it,
\* whatever rotations overlap and wherever they fail.
THEOREM LineageIsSound == Spec => []LineageSound
<1>1. TokenInv => LineageSound
  BY DEF TokenInv
<1> QED
  BY <1>1, TokensInvariant, PTL

\* What a step leaves of a token: it keeps its family and user, and is revoked if
\* it was.
LEMMA RevokedStays ==
  ASSUME TokenInv, [Next]_vars, NEW t \in DOMAIN tokens
  PROVE  /\ t \in DOMAIN tokens'
         /\ tokens'[t].family = tokens[t].family /\ tokens'[t].user = tokens[t].user
         /\ tokens[t].revoked => tokens'[t].revoked
<1> USE DEF TokenInv
<1>1. CASE UNCHANGED tokens
  BY <1>1
<1>2. ASSUME NEW matches, RevokeWhere(matches)
      PROVE  /\ t \in DOMAIN tokens'
             /\ tokens'[t].family = tokens[t].family /\ tokens'[t].user = tokens[t].user
             /\ tokens[t].revoked => tokens'[t].revoked
  BY <1>2, RevokeWhereEffect DEF TypeOK
<1>3. ASSUME NEW user \in User, NEW family \in Nat, tokens' = Append(tokens, NewRow(user, family))
      PROVE  t \in DOMAIN tokens' /\ tokens'[t] = tokens[t]
  <2>1. NewRow(user, family) \in Token
    BY DEF NewRow, Row, Token, NoToken
  <2> QED
    BY <1>3, <2>1, AppendEffect DEF TypeOK
<1>4. ASSUME NEW h \in Handler, Replace(h) \/ Revoke(h)
      PROVE  /\ t \in DOMAIN tokens'
             /\ tokens'[t].family = tokens[t].family /\ tokens'[t].user = tokens[t].user
             /\ tokens'[t].revoked = (t = work[h].token \/ tokens[t].revoked)
  <2>1. PICK next : tokens' = [tokens EXCEPT ![work[h].token] = Saved(work[h].row, next)]
    BY <1>4 DEF Replace, Revoke
  <2>2. /\ work[h].row.family = tokens[work[h].token].family
        /\ work[h].row.user = tokens[work[h].token].user
    BY <1>4 DEF Replace, Revoke, At, WorkOK, LoadedOK
  <2>3. /\ Saved(work[h].row, next).family = work[h].row.family
        /\ Saved(work[h].row, next).user = work[h].row.user
        /\ Saved(work[h].row, next).revoked = TRUE
    BY DEF Saved, Row
  <2>4. tokens[t].revoked \in BOOLEAN
    BY TokenFields DEF TypeOK
  <2>5. t = work[h].token => tokens'[t] = Saved(work[h].row, next)
    BY <2>1
  <2>6. t # work[h].token => tokens'[t] = tokens[t]
    BY <2>1
  <2>7. DOMAIN tokens' = DOMAIN tokens
    BY <2>1
  <2> QED
    BY <2>2, <2>3, <2>4, <2>5, <2>6, <2>7
<1>5. ASSUME NEW h \in Handler, IssueForLogin(h) \/ Issue(h)
      PROVE  \E user \in User, family \in Nat : tokens' = Append(tokens, NewRow(user, family))
  <2>1. CASE IssueForLogin(h)
    BY <2>1 DEF IssueForLogin, At, TypeOK, Request, Idle
  <2>2. CASE Issue(h)
    BY <2>2, LoadedRequest DEF Issue, At, FamilyOf
  <2> QED
    BY <1>5, <2>1, <2>2
<1>6. ASSUME NEW h \in Handler, RevokeFamily(h) \/ RevokeAllForUser(h)
      PROVE  \E matches : RevokeWhere(matches)
  BY <1>6 DEF RevokeFamily, RevokeAllForUser
<1>7. \/ UNCHANGED tokens
      \/ \E h \in Handler : \/ IssueForLogin(h) \/ Issue(h) \/ Replace(h) \/ Revoke(h)
                            \/ RevokeFamily(h) \/ RevokeAllForUser(h)
  BY DEF Next, vars, BeginLogin, ChangePassword, BeginRefresh, BeginLogout, Load,
         LoadForLogout, Respond, Fail, SetActive, Expire
<1> QED
  BY <1>1, <1>2, <1>3, <1>4, <1>5, <1>6, <1>7

\* Two handlers that save rows loaded before a revocation do not undo it.
THEOREM RevokedForEver == Spec => RevocationIsFinal
<1>1. TokenInv /\ [Next]_vars =>
        [\A t \in DOMAIN tokens : tokens[t].revoked => tokens'[t].revoked]_vars
  BY RevokedStays
<1> QED
  BY <1>1, TokensInvariant, PTL DEF Spec, RevocationIsFinal

\* A response is under way until it is given or lost.
LEMMA ResponseStays ==
  ASSUME TokenInv, Next, NEW h \in Handler, At(h, "respond"), ~ Fail(h)
  PROVE  \/ At(h, "respond")' /\ work'[h].next = work[h].next
         \/ work[h].next \in held'
<1> USE DEF TokenInv
<1>1. CASE Respond(h)
  BY <1>1 DEF Respond
<1>2. CASE work'[h] = work[h]
  BY <1>2 DEF At
<1>3. ASSUME NEW g \in Handler, NEW request, Goes(g, request), g # h
      PROVE  work'[h] = work[h]
  BY <1>3 DEF Goes, TypeOK
<1>4. ASSUME NEW g \in Handler,
             \/ IssueForLogin(g) \/ Load(g) \/ RevokeFamily(g) \/ Issue(g) \/ Replace(g)
             \/ LoadForLogout(g) \/ Revoke(g) \/ RevokeAllForUser(g) \/ Respond(g) \/ Fail(g)
             \/ \E u \in User : BeginLogin(g, u) \/ ChangePassword(g, u)
             \/ \E t \in held : BeginRefresh(g, t) \/ BeginLogout(g, t)
      PROVE  Respond(h) \/ work'[h] = work[h]
  <2>1. CASE g = h
    BY <1>4, <2>1 DEF IssueForLogin, Load, RevokeFamily, Issue, Replace, LoadForLogout, Revoke,
                      RevokeAllForUser, BeginLogin, ChangePassword, BeginRefresh, BeginLogout, At
  <2>2. CASE g # h
    <3>1. \E request : Goes(g, request)
      BY <1>4 DEF IssueForLogin, Load, RevokeFamily, Issue, Replace, LoadForLogout, Revoke,
                  RevokeAllForUser, Respond, Fail, BeginLogin, ChangePassword, BeginRefresh,
                  BeginLogout
    <3> QED
      BY <1>3, <2>2, <3>1
  <2> QED
    BY <2>1, <2>2
<1>5. (\E u \in User : SetActive(u)) \/ (\E t \in DOMAIN tokens : Expire(t)) => UNCHANGED work
  BY DEF SetActive, Expire
<1> QED
  BY <1>1, <1>2, <1>4, <1>5 DEF Next

\* What a step does to a token that it does not leave as it is: the token is
\* replaced and the response with its successor is under way, or its family ends.
LEMMA TokenChanges ==
  ASSUME TokenInv, Next, NEW t \in DOMAIN tokens
  PROVE  \/ tokens'[t] = tokens[t]
         \/ tokens'[t].family \in ended'
         \/ \E h \in Handler : At(h, "respond")' /\ work'[h].next = tokens'[t].replacedBy
<1> USE DEF TokenInv
<1>0. /\ tokens'[t].family = tokens[t].family
      /\ ended \subseteq ended'
  <2>1. ended \subseteq ended'
    BY DEF Next, BeginLogin, ChangePassword, BeginRefresh, BeginLogout, IssueForLogin, Respond,
           Load, RevokeFamily, Issue, Replace, LoadForLogout, Revoke, RevokeAllForUser, Fail,
           SetActive, Expire
  <2> QED
    BY <2>1, RevokedStays DEF vars
<1>1. CASE UNCHANGED tokens
  BY <1>1
<1>2. ASSUME NEW h \in Handler, IssueForLogin(h) \/ Issue(h) PROVE tokens'[t] = tokens[t]
  <2>1. PICK row : tokens' = Append(tokens, row)
    BY <1>2 DEF IssueForLogin, Issue
  <2> QED
    BY <2>1 DEF TypeOK
<1>3. ASSUME NEW h \in Handler, Replace(h)
      PROVE  \/ tokens'[t] = tokens[t]
             \/ At(h, "respond")' /\ work'[h].next = tokens'[t].replacedBy
  <2>1. work'[h] = Responding(work[h].next)
    BY <1>3 DEF Replace, Goes, TypeOK
  <2>2. t = work[h].token => tokens'[t] = Saved(work[h].row, work[h].next)
    BY <1>3 DEF Replace
  <2>3. t # work[h].token => tokens'[t] = tokens[t]
    BY <1>3 DEF Replace
  <2> QED
    BY <2>1, <2>2, <2>3 DEF Responding, At, Saved, Row
<1>4. ASSUME NEW h \in Handler, Revoke(h)
      PROVE  tokens'[t] = tokens[t] \/ tokens'[t].family \in ended'
  <2>1. t = work[h].token => tokens[t].family = work[h].row.family
    BY <1>4 DEF Revoke, At, WorkOK, LoadedOK
  <2>2. t # work[h].token => tokens'[t] = tokens[t]
    BY <1>4 DEF Revoke
  <2> QED
    BY <1>0, <1>4, <2>1, <2>2 DEF Revoke
<1>5. ASSUME NEW h \in Handler, RevokeFamily(h) \/ RevokeAllForUser(h)
      PROVE  tokens'[t] = tokens[t] \/ tokens'[t].family \in ended'
  <2>1. ASSUME NEW matches, RevokeWhere(matches), t \notin matches
        PROVE  tokens'[t] = tokens[t]
    BY <2>1 DEF RevokeWhere
  <2>2. CASE RevokeFamily(h)
    BY <1>0, <2>1, <2>2 DEF RevokeFamily, Family
  <2>3. CASE RevokeAllForUser(h)
    BY <1>0, <2>1, <2>3 DEF RevokeAllForUser
  <2> QED
    BY <1>5, <2>2, <2>3
<1>6. \/ UNCHANGED tokens
      \/ \E h \in Handler : \/ IssueForLogin(h) \/ Issue(h) \/ Replace(h) \/ Revoke(h)
                            \/ RevokeFamily(h) \/ RevokeAllForUser(h)
  BY DEF Next, BeginLogin, ChangePassword, BeginRefresh, BeginLogout, Load,
         LoadForLogout, Respond, Fail, SetActive, Expire
<1> QED
  BY <1>1, <1>2, <1>3, <1>4, <1>5, <1>6

\* Only a response that is lost after the rotation was committed strands a client:
\* no failure between the two statements and no overlapping request does.
THEOREM OnlyLostResponsesStrand == Spec => OnlyLostResponseStrands
<1>1. TokenInv /\ [Next]_vars =>
        [\A t \in DOMAIN tokens : Stranding(t)' => Stranding(t) \/ LosesResponse(t)]_vars
  <2> SUFFICES ASSUME TokenInv, Next, NEW t \in DOMAIN tokens,
                      Stranding(t)', ~ Stranding(t)
               PROVE  LosesResponse(t)
    BY DEF vars
  <2>1. /\ tokens'[t].revoked /\ tokens'[t].family \notin ended'
        /\ tokens'[t].replacedBy \notin held'
        /\ ~ \E h \in Handler : At(h, "respond")' /\ work'[h].next = tokens'[t].replacedBy
    BY DEF Stranding
  <2>2. tokens'[t] = tokens[t]
    BY <2>1, TokenChanges
  <2>3. ended \subseteq ended' /\ held \subseteq held'
    BY DEF Next, BeginLogin, ChangePassword, BeginRefresh, BeginLogout, IssueForLogin, Respond,
           Load, RevokeFamily, Issue, Replace, LoadForLogout, Revoke, RevokeAllForUser, Fail,
           SetActive, Expire
  <2>4. PICK h \in Handler : At(h, "respond") /\ work[h].next = tokens[t].replacedBy
    BY <2>1, <2>2, <2>3 DEF Stranding
  <2> QED
    BY <2>1, <2>2, <2>4, ResponseStays DEF LosesResponse
<1> QED
  BY <1>1, TokensInvariant, PTL DEF Spec, OnlyLostResponseStrands

\* A token that was not there begins a family, or is issued by a rotation.
LEMMA NewTokens ==
  ASSUME TokenInv, [Next]_vars, NEW t \in DOMAIN tokens' \ DOMAIN tokens
  PROVE  \/ tokens'[t].family = Len(tokens) + 1
         \/ \E h \in Handler : At(h, "issue") /\ tokens'[t].family = work[h].row.family
<1> USE DEF TokenInv
<1>1. ASSUME NEW user \in User, NEW family \in Nat, tokens' = Append(tokens, NewRow(user, family))
      PROVE  tokens'[t].family = family
  <2>1. NewRow(user, family) \in Token /\ NewRow(user, family).family = family
    BY DEF NewRow, Row, Token, NoToken
  <2> QED
    BY <1>1, <2>1, AppendEffect DEF TypeOK
<1>2. ASSUME NEW h \in Handler, IssueForLogin(h) PROVE tokens'[t].family = Len(tokens) + 1
  <2>1. work[h].user \in User /\ Len(tokens) + 1 \in Nat
    BY <1>2 DEF IssueForLogin, At, TypeOK, Request, Idle
  <2> QED
    BY <1>1, <1>2, <2>1 DEF IssueForLogin
<1>3. ASSUME NEW h \in Handler, Issue(h)
      PROVE  At(h, "issue") /\ tokens'[t].family = work[h].row.family
  <2>1. work[h].row.user \in User /\ work[h].row.family \in Nat
    BY <1>3, LoadedRequest DEF Issue, At
  <2> QED
    BY <1>1, <1>3, <2>1 DEF Issue, FamilyOf
<1>4. \/ DOMAIN tokens' = DOMAIN tokens
      \/ \E h \in Handler : IssueForLogin(h) \/ Issue(h)
  BY DEF Next, vars, BeginLogin, ChangePassword, BeginRefresh, BeginLogout, Load,
         LoadForLogout, Respond, Fail, SetActive, Expire, Replace, Revoke, RevokeFamily,
         RevokeAllForUser, RevokeWhere
<1> QED
  BY <1>2, <1>3, <1>4

\* A rotation under way was so before, or has just loaded a live token.
LEMMA NewRotations ==
  ASSUME TokenInv, [Next]_vars, NEW h \in Handler, At(h, "issue")'
  PROVE  \/ At(h, "issue") /\ work'[h] = work[h]
         \/ /\ work[h].token \in DOMAIN tokens
            /\ ~ tokens[work[h].token].revoked
            /\ work'[h].row = tokens[work[h].token]
<1> USE DEF TokenInv
<1>1. CASE work'[h] = work[h]
  BY <1>1 DEF At
<1>2. CASE Load(h)
  <2>1. work[h].token \in DOMAIN tokens
    BY <1>2 DEF Load, At, WorkOK
  <2>2. work'[h] \in {Idle, Loaded(Verdict(work[h].token), work[h].token,
                                   tokens[work[h].token], NoToken)}
    BY <1>2 DEF Load, Goes, TypeOK
  <2>3. work'[h].step = "issue"
    BY DEF At
  <2> QED
    BY <2>1, <2>2, <2>3 DEF Loaded, Verdict, Idle
<1>3. ASSUME NEW g \in Handler, NEW request, Goes(g, request), request.step # "issue"
      PROVE  work'[h] = work[h]
  BY <1>3 DEF Goes, At, TypeOK
<1>4. ASSUME NEW g \in Handler,
             \/ IssueForLogin(g) \/ Issue(g) \/ Replace(g) \/ LoadForLogout(g) \/ Revoke(g)
             \/ RevokeFamily(g) \/ RevokeAllForUser(g) \/ Respond(g) \/ Fail(g)
             \/ \E u \in User : BeginLogin(g, u) \/ ChangePassword(g, u)
             \/ \E t \in held : BeginRefresh(g, t) \/ BeginLogout(g, t)
      PROVE  work'[h] = work[h]
  <2>1. CASE \/ IssueForLogin(g) \/ Replace(g) \/ Revoke(g)
             \/ RevokeFamily(g) \/ RevokeAllForUser(g) \/ Respond(g) \/ Fail(g)
    <3>1. Goes(g, Idle) \/ \E next : Goes(g, Responding(next))
      BY <2>1 DEF IssueForLogin, Replace, Revoke, RevokeFamily, RevokeAllForUser, Respond, Fail
    <3> QED
      BY <1>3, <3>1 DEF Idle, Responding
  <2>2. CASE Issue(g)
    BY <1>3, <2>2 DEF Issue, Loaded
  <2>3. CASE LoadForLogout(g)
    BY <1>3, <2>3 DEF LoadForLogout, Loaded, Idle
  <2>4. ASSUME NEW u \in User, BeginLogin(g, u) \/ ChangePassword(g, u)
        PROVE  work'[h] = work[h]
    BY <1>3, <2>4 DEF BeginLogin, ChangePassword
  <2>5. ASSUME NEW t \in held, BeginRefresh(g, t) \/ BeginLogout(g, t)
        PROVE  work'[h] = work[h]
    BY <1>3, <2>5 DEF BeginRefresh, BeginLogout
  <2> QED
    BY <1>4, <2>1, <2>2, <2>3, <2>4, <2>5
<1>5. ASSUME NEW g \in Handler, Load(g), g # h PROVE work'[h] = work[h]
  BY <1>5 DEF Load, Goes, TypeOK
<1>6. (\E u \in User : SetActive(u)) \/ (\E t \in DOMAIN tokens : Expire(t)) \/ UNCHANGED vars
        => UNCHANGED work
  BY DEF SetActive, Expire, vars
<1> QED
  BY <1>1, <1>2, <1>4, <1>5, <1>6 DEF Next

\* A family in which nothing is live, nor a rotation of a live token under way,
\* is not brought back.
THEOREM DeadFamiliesAreFinal == Spec => DeadFamiliesStayDead
<1>1. TokenInv /\ [Next]_vars =>
        [\A t \in DOMAIN tokens : Alive(tokens[t].family)' => Alive(tokens[t].family)]_vars
  <2> SUFFICES ASSUME TokenInv, [Next]_vars, NEW t \in DOMAIN tokens,
                      Alive(tokens[t].family)'
               PROVE  Alive(tokens[t].family)
    OBVIOUS
  <2>1. PICK f : f = tokens[t].family
    OBVIOUS
  <2>2. f \in 1 .. t /\ t \in 1 .. Len(tokens) /\ Len(tokens) \in Nat
    BY <2>1 DEF TokenInv, TypeOK, LineageSound
  <2>3. tokens'[t].family = f
    BY <2>1, RevokedStays
  <2>4. CASE \E x \in DOMAIN tokens' : tokens'[x].family = f /\ ~ tokens'[x].revoked
    <3>1. PICK x \in DOMAIN tokens' : tokens'[x].family = f /\ ~ tokens'[x].revoked
      BY <2>4
    <3>2. CASE x \in DOMAIN tokens
      BY <2>1, <3>1, <3>2, RevokedStays DEF Alive, Family
    <3>3. CASE x \notin DOMAIN tokens
      BY <2>1, <2>2, <3>1, <3>3, NewTokens DEF Alive
    <3> QED
      BY <3>2, <3>3
  <2>5. CASE \E h \in Handler : At(h, "issue")' /\ work'[h].row.family = f
    BY <2>1, <2>5, NewRotations DEF Alive, Family
  <2> QED
    BY <2>3, <2>4, <2>5 DEF Alive, Family
<1> QED
  BY <1>1, TokensInvariant, PTL DEF Spec, DeadFamiliesStayDead

=============================================================================
