-------------------------- MODULE Accounts_proofs --------------------------
(***************************************************************************)
(* Theorems about Accounts: types, one account per address, one live token *)
(* per login, and logins that stay over.                                   *)
(***************************************************************************)
EXTENDS Accounts, SequenceTheorems, TLAPS

-----------------------------------------------------------------------------
(* The inductive invariant *)

\* What a handler holds refers to rows that are there, it has not forgotten what it
\* is about to write, and a request for a new account names no user.
Sound(h, users, tokens) ==
    /\ h \in Request
    /\ h.pc \in {"issue", "profile"} => h.user \in 1..users
    /\ h.pc = "rotate" => h.token \in 1..tokens
    /\ h.pc \in {"signup", "profile", "admin"} => h.email \in Emails
    /\ h.pc \in {"signup", "admin"} => h.user = 0

HeldIsSound == \A r \in Requests : Sound(req[r], Len(user), Len(token))

\* A rotation ends a token, a login is named after its first token, and only its
\* last token is not rotated.
ChainsAreSound ==
    /\ \A i \in 1..Len(token) : token[i].login <= i
    /\ \A i \in 1..Len(token) : token[i].rotated => token[i].over
    /\ \A i, j \in 1..Len(token) :
          token[i].login = token[j].login /\ ~token[i].rotated /\ ~token[j].rotated => i = j

Inv == TypeOK /\ HeldIsSound /\ EmailsAreUnique /\ ChainsAreSound

-----------------------------------------------------------------------------
(* What a step does to each table *)

\* Rows are marked over or stale, and nothing else about them changes.
TokensMarked ==
    /\ token' \in Seq(Token) /\ Len(token') = Len(token)
    /\ \A i \in 1..Len(token) :
          /\ token'[i].user = token[i].user
          /\ token'[i].login = token[i].login
          /\ token'[i].rotated = token[i].rotated
          /\ token[i].over => token'[i].over

\* A token is added to login l, for a user that is there, and those in ids are
\* rotated.
TokenMinted(l, ids) ==
    /\ token' \in Seq(Token) /\ Len(token') = Len(token) + 1 /\ Len(token) < MaxTokens
    /\ \A i \in 1..Len(token) :
          /\ token'[i].user = token[i].user
          /\ token'[i].login = token[i].login
          /\ token'[i].rotated = (token[i].rotated \/ i \in ids)
          /\ token'[i].over = (token[i].over \/ i \in ids)
    /\ token'[Len(token) + 1].login = l
    /\ ~token'[Len(token) + 1].rotated
    /\ \/ token'[Len(token) + 1].user \in 1..Len(user)
       \/ \E i \in 1..Len(token) : token'[Len(token) + 1].user = token[i].user

\* The token a handler was to rotate is rotated.
TokenRotated ==
    \E r \in Requests :
        /\ req[r].pc = "rotate"
        /\ ~token[req[r].token].rotated
        /\ TokenMinted(token[req[r].token].login, {req[r].token})

TokenEffect ==
    \/ UNCHANGED token
    \/ TokensMarked
    \/ TokenMinted(Len(token) + 1, {})
    \/ TokenRotated

UserAdded ==
    \E e \in Emails, role \in Roles :
        /\ Len(user) < MaxUsers
        /\ \A u \in DOMAIN user : user[u].email # e
        /\ user' = Append(user, [email |-> e, role |-> role])

UserMoved ==
    \E e \in Emails, v \in DOMAIN user :
        /\ \A u \in DOMAIN user : user[u].email = e => u = v
        /\ user' = [user EXCEPT ![v].email = e]

UserEffect == UNCHANGED user \/ UserAdded \/ UserMoved

\* One handler goes on; only one that has seen a live token is to rotate it.
HeldEffect ==
    \/ UNCHANGED req
    \/ \E r \in Requests, h \in Request :
          /\ req' = [req EXCEPT ![r] = h]
          /\ Sound(h, Len(user'), Len(token'))
          /\ h.pc = "rotate" => UNCHANGED token /\ ~token[h.token].over

StepEffect == TokenEffect /\ UserEffect /\ HeldEffect

\* A request that has ended holds nothing.
LEMMA EndedIsSound ==
    ASSUME NEW users, NEW tokens
    PROVE  Sound(NoRequest, users, tokens) /\ NoRequest.pc = "idle" /\ NoRequest \in Request
BY DEF Sound, NoRequest, Request

\* The rows of a typed table are typed.
LEMMA RowsAreTyped ==
    ASSUME TypeOK
    PROVE  /\ Len(token) \in Nat /\ Len(user) \in Nat
           /\ 1..Len(user) \subseteq UserIds /\ 1..Len(token) \subseteq TokenIds
           /\ \A i \in 1..Len(token) :
                 /\ token[i] \in Token
                 /\ token[i].rotated \in BOOLEAN /\ token[i].over \in BOOLEAN
                 /\ token[i].user \in UserIds /\ token[i].login \in TokenIds
           /\ \A u \in 1..Len(user) : user[u] \in User /\ user[u].email \in Emails
<1>1. Len(token) \in Nat /\ Len(user) \in Nat
  BY DEF TypeOK
<1>2. 1..Len(user) \subseteq UserIds /\ 1..Len(token) \subseteq TokenIds
  BY <1>1, AccountsAssumption DEF TypeOK, UserIds, TokenIds
<1>3. \A i \in 1..Len(token) : token[i] \in Token
  BY DEF TypeOK
<1>4. \A u \in 1..Len(user) : user[u] \in User
  BY DEF TypeOK
<1> QED BY <1>1, <1>2, <1>3, <1>4 DEF Token, User

\* Marking rows over leaves a table of tokens.
LEMMA RevokingMarks ==
    ASSUME token \in Seq(Token), NEW ids, Revoke(ids)
    PROVE  TokensMarked
<1>1. token' = [i \in 1..Len(token) |->
                   IF i \in ids THEN [token[i] EXCEPT !.over = TRUE] ELSE token[i]]
  BY DEF Revoke
<1>2. \A i \in 1..Len(token) : token[i] \in Token
  OBVIOUS
<1>3. \A i \in 1..Len(token) : token'[i] \in Token
  BY <1>1, <1>2 DEF Token
<1>4. token' \in Seq(Token) /\ Len(token') = Len(token)
  BY <1>1, <1>3
<1>5. \A i \in 1..Len(token) :
          /\ token'[i].user = token[i].user
          /\ token'[i].login = token[i].login
          /\ token'[i].rotated = token[i].rotated
          /\ token[i].over => token'[i].over
  BY <1>1, <1>2 DEF Token
<1> QED BY <1>4, <1>5 DEF TokensMarked

LEMMA ExpiringMarks ==
    ASSUME token \in Seq(Token), NEW i, Expire(i)
    PROVE  TokensMarked
<1> DEFINE marked == IF token[i].stale THEN [token[i] EXCEPT !.over = TRUE]
                     ELSE [token[i] EXCEPT !.stale = TRUE]
<1>1. i \in 1..Len(token) /\ token[i] \in Token
  BY DEF Expire
<1>2. token' = [token EXCEPT ![i] = marked]
  BY <1>1 DEF Expire, Token
<1>3. /\ marked \in Token
      /\ marked.user = token[i].user
      /\ marked.login = token[i].login
      /\ marked.rotated = token[i].rotated
      /\ token[i].over => marked.over
  BY <1>1 DEF Token
<1> HIDE DEF marked
<1>4. /\ token' \in Seq(Token) /\ Len(token') = Len(token)
      /\ \A j \in 1..Len(token) : token'[j] = IF j = i THEN marked ELSE token[j]
  BY <1>1, <1>2, <1>3, ExceptSeq
<1> QED BY <1>3, <1>4 DEF TokensMarked

\* issueSession adds a row.
LEMMA IssuingMints ==
    ASSUME TypeOK, HeldIsSound, NEW r \in Requests, Issue(r)
    PROVE  TokenMinted(Len(token) + 1, {})
<1> DEFINE fresh == NewToken(req[r].user, Len(token) + 1)
<1>1. Len(token) < MaxTokens /\ token' = Append(token, fresh)
  BY DEF Issue
<1>2. Len(token) \in Nat /\ req[r].user \in UserIds /\ req[r].user \in 1..Len(user)
  BY RowsAreTyped DEF HeldIsSound, Sound, Issue
<1>3. /\ fresh \in Token /\ fresh.login = Len(token) + 1 /\ ~fresh.rotated
      /\ fresh.user \in 1..Len(user)
  BY <1>1, <1>2, AccountsAssumption DEF NewToken, Token, TokenIds
<1> HIDE DEF fresh
<1>4. /\ token' \in Seq(Token) /\ Len(token') = Len(token) + 1
      /\ \A i \in 1..Len(token) : token'[i] = token[i]
      /\ token'[Len(token) + 1] = fresh
  BY <1>1, <1>3, AppendProperties DEF TypeOK
<1>5. \A i \in 1..Len(token) : token[i].rotated \in BOOLEAN /\ token[i].over \in BOOLEAN
  BY RowsAreTyped
<1> QED BY <1>1, <1>3, <1>4, <1>5 DEF TokenMinted

\* The rotation ends one row and adds another.
LEMMA RotatingMints ==
    ASSUME TypeOK, HeldIsSound, NEW r \in Requests, Rotate(r)
    PROVE  UNCHANGED token \/ TokenRotated
<1> DEFINE i == req[r].token
           ended == [token[i] EXCEPT !.rotated = TRUE, !.over = TRUE]
           marked == [token EXCEPT ![i] = ended]
           fresh == NewToken(token[i].user, token[i].login)
<1>1. SUFFICES ASSUME ~UNCHANGED token
               PROVE  TokenRotated
  OBVIOUS
<1>2. req[r].pc = "rotate" /\ i \in 1..Len(token) /\ token[i] \in Token
  BY RowsAreTyped DEF HeldIsSound, Sound, Rotate
<1>3. /\ ~token[i].rotated /\ Len(token) < MaxTokens
      /\ token' = Append(marked, fresh)
  BY <1>1, <1>2 DEF Rotate, Unrotated, Token
<1>4. /\ ended \in Token /\ ended.login = token[i].login /\ ended.rotated /\ ended.over
      /\ ended.user = token[i].user
      /\ fresh \in Token /\ fresh.login = token[i].login /\ ~fresh.rotated
      /\ fresh.user = token[i].user
  BY <1>2 DEF NewToken, Token
<1> HIDE DEF ended, fresh, i
<1>5. /\ marked \in Seq(Token) /\ Len(marked) = Len(token)
      /\ \A j \in 1..Len(token) : marked[j] = IF j = i THEN ended ELSE token[j]
  BY <1>2, <1>4, ExceptSeq DEF TypeOK
<1> HIDE DEF marked
<1>6. /\ token' \in Seq(Token) /\ Len(token') = Len(token) + 1
      /\ \A j \in 1..Len(token) : token'[j] = IF j = i THEN ended ELSE token[j]
      /\ token'[Len(token) + 1] = fresh
  BY <1>3, <1>4, <1>5, AppendProperties
<1>7. \A j \in 1..Len(token) : token[j].rotated \in BOOLEAN /\ token[j].over \in BOOLEAN
  BY RowsAreTyped
<1>8. TokenMinted(token[i].login, {i})
  BY <1>2, <1>3, <1>4, <1>6, <1>7 DEF TokenMinted, i
<1> QED BY <1>2, <1>3, <1>8 DEF TokenRotated, i

-----------------------------------------------------------------------------
(* Every step has such an effect *)

LEMMA FinishingHolds ==
    ASSUME NEW r \in Requests, Finish(r)
    PROVE  HeldEffect
<1>1. req' = [req EXCEPT ![r] = NoRequest]
  BY DEF Finish
<1> QED BY <1>1, EndedIsSound DEF HeldEffect

\* A handler that has read something holds it.
LEMMA ReadingHolds ==
    ASSUME NEW r \in Requests, NEW h \in Request, Enter(r, h),
           Sound(h, Len(user), Len(token)), h.pc = "rotate" => ~token[h.token].over
    PROVE  StepEffect
<1>1. req' = [req EXCEPT ![r] = h] /\ UNCHANGED user /\ UNCHANGED token
  BY DEF Enter
<1>2. Sound(h, Len(user'), Len(token'))
  BY <1>1
<1>3. HeldEffect
  BY <1>1, <1>2 DEF HeldEffect
<1> QED BY <1>1, <1>3 DEF StepEffect, TokenEffect, UserEffect

\* What the reads of the handlers hold.
LEMMA ReadsHaveEffect ==
    ASSUME Inv, NEW r \in Requests,
           \/ \E e \in Emails : SignupRead(r, e)
           \/ \E u \in DOMAIN user : LoginRead(r, u) \/ PasswordRead(r, u)
           \/ \E u \in DOMAIN user, e \in Emails : ProfileRead(r, u, e) \/ AdminRead(r, u, e)
           \/ \E i \in DOMAIN token : RefreshRead(r, i)
    PROVE  StepEffect
<1> DEFINE held(h) == h \in Request /\ Sound(h, Len(user), Len(token))
<1>1. /\ DOMAIN user = 1..Len(user) /\ 1..Len(user) \subseteq UserIds
      /\ DOMAIN token = 1..Len(token) /\ 1..Len(token) \subseteq TokenIds
  BY RowsAreTyped DEF Inv, TypeOK
<1>2. ASSUME NEW e \in Emails, SignupRead(r, e) PROVE StepEffect
  <2> DEFINE h == [NoRequest EXCEPT !.pc = "signup", !.email = e]
  <2>1. held(h) /\ h.pc # "rotate"
    BY DEF Sound, Request, NoRequest
  <2>2. Enter(r, h)
    BY <1>2 DEF SignupRead
  <2> HIDE DEF h
  <2> QED BY <2>1, <2>2, ReadingHolds
<1>3. ASSUME NEW u \in DOMAIN user, LoginRead(r, u) PROVE StepEffect
  <2> DEFINE h == [NoRequest EXCEPT !.pc = "issue", !.user = u]
  <2>1. held(h) /\ h.pc # "rotate"
    BY <1>1 DEF Sound, Request, NoRequest
  <2>2. Enter(r, h)
    BY <1>3 DEF LoginRead
  <2> HIDE DEF h
  <2> QED BY <2>1, <2>2, ReadingHolds
<1>4. ASSUME NEW u \in DOMAIN user, PasswordRead(r, u) PROVE StepEffect
  <2> DEFINE h == [NoRequest EXCEPT !.pc = "password", !.user = u]
  <2>1. held(h) /\ h.pc # "rotate"
    BY <1>1 DEF Sound, Request, NoRequest
  <2>2. Enter(r, h)
    BY <1>4 DEF PasswordRead
  <2> HIDE DEF h
  <2> QED BY <2>1, <2>2, ReadingHolds
<1>5. ASSUME NEW u \in DOMAIN user, NEW e \in Emails, ProfileRead(r, u, e) PROVE StepEffect
  <2> DEFINE h == [NoRequest EXCEPT !.pc = "profile", !.user = u, !.email = e]
  <2>1. held(h) /\ h.pc # "rotate"
    BY <1>1 DEF Sound, Request, NoRequest
  <2>2. Enter(r, h)
    BY <1>5 DEF ProfileRead
  <2> HIDE DEF h
  <2> QED BY <2>1, <2>2, ReadingHolds
<1>6. ASSUME NEW u \in DOMAIN user, NEW e \in Emails, AdminRead(r, u, e) PROVE StepEffect
  <2> DEFINE h == [NoRequest EXCEPT !.pc = "admin", !.email = e]
  <2>1. held(h) /\ h.pc # "rotate"
    BY DEF Sound, Request, NoRequest
  <2>2. Enter(r, h)
    BY <1>6 DEF AdminRead
  <2> HIDE DEF h
  <2> QED BY <2>1, <2>2, ReadingHolds
<1>7. ASSUME NEW i \in DOMAIN token, RefreshRead(r, i) PROVE StepEffect
  <2>1. CASE token[i].rotated
    <3> DEFINE h == [NoRequest EXCEPT !.pc = "revoke all", !.user = token[i].user]
    <3>1. token[i].user \in UserIds
      BY <1>1, RowsAreTyped DEF Inv
    <3>2. held(h) /\ h.pc # "rotate"
      BY <3>1 DEF Sound, Request, NoRequest
    <3>3. Enter(r, h)
      BY <1>7, <2>1 DEF RefreshRead
    <3> HIDE DEF h
    <3> QED BY <3>2, <3>3, ReadingHolds
  <2>2. CASE ~token[i].rotated
    <3> DEFINE h == [NoRequest EXCEPT !.pc = "rotate", !.token = i]
    <3>1. held(h) /\ h.token = i
      BY <1>1 DEF Sound, Request, NoRequest
    <3>2. Enter(r, h) /\ ~token[i].over
      BY <1>7, <2>2 DEF RefreshRead, Refreshable
    <3> HIDE DEF h
    <3> QED BY <3>1, <3>2, ReadingHolds
  <2> QED BY <2>1, <2>2
<1> QED BY <1>2, <1>3, <1>4, <1>5, <1>6, <1>7

\* A request that writes the address it holds finds it free, or writes nothing.
LEMMA AddingAdds ==
    ASSUME Inv, NEW r \in Requests, NEW role \in Roles,
           req[r].pc \in {"signup", "admin"}, ~UniqueViolation(r), Len(user) < MaxUsers,
           user' = Append(user, [email |-> req[r].email, role |-> role])
    PROVE  UserAdded
<1>1. req[r].email \in Emails /\ req[r].user = 0
  BY DEF Inv, HeldIsSound, Sound
<1>2. \A u \in DOMAIN user : u # 0
  BY DEF Inv, TypeOK
<1>3. \A u \in DOMAIN user : user[u].email # req[r].email
  BY <1>1, <1>2 DEF UniqueViolation
<1> QED BY <1>1, <1>3 DEF UserAdded

\* What the other steps do.
LEMMA WritesHaveEffect ==
    ASSUME Inv, NEW r \in Requests, Writes(r) \/ Abort(r)
    PROVE  StepEffect
<1>1. CASE Issue(r)
  BY <1>1, IssuingMints, FinishingHolds DEF Inv, Issue, StepEffect, TokenEffect, UserEffect
<1>2. CASE SignupWrite(r)
  <2>1. req[r].pc = "signup" /\ UNCHANGED token
    BY <1>2 DEF SignupWrite
  <2>2. CASE UniqueViolation(r)
    BY <1>2, <2>2, FinishingHolds DEF SignupWrite, StepEffect, TokenEffect, UserEffect
  <2>3. CASE ~UniqueViolation(r)
    <3> DEFINE h == [NoRequest EXCEPT !.pc = "issue", !.user = Len(user) + 1]
    <3>1. /\ Len(user) < MaxUsers
          /\ user' = Append(user, [email |-> req[r].email, role |-> "user"])
          /\ req' = [req EXCEPT ![r] = h]
      BY <1>2, <2>3 DEF SignupWrite
    <3>2. Len(user) \in Nat /\ Len(user') = Len(user) + 1 /\ Len(user) + 1 \in UserIds
      BY <3>1, RowsAreTyped, AccountsAssumption DEF Inv, TypeOK, UserIds
    <3>3. Len(user) + 1 \in 1..Len(user')
      BY <3>2
    <3>4. h \in Request
      BY <3>2 DEF Request, NoRequest
    <3>5. h.pc = "issue" /\ h.user = Len(user) + 1
      BY DEF NoRequest
    <3> HIDE DEF h
    <3>6. h \in Request /\ Sound(h, Len(user'), Len(token')) /\ h.pc # "rotate"
      BY <3>3, <3>4, <3>5 DEF Sound
    <3>7. HeldEffect
      BY <3>1, <3>6 DEF HeldEffect
    <3>8. UserAdded
      BY <2>1, <2>3, <3>1, AddingAdds DEF Roles
    <3> QED BY <2>1, <3>7, <3>8 DEF StepEffect, TokenEffect, UserEffect
  <2> QED BY <2>2, <2>3
<1>3. CASE RevokeAll(r)
  BY <1>3, RevokingMarks, FinishingHolds DEF Inv, TypeOK, RevokeAll, StepEffect, TokenEffect, UserEffect
<1>4. CASE Rotate(r)
  BY <1>4, RotatingMints, FinishingHolds DEF Inv, Rotate, StepEffect, TokenEffect, UserEffect
<1>5. CASE ProfileWrite(r)
  <2>1. /\ req[r].user \in DOMAIN user /\ req[r].email \in Emails
        /\ UNCHANGED token
    BY <1>5 DEF Inv, TypeOK, HeldIsSound, Sound, ProfileWrite
  <2>2. UserEffect
    <3>1. CASE UniqueViolation(r)
      BY <1>5, <3>1 DEF ProfileWrite, UserEffect
    <3>2. CASE ~UniqueViolation(r)
      <4>1. \A u \in DOMAIN user : user[u].email = req[r].email => u = req[r].user
        BY <3>2 DEF UniqueViolation
      <4>2. user' = [user EXCEPT ![req[r].user].email = req[r].email]
        BY <1>5, <3>2 DEF ProfileWrite
      <4> QED BY <2>1, <4>1, <4>2 DEF UserEffect, UserMoved
    <3> QED BY <3>1, <3>2
  <2> QED BY <1>5, <2>1, <2>2, FinishingHolds DEF ProfileWrite, StepEffect, TokenEffect
<1>6. CASE PasswordWrite(r)
  BY <1>6, RevokingMarks, FinishingHolds
     DEF Inv, TypeOK, PasswordWrite, StepEffect, TokenEffect, UserEffect
<1>7. CASE AdminWrite(r)
  <2>1. req[r].pc = "admin" /\ UNCHANGED token /\ Finish(r)
    BY <1>7 DEF AdminWrite
  <2>2. CASE UniqueViolation(r)
    BY <1>7, <2>1, <2>2, FinishingHolds DEF AdminWrite, StepEffect, TokenEffect, UserEffect
  <2>3. CASE ~UniqueViolation(r)
    <3>1. /\ Len(user) < MaxUsers
          /\ user' = Append(user, [email |-> req[r].email, role |-> "admin"])
      BY <1>7, <2>3 DEF AdminWrite
    <3>2. UserAdded
      BY <2>1, <2>3, <3>1, AddingAdds DEF Roles
    <3> QED BY <2>1, <3>2, FinishingHolds DEF StepEffect, TokenEffect, UserEffect
  <2> QED BY <2>2, <2>3
<1>8. CASE Abort(r)
  BY <1>8, FinishingHolds DEF Abort, StepEffect, TokenEffect, UserEffect
<1> QED BY <1>1, <1>2, <1>3, <1>4, <1>5, <1>6, <1>7, <1>8 DEF Writes

LEMMA StepHasEffect ==
    ASSUME Inv, [Next]_vars
    PROVE  StepEffect
<1>1. CASE UNCHANGED vars
  BY <1>1 DEF vars, StepEffect, TokenEffect, UserEffect, HeldEffect
<1>2. CASE \E r \in Requests : Writes(r) \/ Abort(r)
  BY <1>2, WritesHaveEffect
<1>3. CASE \E r \in Requests :
             \/ \E e \in Emails : SignupRead(r, e)
             \/ \E u \in DOMAIN user : LoginRead(r, u) \/ PasswordRead(r, u)
             \/ \E u \in DOMAIN user, e \in Emails : ProfileRead(r, u, e) \/ AdminRead(r, u, e)
             \/ \E i \in DOMAIN token : RefreshRead(r, i)
  BY <1>3, ReadsHaveEffect
<1>4. CASE \E u \in DOMAIN user : LogoutAll(u)
  BY <1>4, RevokingMarks
     DEF Inv, TypeOK, LogoutAll, StepEffect, TokenEffect, UserEffect, HeldEffect
<1>5. CASE \E u \in DOMAIN user, i \in DOMAIN token : LogoutOne(u, i)
  BY <1>5, RevokingMarks
     DEF Inv, TypeOK, LogoutOne, StepEffect, TokenEffect, UserEffect, HeldEffect
<1>6. CASE \E i \in DOMAIN token : Expire(i)
  BY <1>6, ExpiringMarks
     DEF Inv, TypeOK, Expire, StepEffect, TokenEffect, UserEffect, HeldEffect
<1> QED BY <1>1, <1>2, <1>3, <1>4, <1>5, <1>6 DEF Next

-----------------------------------------------------------------------------
(* The effects preserve the invariant *)

LEMMA InitHolds == Init => Inv
<1> SUFFICES ASSUME Init PROVE Inv
  OBVIOUS
<1>1. /\ user = <<[email |-> Seeded, role |-> "admin"]>>
      /\ token = <<>> /\ req = [r \in Requests |-> NoRequest]
  BY DEF Init
<1>2. [email |-> Seeded, role |-> "admin"] \in User
  BY AccountsAssumption DEF User, Roles
<1>3. user \in Seq(User) /\ Len(user) = 1 /\ DOMAIN user = 1..1
  BY <1>1, <1>2
<1>4. token \in Seq(Token) /\ Len(token) = 0
  BY <1>1
<1>5. TypeOK
  BY <1>1, <1>3, <1>4, AccountsAssumption, EndedIsSound DEF TypeOK
<1>6. HeldIsSound
  BY <1>1, EndedIsSound DEF HeldIsSound
<1>7. EmailsAreUnique
  BY <1>3 DEF EmailsAreUnique
<1>8. ChainsAreSound
  BY <1>4 DEF ChainsAreSound
<1> QED BY <1>5, <1>6, <1>7, <1>8 DEF Inv

\* The table of tokens keeps its type and its chains, and does not shrink.
LEMMA TokensStaySound ==
    ASSUME Inv, TokenEffect
    PROVE  /\ token' \in Seq(Token) /\ Len(token') <= MaxTokens /\ Len(token) <= Len(token')
           /\ ChainsAreSound'
<1> DEFINE n == Len(token)
<1>1. /\ token \in Seq(Token) /\ n \in Nat /\ n <= MaxTokens /\ MaxTokens \in Nat
      /\ \A i \in 1..n : token[i].rotated \in BOOLEAN /\ token[i].login \in Nat
  BY RowsAreTyped, AccountsAssumption DEF Inv, TypeOK, TokenIds
<1>2. CASE UNCHANGED token
  BY <1>1, <1>2 DEF Inv, ChainsAreSound
<1>3. CASE TokensMarked
  BY <1>1, <1>3 DEF Inv, ChainsAreSound, TokensMarked
<1>4. CASE TokenMinted(n + 1, {})
  <2>1. /\ token' \in Seq(Token) /\ Len(token') = n + 1 /\ n < MaxTokens
        /\ \A i \in 1..n : /\ token'[i].login = token[i].login
                           /\ token'[i].rotated = token[i].rotated
                           /\ token'[i].over = token[i].over
        /\ token'[n + 1].login = n + 1 /\ ~token'[n + 1].rotated
    BY <1>4, RowsAreTyped DEF TokenMinted, Inv
  <2>2. \A i \in 1..n : token'[i].login # token'[n + 1].login
    BY <1>1, <2>1 DEF Inv, ChainsAreSound
  <2>3. \A i \in 1..(n + 1) : i \in 1..n \/ i = n + 1
    BY <1>1
  <2> HIDE DEF n
  <2>4. ChainsAreSound'
    BY <1>1, <2>1, <2>2, <2>3 DEF Inv, ChainsAreSound, n
  <2> QED BY <1>1, <2>1, <2>4 DEF n
<1>5. CASE TokenRotated
  <2>1. PICK r \in Requests : /\ req[r].pc = "rotate"
                              /\ ~token[req[r].token].rotated
                              /\ TokenMinted(token[req[r].token].login, {req[r].token})
    BY <1>5 DEF TokenRotated
  <2> DEFINE t == req[r].token
  <2>2. t \in 1..n
    BY <2>1 DEF Inv, HeldIsSound, Sound
  <2>3. /\ token' \in Seq(Token) /\ Len(token') = n + 1 /\ n < MaxTokens
        /\ \A i \in 1..n : /\ token'[i].login = token[i].login
                           /\ token'[i].rotated = (token[i].rotated \/ i = t)
                           /\ token'[i].over = (token[i].over \/ i = t)
        /\ token'[n + 1].login = token[t].login /\ ~token'[n + 1].rotated
    BY <2>1 DEF TokenMinted
  <2>4. \A i \in 1..n : token'[i].login = token'[n + 1].login => token'[i].rotated
    BY <1>1, <2>1, <2>2, <2>3 DEF Inv, ChainsAreSound
  <2>5. \A i \in 1..(n + 1) : i \in 1..n \/ i = n + 1
    BY <1>1
  <2>6. token[t].login <= t /\ t <= n /\ t \in Nat
    BY <1>1, <2>2 DEF Inv, ChainsAreSound
  <2>7. \A i \in 1..Len(token') : token'[i].login <= i
    BY <1>1, <2>2, <2>3, <2>5, <2>6 DEF Inv, ChainsAreSound
  <2>8. \A i \in 1..Len(token') : token'[i].rotated => token'[i].over
    BY <1>1, <2>3, <2>5 DEF Inv, ChainsAreSound
  <2>9. \A i, j \in 1..Len(token') :
          token'[i].login = token'[j].login /\ ~token'[i].rotated /\ ~token'[j].rotated => i = j
    BY <1>1, <2>3, <2>4, <2>5 DEF Inv, ChainsAreSound
  <2>10. ChainsAreSound'
    BY <2>7, <2>8, <2>9 DEF ChainsAreSound
  <2> QED BY <1>1, <2>3, <2>10
<1> QED BY <1>2, <1>3, <1>4, <1>5 DEF TokenEffect

\* The table of users keeps its type and its addresses, and does not shrink.
LEMMA UsersStaySound ==
    ASSUME Inv, UserEffect
    PROVE  /\ user' \in Seq(User) /\ Len(user') <= MaxUsers /\ Len(user) <= Len(user')
           /\ EmailsAreUnique'
<1>1. /\ user \in Seq(User) /\ Len(user) \in Nat /\ Len(user) <= MaxUsers /\ MaxUsers \in Nat
      /\ DOMAIN user = 1..Len(user)
  BY RowsAreTyped, AccountsAssumption DEF Inv, TypeOK
<1>2. CASE UNCHANGED user
  BY <1>1, <1>2 DEF Inv, EmailsAreUnique
<1>3. CASE UserAdded
  <2>1. PICK e \in Emails, role \in Roles :
            /\ Len(user) < MaxUsers
            /\ \A u \in DOMAIN user : user[u].email # e
            /\ user' = Append(user, [email |-> e, role |-> role])
    BY <1>3 DEF UserAdded
  <2> DEFINE new == [email |-> e, role |-> role]
  <2>2. new \in User /\ new.email = e
    BY DEF User
  <2> HIDE DEF new
  <2>3. /\ user' \in Seq(User) /\ Len(user') = Len(user) + 1
        /\ \A u \in 1..Len(user) : user'[u] = user[u]
        /\ user'[Len(user) + 1] = new
    BY <1>1, <2>1, <2>2, AppendProperties DEF new
  <2>4. /\ DOMAIN user' = 1..(Len(user) + 1)
        /\ \A u \in 1..(Len(user) + 1) : u \in 1..Len(user) \/ u = Len(user) + 1
    BY <1>1, <2>3
  <2>5. \A u, v \in 1..(Len(user) + 1) : user'[u].email = user'[v].email => u = v
    BY <1>1, <2>1, <2>2, <2>3, <2>4 DEF Inv, EmailsAreUnique
  <2> QED BY <1>1, <2>1, <2>3, <2>4, <2>5 DEF EmailsAreUnique
<1>4. CASE UserMoved
  <2>1. PICK e \in Emails, v \in DOMAIN user :
            /\ \A u \in DOMAIN user : user[u].email = e => u = v
            /\ user' = [user EXCEPT ![v].email = e]
    BY <1>4 DEF UserMoved
  <2> DEFINE moved == [user[v] EXCEPT !.email = e]
  <2>2. moved \in User /\ moved.email = e
    BY <1>1, RowsAreTyped DEF Inv, User
  <2> HIDE DEF moved
  <2>3. /\ user' \in Seq(User) /\ Len(user') = Len(user)
        /\ \A u \in 1..Len(user) : user'[u] = IF u = v THEN moved ELSE user[u]
    BY <1>1, <2>1, <2>2, ExceptSeq DEF moved
  <2>4. DOMAIN user' = 1..Len(user)
    BY <2>3
  <2>5. \A u, w \in 1..Len(user) : user'[u].email = user'[w].email => u = w
    BY <1>1, <2>1, <2>2, <2>3 DEF Inv, EmailsAreUnique
  <2> QED BY <1>1, <2>3, <2>4, <2>5 DEF EmailsAreUnique
<1> QED BY <1>2, <1>3, <1>4 DEF UserEffect

\* A handler that keeps what it holds keeps what it refers to.
LEMMA HeldStaysSound ==
    ASSUME Inv, HeldEffect,
           Len(user') \in Nat, Len(user) <= Len(user'),
           Len(token') \in Nat, Len(token) <= Len(token')
    PROVE  req' \in [Requests -> Request] /\ HeldIsSound'
<1>1. /\ Len(user) \in Nat /\ Len(token) \in Nat /\ req \in [Requests -> Request]
      /\ \A r \in Requests : Sound(req[r], Len(user), Len(token))
  BY RowsAreTyped DEF Inv, TypeOK, HeldIsSound
<1>2. 1..Len(user) \subseteq 1..Len(user') /\ 1..Len(token) \subseteq 1..Len(token')
  BY <1>1
<1>3. \A r \in Requests : Sound(req[r], Len(user'), Len(token'))
  BY <1>1, <1>2 DEF Sound
<1>4. CASE UNCHANGED req
  BY <1>1, <1>3, <1>4 DEF HeldIsSound
<1>5. CASE ~UNCHANGED req
  <2>1. PICK r \in Requests, h \in Request :
            req' = [req EXCEPT ![r] = h] /\ Sound(h, Len(user'), Len(token'))
    BY <1>5 DEF HeldEffect
  <2>2. \A s \in Requests : req'[s] = h \/ req'[s] = req[s]
    BY <1>1, <2>1
  <2>3. req' \in [Requests -> Request]
    BY <1>1, <2>1
  <2>4. \A s \in Requests : Sound(req'[s], Len(user'), Len(token'))
    BY <1>3, <2>1, <2>2
  <2> QED BY <2>3, <2>4 DEF HeldIsSound
<1> QED BY <1>4, <1>5

LEMMA InvPreserved == Inv /\ [Next]_vars => Inv'
<1> SUFFICES ASSUME Inv, [Next]_vars PROVE Inv'
  OBVIOUS
<1>1. TokenEffect /\ UserEffect /\ HeldEffect
  BY StepHasEffect DEF StepEffect
<1>2. /\ token' \in Seq(Token) /\ Len(token') <= MaxTokens /\ Len(token) <= Len(token')
      /\ ChainsAreSound'
  BY <1>1, TokensStaySound
<1>3. /\ user' \in Seq(User) /\ Len(user') <= MaxUsers /\ Len(user) <= Len(user')
      /\ EmailsAreUnique'
  BY <1>1, UsersStaySound
<1>4. Len(token') \in Nat /\ Len(user') \in Nat
  BY <1>2, <1>3
<1>5. req' \in [Requests -> Request] /\ HeldIsSound'
  BY <1>1, <1>2, <1>3, <1>4, HeldStaysSound
<1>6. TypeOK'
  BY <1>2, <1>3, <1>5 DEF TypeOK
<1> QED BY <1>2, <1>3, <1>5, <1>6 DEF Inv

LEMMA AlwaysInv == Spec => []Inv
<1>1. Init => Inv
  BY InitHolds
<1>2. Inv /\ [Next]_vars => Inv'
  BY InvPreserved
<1> QED BY <1>1, <1>2, PTL DEF Spec

-----------------------------------------------------------------------------
(* Theorems *)

\* Every row and every request is well typed, and no table outgrows its bound.
THEOREM TypeCorrect == Spec => []TypeOK
<1>1. Inv => TypeOK
  BY DEF Inv
<1> QED BY <1>1, AlwaysInv, PTL

\* An address belongs to one account, whatever signs up, is created or moves at
\* the same time: the unique index on email decides, not the look-up before.
THEOREM AddressesAreUnique == Spec => []EmailsAreUnique
<1>1. Inv => EmailsAreUnique
  BY DEF Inv
<1> QED BY <1>1, AlwaysInv, PTL

\* However many refreshes carry a token, its login has one live token at most:
\* what is live was not rotated, and only the last token of a login was not.
THEOREM LoginsDoNotFork == Spec => []OneLiveTokenPerLogin
<1>1. Inv => OneLiveTokenPerLogin
  <2> SUFFICES ASSUME Inv, NEW i \in DOMAIN token, NEW j \in DOMAIN token,
                      Live(i), Live(j), token[i].login = token[j].login
               PROVE  i = j
    BY DEF OneLiveTokenPerLogin
  <2>1. i \in 1..Len(token) /\ j \in 1..Len(token)
    BY DEF Inv, TypeOK
  <2>2. ~token[i].rotated /\ ~token[j].rotated
    BY <2>1 DEF Inv, ChainsAreSound, Live
  <2> QED BY <2>1, <2>2 DEF Inv, ChainsAreSound
<1> QED BY <1>1, AlwaysInv, PTL

\* A login that is over, with no refresh of it under way, stays over: a step that
\* adds a token to it comes from a refresh that was under way.
LEMMA OverStepStaysOver ==
    ASSUME Inv, [Next]_vars, NEW l \in DOMAIN token, Over(l)
    PROVE  Over(l)'
<1> DEFINE n == Len(token)
<1>1. /\ TokenEffect /\ HeldEffect
      /\ DOMAIN token = 1..n /\ n \in Nat /\ l \in 1..n
      /\ req \in [Requests -> Request]
  BY StepHasEffect, RowsAreTyped DEF StepEffect, Inv, TypeOK
<1>2. /\ \A i \in 1..n : token[i].login = l => token[i].over
      /\ \A r \in Requests : req[r].pc = "rotate" => token[req[r].token].login # l
      /\ \A r \in Requests : req[r].pc = "rotate" => req[r].token \in 1..n
  BY <1>1 DEF Over, Live, Inv, HeldIsSound, Sound
<1> DEFINE ended == /\ \A i \in DOMAIN token' : token'[i].login = l => token'[i].over
                    /\ \A i \in 1..n : token'[i].login = token[i].login
<1>3. ended
  <2>1. CASE UNCHANGED token
    BY <1>1, <1>2, <2>1
  <2>2. CASE TokensMarked
    <3>1. DOMAIN token' = 1..n
      BY <2>2 DEF TokensMarked
    <3> QED BY <1>2, <2>2, <3>1 DEF TokensMarked
  <2>3. ASSUME NEW k, NEW ids, TokenMinted(k, ids), k # l
        PROVE  ended
    <3>1. /\ DOMAIN token' = 1..(n + 1)
          /\ \A i \in 1..(n + 1) : i \in 1..n \/ i = n + 1
      BY <1>1, <2>3 DEF TokenMinted
    <3> QED BY <1>2, <2>3, <3>1 DEF TokenMinted
  <2>4. CASE TokenMinted(n + 1, {})
    BY <1>1, <2>3, <2>4
  <2>5. CASE TokenRotated
    BY <1>2, <2>3, <2>5 DEF TokenRotated
  <2> QED BY <1>1, <2>1, <2>2, <2>4, <2>5 DEF TokenEffect
<1>4. \A r \in Requests : req'[r].pc = "rotate" => token'[req'[r].token].login # l
  <2>1. CASE UNCHANGED req
    BY <1>2, <1>3, <2>1
  <2>2. CASE ~UNCHANGED req
    <3>1. PICK s \in Requests, h \in Request :
              /\ req' = [req EXCEPT ![s] = h]
              /\ Sound(h, Len(user'), Len(token'))
              /\ h.pc = "rotate" => UNCHANGED token /\ ~token[h.token].over
      BY <1>1, <2>2 DEF HeldEffect
    <3>2. h.pc = "rotate" => token'[h.token].login # l
      BY <1>1, <1>2, <3>1 DEF Sound
    <3>3. \A r \in Requests : req'[r] = h \/ req'[r] = req[r]
      BY <1>1, <3>1
    <3> QED BY <1>2, <1>3, <3>2, <3>3
  <2> QED BY <2>1, <2>2
<1> QED BY <1>3, <1>4 DEF Over, Live

THEOREM EndedLoginsStayOver == Spec => OverStaysOver
<1>1. Inv /\ [Next]_vars => [\A l \in DOMAIN token : Over(l) => Over(l)']_vars
  BY OverStepStaysOver
<1> QED BY <1>1, AlwaysInv, PTL DEF Spec, OverStaysOver

=============================================================================
