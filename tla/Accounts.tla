------------------------------ MODULE Accounts ------------------------------
(***************************************************************************)
(* Accounts and refresh tokens (services/userService.js): every handler    *)
(* reads, awaits, and writes later, and other requests run in between.     *)
(* Names, passwords and createdBy are left out: no property tells them     *)
(* apart, and a request whose password is wrong ends without an effect.    *)
(***************************************************************************)
EXTENDS Naturals, Sequences

CONSTANTS
    Requests,   \* requests in flight at a time
    Emails,     \* addresses, as normalised by the validation
    Seeded,     \* the address of the administrator the seed creates
    None,       \* NULL
    MaxUsers,   \* bound on the rows of USER
    MaxTokens   \* bound on the rows of REFRESH_TOKEN

ASSUME AccountsAssumption ==
    /\ Seeded \in Emails /\ None \notin Emails
    /\ MaxUsers \in Nat \ {0} /\ MaxTokens \in Nat

VARIABLES
    user,    \* table USER, by id: no handler deletes a row
    token,   \* table REFRESH_TOKEN, by id, and the access token issued with each
    req      \* what the handler of each request holds between two awaits

vars == <<user, token, req>>

Roles == {"user", "admin"}

UserIds == 1..MaxUsers
TokenIds == 1..MaxTokens

User == [email: Emails, role: Roles]

\* login is the token that the sign-up or login issued, which rotations of it
\* carry on; over: revoked, or past its expiry, which no handler treats otherwise;
\* stale is the expiry of the access token.
Token == [user: UserIds, login: TokenIds, rotated: BOOLEAN, over: BOOLEAN, stale: BOOLEAN]

Request == [pc: {"idle", "signup", "issue", "rotate", "revoke all", "profile",
                 "password", "admin"},
            user: UserIds \cup {0}, email: Emails \cup {None}, token: TokenIds \cup {0}]

NoRequest == [pc |-> "idle", user |-> 0, email |-> None, token |-> 0]

TypeOK ==
    /\ user \in Seq(User) /\ Len(user) <= MaxUsers
    /\ token \in Seq(Token) /\ Len(token) <= MaxTokens
    /\ req \in [Requests -> Request]

-----------------------------------------------------------------------------

Taken(e) == \E u \in DOMAIN user : user[u].email = e

\* requireAuth: by signature and expiry alone, the table is not read.
Authenticated(u) == \E i \in DOMAIN token : token[i].user = u /\ ~token[i].stale

Enter(r, held) ==
    /\ req[r].pc = "idle"
    /\ req' = [req EXCEPT ![r] = held]
    /\ UNCHANGED <<user, token>>

Finish(r) == req' = [req EXCEPT ![r] = NoRequest]

\* UPDATE refresh_token SET revoked_at ... WHERE revoked_at IS NULL AND ...
Revoke(ids) ==
    token' = [i \in DOMAIN token |->
                 IF i \in ids THEN [token[i] EXCEPT !.over = TRUE] ELSE token[i]]

TokensOf(u) == {i \in DOMAIN token : token[i].user = u}

NewToken(u, login) ==
    [user |-> u, login |-> login, rotated |-> FALSE, over |-> FALSE, stale |-> FALSE]

\* Mutant: the unique index on email is missing.
NeverViolated(r) == FALSE

\* The unique index on email, for the user the request writes (0: a new row).
UniqueViolation(r) ==
    \E u \in DOMAIN user : user[u].email = req[r].email /\ u # req[r].user

\* issueSession after a sign-up or a login.
Issue(r) ==
    /\ req[r].pc = "issue"
    /\ Len(token) < MaxTokens
    /\ token' = Append(token, NewToken(req[r].user, Len(token) + 1))
    /\ Finish(r)
    /\ UNCHANGED user

SignupRead(r, e) ==
    /\ ~Taken(e)
    /\ Enter(r, [NoRequest EXCEPT !.pc = "signup", !.email = e])

SignupWrite(r) ==
    /\ req[r].pc = "signup"
    /\ \/ UniqueViolation(r) /\ Finish(r) /\ UNCHANGED user
       \/ /\ ~UniqueViolation(r)
          /\ Len(user) < MaxUsers
          /\ user' = Append(user, [email |-> req[r].email, role |-> "user"])
          /\ req' = [req EXCEPT ![r] = [NoRequest EXCEPT !.pc = "issue", !.user = Len(user) + 1]]
    /\ UNCHANGED token

LoginRead(r, u) ==
    /\ u \in DOMAIN user
    /\ Enter(r, [NoRequest EXCEPT !.pc = "issue", !.user = u])

\* Mutant: a revoked token is refreshed like a live one.
RefreshableWhenOver(i) == TRUE

Refreshable(i) == ~token[i].over

\* A rotated token revokes everything; any other one must be live.
RefreshRead(r, i) ==
    /\ i \in DOMAIN token
    /\ \/ /\ token[i].rotated
          /\ Enter(r, [NoRequest EXCEPT !.pc = "revoke all", !.user = token[i].user])
       \/ /\ ~token[i].rotated /\ Refreshable(i)
          /\ Enter(r, [NoRequest EXCEPT !.pc = "rotate", !.token = i])

RevokeAll(r) ==
    /\ req[r].pc = "revoke all"
    /\ Revoke(TokensOf(req[r].user))
    /\ Finish(r)
    /\ UNCHANGED user

\* Mutant: the rotation is not conditional.
AlwaysRotates(i) == TRUE

Unrotated(i) == ~token[i].rotated

\* The transaction: the conditional rotation locks the token until the INSERT of
\* its successor commits, and the condition is on rotatedAt alone.
Rotate(r) ==
    LET i == req[r].token IN
    /\ req[r].pc = "rotate"
    /\ \/ ~Unrotated(i) /\ UNCHANGED token
       \/ /\ Unrotated(i)
          /\ Len(token) < MaxTokens
          /\ token' = Append([token EXCEPT ![i].rotated = TRUE, ![i].over = TRUE],
                             NewToken(token[i].user, token[i].login))
    /\ Finish(r)
    /\ UNCHANGED user

\* Logout with a refresh token, and without one.
LogoutOne(u, i) ==
    /\ Authenticated(u)
    /\ Revoke(TokensOf(u) \cap {i})
    /\ UNCHANGED <<user, req>>

LogoutAll(u) ==
    /\ Authenticated(u)
    /\ Revoke(TokensOf(u))
    /\ UNCHANGED <<user, req>>

\* updateProfile with an email; a name alone changes nothing that is modelled.
ProfileRead(r, u, e) ==
    /\ Authenticated(u)
    /\ \A v \in DOMAIN user : user[v].email = e => v = u
    /\ Enter(r, [NoRequest EXCEPT !.pc = "profile", !.user = u, !.email = e])

\* Mutant: the update writes the fields the request does not have, too.
ProfileWriteClears(r) ==
    /\ req[r].pc = "profile"
    /\ \E e \in {req[r].email, None} : user' = [user EXCEPT ![req[r].user].email = e]
    /\ Finish(r)
    /\ UNCHANGED token

ProfileWrite(r) ==
    /\ req[r].pc = "profile"
    /\ user' = IF UniqueViolation(r) THEN user
               ELSE [user EXCEPT ![req[r].user].email = req[r].email]
    /\ Finish(r)
    /\ UNCHANGED token

PasswordRead(r, u) ==
    /\ Authenticated(u)
    /\ Enter(r, [NoRequest EXCEPT !.pc = "password", !.user = u])

PasswordWrite(r) ==
    /\ req[r].pc = "password"
    /\ Revoke(TokensOf(req[r].user))
    /\ Finish(r)
    /\ UNCHANGED user

AdminRead(r, u, e) ==
    /\ Authenticated(u) /\ user[u].role = "admin"
    /\ ~Taken(e)
    /\ Enter(r, [NoRequest EXCEPT !.pc = "admin", !.email = e])

AdminWrite(r) ==
    /\ req[r].pc = "admin"
    /\ \/ UniqueViolation(r) /\ UNCHANGED user
       \/ /\ ~UniqueViolation(r)
          /\ Len(user) < MaxUsers
          /\ user' = Append(user, [email |-> req[r].email, role |-> "admin"])
    /\ Finish(r)
    /\ UNCHANGED token

\* Time: the access token expires (15 minutes), then the refresh token (days).
Expire(i) ==
    /\ i \in DOMAIN token
    /\ \/ ~token[i].stale /\ token' = [token EXCEPT ![i].stale = TRUE]
       \/ /\ token[i].stale /\ ~token[i].over
          /\ token' = [token EXCEPT ![i].over = TRUE]
    /\ UNCHANGED <<user, req>>

\* The process dies, or the database fails, between two awaits.
Abort(r) == req[r].pc # "idle" /\ Finish(r) /\ UNCHANGED <<user, token>>

Writes(r) ==
    \/ Issue(r) \/ SignupWrite(r) \/ RevokeAll(r) \/ Rotate(r)
    \/ ProfileWrite(r) \/ PasswordWrite(r) \/ AdminWrite(r)

\* The seed has created its administrator.
Init ==
    /\ user = <<[email |-> Seeded, role |-> "admin"]>>
    /\ token = <<>>
    /\ req = [r \in Requests |-> NoRequest]

Next ==
    \/ \E r \in Requests :
          \/ Writes(r) \/ Abort(r)
          \/ \E e \in Emails : SignupRead(r, e)
          \/ \E u \in DOMAIN user : LoginRead(r, u) \/ PasswordRead(r, u)
          \/ \E u \in DOMAIN user, e \in Emails : ProfileRead(r, u, e) \/ AdminRead(r, u, e)
          \/ \E i \in DOMAIN token : RefreshRead(r, i)
    \/ \E u \in DOMAIN user : LogoutAll(u)
    \/ \E u \in DOMAIN user, i \in DOMAIN token : LogoutOne(u, i)
    \/ \E i \in DOMAIN token : Expire(i)

Spec == Init /\ [][Next]_vars

-----------------------------------------------------------------------------
(* Properties *)

Live(i) == ~token[i].over

\* A login is over when none of its tokens is live and no refresh that saw one of
\* them live is still to rotate it.
Over(l) ==
    /\ \A i \in DOMAIN token : token[i].login = l => ~Live(i)
    /\ \A r \in Requests : req[r].pc = "rotate" => token[req[r].token].login # l

\* An address belongs to one account, although sign-up, the creation of an admin
\* and the change of a profile all look it up well before they write it.
EmailsAreUnique ==
    \A u, v \in DOMAIN user : user[u].email = user[v].email => u = v

\* One login never has two live tokens: of any number of refreshes with one token,
\* one mints its successor ("the loser sees count 0 and is rejected rather than
\* minting a second session").
OneLiveTokenPerLogin ==
    \A i, j \in DOMAIN token :
        Live(i) /\ Live(j) /\ token[i].login = token[j].login => i = j

\* A login that is over stays over: after a logout, a change of password or the
\* reuse of a token no refresh brings it back, but one that had read its token
\* before (whose rotation tests rotatedAt only).
OverStaysOver ==
    [][\A l \in DOMAIN token : Over(l) => Over(l)']_vars

=============================================================================
