----------------------- MODULE BrowserSession_proofs -----------------------
(***************************************************************************)
(* Proofs about BrowserSession, for any users, tokens, tabs and requests.  *)
(* The accounts underneath are those of Accounts, step by step, so what is *)
(* proved of Accounts holds behind a browser, too.                         *)
(***************************************************************************)
EXTENDS BrowserSession, Accounts_proofs

-----------------------------------------------------------------------------
(* The inductive invariants *)

OwnersExist == \A i \in 1..Len(token) : token[i].user \in 1..Len(user)

\* A call that holds nothing but the first n tokens.
CallUpTo(n) ==
    [pc: {"idle", "sent", "served", "answered", "refresh", "refreshing",
          "refreshed", "waiting"},
     kind: Kinds \cup {None}, access: 0..n, body: 0..n,
     result: {"none", "ok", "401", "error"}, tokens: 0..n, retried: BOOLEAN]

\* What the browser holds has been minted, and a refresh is of some token.
HoldsMinted ==
    /\ store \in 0..Len(token)
    /\ call \in [Calls -> CallUpTo(Len(token))]
    /\ \A c \in Calls : call[c].pc = "refresh" => call[c].tokens # 0

BrowserInv ==
    /\ Inv /\ OwnersExist /\ HoldsMinted
    /\ status \in [Tabs -> {"loading", "authenticated", "guest"}]
    /\ refreshInFlight \in [Tabs -> Calls \cup {None}]

-----------------------------------------------------------------------------
(* The accounts underneath *)

LEMMA OwnersStay ==
  ASSUME Inv, OwnersExist, [Next]_vars
  PROVE  /\ Inv' /\ OwnersExist'
         /\ Len(token) \in Nat /\ Len(token') \in Nat
         /\ Len(token) <= Len(token') /\ Len(token') <= MaxTokens
         /\ \A i \in 1..Len(token) : token'[i].user = token[i].user
  <1>1. TokenEffect /\ UserEffect /\ HeldEffect
    BY StepHasEffect DEF StepEffect
  <1>2. Inv'
    BY InvPreserved
  <1>3. /\ Len(token') \in Nat /\ Len(token') <= MaxTokens /\ Len(token) <= Len(token')
        /\ Len(token) \in Nat /\ Len(user) \in Nat /\ Len(user') \in Nat
    BY <1>1, <1>2, TokensStaySound, RowsAreTyped DEF Inv, TypeOK
  <1>4. Len(user) <= Len(user')
    BY <1>1, UsersStaySound
  <1>5. \A i \in 1..Len(token) : token'[i].user = token[i].user
    BY <1>1 DEF TokenEffect, TokensMarked, TokenMinted, TokenRotated
  <1>6. Len(token') = Len(token) \/ /\ Len(token') = Len(token) + 1
                                    /\ \/ token'[Len(token) + 1].user \in 1..Len(user)
                                       \/ \E i \in 1..Len(token) :
                                             token'[Len(token) + 1].user = token[i].user
    BY <1>1 DEF TokenEffect, TokensMarked, TokenMinted, TokenRotated
  <1>7. \A i \in 1..Len(token') : token'[i].user \in 1..Len(user)
    BY <1>3, <1>5, <1>6 DEF OwnersExist
  <1>8. OwnersExist'
    BY <1>3, <1>4, <1>7 DEF OwnersExist
  <1> QED
    BY <1>2, <1>3, <1>5, <1>8

\* Whatever the browser asks, the API takes a step of Accounts, or none.
LEMMA UnderneathStep ==
  ASSUME BrowserInv, [BrowserNext]_<<vars, browserVars>>
  PROVE  [Next]_vars
  <1>1. DOMAIN token = 1..Len(token) /\ DOMAIN user = 1..Len(user) /\ Calls \subseteq Requests
        /\ Len(token) \in Nat
    BY BrowserAssumption, RowsAreTyped DEF BrowserInv, Inv, TypeOK
  <1>2. ASSUME NEW c \in Calls, Serve(c) PROVE [Next]_vars
    <2> DEFINE u == token[call[c].access].user
    <2>1. CASE UNCHANGED vars
      BY <2>1
    <2>2. CASE Accepts(c) /\ LogoutOne(u, call[c].body)
      <3>1. call[c].access \in 0..Len(token) /\ call[c].body \in 0..Len(token)
        BY DEF BrowserInv, HoldsMinted, CallUpTo
      <3>2. call[c].access \in 1..Len(token)
        BY <1>1, <2>2, <3>1 DEF Accepts
      <3>3. u \in DOMAIN user
        BY <1>1, <3>2 DEF BrowserInv, OwnersExist
      <3> HIDE DEF u
      <3>4. CASE call[c].body \in DOMAIN token
        BY <2>2, <3>3, <3>4 DEF Next
      <3>5. CASE call[c].body = 0
        <4>1. TokensOf(u) \cap {0} = {}
          BY <1>1 DEF TokensOf
        <4>2. token' = [i \in DOMAIN token |-> token[i]] /\ UNCHANGED <<user, req>>
          BY <2>2, <3>5, <4>1 DEF LogoutOne, Revoke
        <4>3. token' = token
          BY <4>2 DEF BrowserInv, Inv, TypeOK
        <4> QED
          BY <4>2, <4>3 DEF vars
      <3> QED
        BY <1>1, <3>1, <3>4, <3>5
    <2> QED
      BY <1>2, <2>1, <2>2 DEF Serve
  <1>3. ASSUME NEW c \in Calls, ServeForm(c) PROVE [Next]_vars
    <2>1. (\E u \in DOMAIN user : LoginRead(c, u)) \/ (\E e \in Emails : SignupRead(c, e))
      BY <1>3 DEF ServeForm
    <2> QED
      BY <1>1, <2>1 DEF Next
  <1>4. ASSUME NEW c \in Calls, ServeRefresh(c) PROVE [Next]_vars
    <2> DEFINE i == call[c].tokens
    <2>1. RefreshRead(c, i) \/ UNCHANGED vars
      BY <1>4 DEF ServeRefresh
    <2>2. RefreshRead(c, i) => i \in DOMAIN token
      BY DEF RefreshRead
    <2> HIDE DEF i
    <2> QED
      BY <1>1, <2>1, <2>2 DEF Next
  <1>5. ASSUME NEW c \in Calls, Work(c) PROVE [Next]_vars
    <2>1. SignupWrite(c) \/ Issue(c) \/ Rotate(c) \/ RevokeAll(c) \/ Abort(c)
      BY <1>5 DEF Work
    <2>2. Writes(c) \/ Abort(c)
      BY <2>1 DEF Writes
    <2> QED
      BY <1>1, <2>2 DEF Next
  <1>6. ASSUME NEW r \in Requests \ Calls, Elsewhere(r) PROVE [Next]_vars
    <2>1. (\E u \in DOMAIN user : PasswordRead(r, u) \/ LogoutAll(u)) \/ PasswordWrite(r)
      BY <1>6 DEF Elsewhere
    <2>2. CASE PasswordWrite(r)
      BY <2>2 DEF Next, Writes
    <2> QED
      BY <2>1, <2>2 DEF Next
  <1>7. ASSUME NEW i \in DOMAIN token, Age(i) PROVE [Next]_vars
    BY <1>7 DEF Age, Next
  <1>8. ASSUME NEW c \in Calls,
               \/ Hydrate(c) \/ Receive(c) \/ Lose(c) \/ Refresh(c)
               \/ ReceiveRefresh(c) \/ LoseRefresh(c)
               \/ \E kind \in Kinds : Ask(c, kind)
        PROVE  UNCHANGED vars
    BY <1>8 DEF Hydrate, Ask, Send, Receive, Lose, Conclude, Refresh, ReceiveRefresh,
                LoseRefresh, EndRefresh, vars
  <1>9. ASSUME NEW t \in Tabs, HydrateGuest(t) \/ Reload(t) PROVE UNCHANGED vars
    BY <1>9 DEF HydrateGuest, Reload
  <1>10. CASE UNCHANGED <<vars, browserVars>>
    BY <1>10
  <1> QED
    BY <1>2, <1>3, <1>4, <1>5, <1>6, <1>7, <1>8, <1>9, <1>10 DEF BrowserNext

-----------------------------------------------------------------------------
(* The calls *)

CallPcs == {"idle", "sent", "served", "answered", "refresh", "refreshing",
            "refreshed", "waiting"}

LEMMA CallFields ==
  ASSUME NEW n \in Nat, NEW x \in CallUpTo(n)
  PROVE  /\ x.pc \in CallPcs /\ x.kind \in Kinds \cup {None}
         /\ x.access \in 0..n /\ x.body \in 0..n /\ x.tokens \in 0..n
         /\ x.result \in {"none", "ok", "401", "error"} /\ x.retried \in BOOLEAN
         /\ NoCall \in CallUpTo(n)
         /\ \A m \in Nat : n <= m => x \in CallUpTo(m)
  BY DEF CallUpTo, CallPcs, NoCall

\* A call of the tab and the tokens it may hold.
LEMMA CallsAre ==
  ASSUME BrowserInv
  PROVE  /\ Len(token) \in Nat /\ store \in 0..Len(token)
         /\ call \in [Calls -> CallUpTo(Len(token))]
         /\ \A c \in Calls :
               /\ call[c] \in CallUpTo(Len(token))
               /\ TabOf[c] \in Tabs /\ c # None
               /\ \A n \in Nat : Len(token) <= n => call[c] \in CallUpTo(n)
  <1>1. Len(token) \in Nat
    BY RowsAreTyped DEF BrowserInv, Inv
  <1>2. call \in [Calls -> CallUpTo(Len(token))] /\ store \in 0..Len(token)
    BY DEF BrowserInv, HoldsMinted
  <1>3. \A c \in Calls : call[c] \in CallUpTo(Len(token))
    BY <1>2
  <1>4. \A c \in Calls : TabOf[c] \in Tabs /\ c # None
    BY BrowserAssumption
  <1>5. \A c \in Calls : \A n \in Nat : Len(token) <= n => call[c] \in CallUpTo(n)
    BY <1>1, <1>3, CallFields
  <1> QED
    BY <1>1, <1>2, <1>3, <1>4, <1>5

\* An answer, whole or in part, touches one call.
LEMMA ReplyDoes ==
  ASSUME BrowserInv, NEW c \in Calls, NEW pc \in CallPcs,
         NEW result \in {"none", "ok", "401", "error"},
         NEW n \in Nat, Len(token) <= n, NEW tokens \in 0..n,
         Reply(c, pc, result, tokens)
  PROVE  /\ call' \in [Calls -> CallUpTo(n)]
         /\ call'[c].pc = pc /\ call'[c].result = result /\ call'[c].tokens = tokens
         /\ call'[c].kind = call[c].kind
         /\ \A d \in Calls \ {c} : call'[d] = call[d]
  <1> DEFINE new == [call[c] EXCEPT !.pc = pc, !.result = result, !.tokens = tokens]
  <1>1. call' = [call EXCEPT ![c] = new]
    BY DEF Reply
  <1>2. call[c] \in CallUpTo(n)
    BY CallsAre
  <1>3. /\ new \in CallUpTo(n) /\ new.pc = pc /\ new.result = result /\ new.tokens = tokens
        /\ new.kind = call[c].kind
    BY <1>2 DEF CallUpTo, CallPcs
  <1> HIDE DEF new
  <1>4. \A d \in Calls : call'[d] = IF d = c THEN new ELSE call[d]
    BY <1>1, CallsAre
  <1>5. call' \in [Calls -> CallUpTo(n)]
    BY <1>1, <1>3, CallsAre
  <1> QED
    BY <1>3, <1>4, <1>5

\* A call leaves with what is stored.
LEMMA SendDoes ==
  ASSUME BrowserInv, NEW c \in Calls, NEW kind \in Kinds, Send(c, kind)
  PROVE  /\ call' \in [Calls -> CallUpTo(Len(token))]
         /\ call[c].pc = "idle" /\ req[c].pc = "idle"
         /\ call'[c].pc = "sent" /\ call'[c].kind = kind
         /\ call'[c].result = "none" /\ call'[c].tokens = 0
         /\ \A d \in Calls \ {c} : call'[d] = call[d]
         /\ UNCHANGED <<vars, store, refreshInFlight>>
  <1> DEFINE access == IF kind = "login" THEN 0 ELSE store
             body == IF kind = "logout" THEN store ELSE 0
             new == [NoCall EXCEPT !.pc = "sent", !.kind = kind, !.access = access, !.body = body]
  <1>1. call' = [call EXCEPT ![c] = new]
    BY DEF Send
  <1>2. access \in 0..Len(token) /\ body \in 0..Len(token) /\ 0 \in 0..Len(token)
    BY CallsAre
  <1> HIDE DEF access, body
  <1>3. NoCall \in CallUpTo(Len(token)) /\ NoCall.result = "none" /\ NoCall.tokens = 0
    BY CallsAre, CallFields DEF NoCall
  <1>4. /\ new \in CallUpTo(Len(token)) /\ new.pc = "sent" /\ new.kind = kind
        /\ new.result = "none" /\ new.tokens = 0
    BY <1>2, <1>3 DEF CallUpTo
  <1> HIDE DEF new
  <1>5. \A d \in Calls : call'[d] = IF d = c THEN new ELSE call[d]
    BY <1>1, CallsAre
  <1> QED
    BY <1>1, <1>3, <1>4, <1>5, CallsAre DEF Send

\* A call is over: what it brought is stored, the session is dropped, or neither.
LEMMA ConcludeDoes ==
  ASSUME BrowserInv, NEW c \in Calls, NEW ok \in BOOLEAN, Conclude(c, ok)
  PROVE  /\ call' \in [Calls -> CallUpTo(Len(token))]
         /\ call'[c] = NoCall
         /\ \A d \in Calls \ {c} : call'[d] = call[d]
         /\ UNCHANGED <<vars, refreshInFlight>>
         /\ \/ /\ call[c].kind = "me" /\ ok /\ UNCHANGED store
               /\ status' = [status EXCEPT ![TabOf[c]] = "authenticated"]
            \/ /\ call[c].kind = "login" /\ ok /\ store' = call[c].tokens
               /\ status' = [status EXCEPT ![TabOf[c]] = "authenticated"]
            \/ store' = 0 /\ status' = [status EXCEPT ![TabOf[c]] = "guest"]
            \/ call[c].kind # "me" /\ UNCHANGED <<store, status>>
  <1>1. call' = [call EXCEPT ![c] = NoCall]
    BY DEF Conclude
  <1>2. NoCall \in CallUpTo(Len(token))
    BY CallsAre, CallFields
  <1>3. \A d \in Calls : call'[d] = IF d = c THEN NoCall ELSE call[d]
    BY <1>1, CallsAre
  <1>4. call' \in [Calls -> CallUpTo(Len(token))]
    BY <1>1, <1>2, CallsAre
  <1> QED
    BY <1>3, <1>4 DEF Conclude, SignedIn, Clear, StatusOnClear

\* A refresh is over: the calls that waited go on, or are dropped with the session.
LEMMA EndRefreshDoes ==
  ASSUME BrowserInv, NEW c \in Calls, NEW tokens \in 0..Len(token), EndRefresh(c, tokens)
  PROVE  /\ call' \in [Calls -> CallUpTo(Len(token))]
         /\ UNCHANGED vars
         /\ refreshInFlight' = [refreshInFlight EXCEPT ![TabOf[c]] = None]
         /\ IF tokens # 0 THEN store' = tokens /\ UNCHANGED status
            ELSE store' = 0 /\ status' = [status EXCEPT ![TabOf[c]] = "guest"]
         /\ call'[c].pc \in {"idle", "sent"} /\ (tokens = 0 => call'[c].pc = "idle")
         /\ \A d \in Calls : \/ call'[d] = call[d]
                             \/ call'[d] = NoCall
                             \/ /\ tokens # 0 /\ call'[d].pc = "sent" /\ call'[d].kind = call[d].kind
                                /\ call'[d].result = "none" /\ call'[d].tokens = 0
                                /\ d = c \/ call[d].pc = "waiting"
  <1> DEFINE waiting == {c} \cup {d \in Calls : TabOf[d] = TabOf[c] /\ call[d].pc = "waiting"}
             again(d) == [call[d] EXCEPT !.pc = "sent", !.access = tokens, !.result = "none",
                                         !.tokens = 0, !.retried = TRUE]
  <1>1. call' = [d \in Calls |-> IF d \notin waiting THEN call[d]
                                 ELSE IF tokens = 0 THEN NoCall ELSE again(d)]
    BY DEF EndRefresh
  <1>2. NoCall \in CallUpTo(Len(token)) /\ NoCall.pc = "idle"
    BY CallsAre, CallFields DEF NoCall
  <1>3. \A d \in Calls : /\ again(d) \in CallUpTo(Len(token)) /\ again(d).pc = "sent"
                         /\ again(d).kind = call[d].kind
                         /\ again(d).result = "none" /\ again(d).tokens = 0
    <2> SUFFICES ASSUME NEW d \in Calls
                 PROVE  /\ again(d) \in CallUpTo(Len(token)) /\ again(d).pc = "sent"
                        /\ again(d).kind = call[d].kind
                        /\ again(d).result = "none" /\ again(d).tokens = 0
      OBVIOUS
    <2>1. call[d] \in CallUpTo(Len(token)) /\ 0 \in 0..Len(token)
      BY CallsAre
    <2> QED
      BY <2>1 DEF CallUpTo
  <1> HIDE DEF again
  <1>4. call' \in [Calls -> CallUpTo(Len(token))]
    BY <1>1, <1>2, <1>3, CallsAre
  <1>5. \A d \in Calls : \/ call'[d] = call[d]
                         \/ call'[d] = NoCall
                         \/ /\ tokens # 0 /\ call'[d].pc = "sent" /\ call'[d].kind = call[d].kind
                            /\ call'[d].result = "none" /\ call'[d].tokens = 0
                            /\ d = c \/ call[d].pc = "waiting"
    BY <1>1, <1>3
  <1>6. call'[c].pc \in {"idle", "sent"} /\ (tokens = 0 => call'[c].pc = "idle")
    BY <1>1, <1>2, <1>3
  <1> QED
    BY <1>4, <1>5, <1>6 DEF EndRefresh, NotInFlight, Clear, StatusOnClear

\* A handler that ends answers, with the token it issued if it issued one.
LEMMA AnswerDoes ==
  ASSUME BrowserInv, [Next]_vars, NEW c \in Calls, Answer(c)
  PROVE  /\ call' \in [Calls -> CallUpTo(Len(token'))]
         /\ \A d \in Calls \ {c} : call'[d] = call[d]
         /\ \/ UNCHANGED call
            \/ /\ \/ call[c].pc = "served" /\ call'[c].pc = "answered"
                  \/ call[c].pc = "refreshing" /\ call'[c].pc = "refreshed"
               /\ call'[c].kind = call[c].kind
               /\ \/ call'[c].tokens = 0 /\ call'[c].result = "error"
                  \/ /\ call'[c].tokens = Len(token') /\ Len(token) < Len(token')
                     /\ call'[c].result = "ok"
  <1> DEFINE minted == IF Len(token') > Len(token) THEN Len(token') ELSE 0
             pc == IF call[c].pc = "served" THEN "answered" ELSE "refreshed"
             result == IF minted # 0 THEN "ok" ELSE "error"
  <1>1. Len(token) \in Nat /\ Len(token') \in Nat /\ Len(token) <= Len(token')
    BY OwnersStay DEF BrowserInv
  <1>2. minted \in 0..Len(token') /\ (minted # 0 => minted = Len(token') /\ Len(token) < Len(token'))
    BY <1>1
  <1>3. \/ UNCHANGED call
        \/ call[c].pc \in {"served", "refreshing"} /\ Reply(c, pc, result, minted)
    BY DEF Answer
  <1> HIDE DEF minted
  <1>4. CASE UNCHANGED call
    <2>1. \A d \in Calls : call[d] \in CallUpTo(Len(token'))
      BY <1>1, CallsAre
    <2> QED
      BY <1>4, <2>1, CallsAre
  <1>5. CASE call[c].pc \in {"served", "refreshing"} /\ Reply(c, pc, result, minted)
    <2>1. pc \in CallPcs /\ result \in {"none", "ok", "401", "error"}
      BY DEF CallPcs
    <2>2. /\ call' \in [Calls -> CallUpTo(Len(token'))]
          /\ call'[c].pc = pc /\ call'[c].result = result /\ call'[c].tokens = minted
          /\ call'[c].kind = call[c].kind
          /\ \A d \in Calls \ {c} : call'[d] = call[d]
      BY <1>1, <1>2, <1>5, <2>1, ReplyDoes
    <2> QED
      BY <1>2, <1>5, <2>2
  <1> QED
    BY <1>3, <1>4, <1>5

\* The handlers behind the calls take one step of Accounts, which mints at most one
\* token.
LEMMA Minting ==
  ASSUME BrowserInv, [BrowserNext]_<<vars, browserVars>>
  PROVE  /\ [Next]_vars /\ Inv' /\ OwnersExist'
         /\ Len(token) \in Nat /\ Len(token') \in Nat /\ Len(token) <= Len(token')
         /\ 0..Len(token) \subseteq 0..Len(token')
  <1>1. [Next]_vars
    BY UnderneathStep
  <1>2. /\ Inv' /\ OwnersExist'
        /\ Len(token) \in Nat /\ Len(token') \in Nat /\ Len(token) <= Len(token')
    BY <1>1, OwnersStay DEF BrowserInv
  <1> QED
    BY <1>1, <1>2

LEMMA BrowserInvInit == BrowserInit => BrowserInv
  <1> SUFFICES ASSUME BrowserInit PROVE BrowserInv
    OBVIOUS
  <1>1. Inv
    BY InitHolds DEF BrowserInit
  <1>2. token = <<>> /\ Len(token) = 0
    BY DEF BrowserInit, Init
  <1>3. NoCall \in CallUpTo(0) /\ NoCall.pc = "idle"
    BY DEF NoCall, CallUpTo
  <1>4. \A c \in Calls : call[c] = NoCall
    BY DEF BrowserInit
  <1>5. HoldsMinted
    BY <1>2, <1>3, <1>4 DEF HoldsMinted, BrowserInit
  <1>6. OwnersExist
    BY <1>2 DEF OwnersExist
  <1> QED
    BY <1>1, <1>5, <1>6 DEF BrowserInv, BrowserInit

\* The browser's own state stays what it can be.
LEMMA BrowserInvStep ==
  ASSUME BrowserInv, [BrowserNext]_<<vars, browserVars>>
  PROVE  BrowserInv'
  <1> DEFINE Statuses == {"loading", "authenticated", "guest"}
  <1>1. /\ [Next]_vars /\ Inv' /\ OwnersExist'
        /\ Len(token) \in Nat /\ Len(token') \in Nat /\ Len(token) <= Len(token')
        /\ 0..Len(token) \subseteq 0..Len(token')
    BY Minting
  <1>2. /\ status \in [Tabs -> Statuses] /\ refreshInFlight \in [Tabs -> Calls \cup {None}]
        /\ store \in 0..Len(token)
        /\ \A c \in Calls : call[c].pc = "refresh" => call[c].tokens # 0
    BY DEF BrowserInv, HoldsMinted
  <1>3. ASSUME store' \in 0..Len(token'),
               call' \in [Calls -> CallUpTo(Len(token'))],
               \A c \in Calls : call'[c].pc = "refresh" => call'[c].tokens # 0,
               status' \in [Tabs -> Statuses],
               refreshInFlight' \in [Tabs -> Calls \cup {None}]
        PROVE  BrowserInv'
    BY <1>1, <1>3 DEF BrowserInv, HoldsMinted
  <1>4. \A c \in Calls : call[c] \in CallUpTo(Len(token')) /\ TabOf[c] \in Tabs
    BY <1>1, CallsAre
  <1>w. ASSUME call' \in [Calls -> CallUpTo(Len(token))] PROVE call' \in [Calls -> CallUpTo(Len(token'))]
    <2>1. \A c \in Calls : call'[c] \in CallUpTo(Len(token'))
      BY <1>1, <1>w, CallFields
    <2> QED
      BY <1>w, <2>1
  <1>5. CASE UNCHANGED browserVars
    BY <1>1, <1>2, <1>3, <1>4, <1>5, CallsAre DEF browserVars
  <1>6. ASSUME NEW c \in Calls, NEW kind \in Kinds, Send(c, kind), UNCHANGED status
        PROVE  BrowserInv'
    BY <1>1, <1>2, <1>3, <1>6, <1>w, SendDoes
  <1>7. ASSUME NEW c \in Calls, NEW ok \in BOOLEAN, Conclude(c, ok) PROVE BrowserInv'
    <2>1. /\ call' \in [Calls -> CallUpTo(Len(token))] /\ call'[c] = NoCall
          /\ \A d \in Calls \ {c} : call'[d] = call[d]
          /\ UNCHANGED refreshInFlight
          /\ store' \in {0, store, call[c].tokens}
          /\ status' \in [Tabs -> Statuses]
      BY <1>2, <1>4, <1>7, ConcludeDoes
    <2>2. store' \in 0..Len(token')
      BY <1>1, <1>2, <1>4, <2>1 DEF CallUpTo
    <2> QED
      BY <1>2, <1>3, <1>w, <2>1, <2>2 DEF NoCall
  <1>8. ASSUME NEW c \in Calls, Refresh(c) PROVE BrowserInv'
    <2>1. store # 0 /\ UNCHANGED <<vars, store, status>>
      BY <1>8 DEF Refresh, Refreshes
    <2>2. call[c] \in CallUpTo(Len(token))
      BY CallsAre
    <2>3. CASE call' = [call EXCEPT ![c].pc = "waiting"] /\ UNCHANGED refreshInFlight
      <3>1. [call[c] EXCEPT !.pc = "waiting"] \in CallUpTo(Len(token))
        BY <2>2 DEF CallUpTo
      <3>2. call' \in [Calls -> CallUpTo(Len(token))]
        BY <2>3, <3>1, CallsAre
      <3>3. \A d \in Calls : call'[d].pc = "refresh" => call'[d].tokens # 0
        BY <1>2, <2>3, <2>2, CallsAre DEF CallUpTo
      <3> QED
        BY <1>1, <1>2, <1>3, <1>w, <2>1, <2>3, <3>2, <3>3
    <2>4. CASE /\ call' = [call EXCEPT ![c].pc = "refresh", ![c].tokens = store]
               /\ refreshInFlight' = [refreshInFlight EXCEPT ![TabOf[c]] = c]
      <3> DEFINE new == [call[c] EXCEPT !.pc = "refresh", !.tokens = store]
      <3>1. new \in CallUpTo(Len(token)) /\ new.tokens = store
        BY <1>2, <2>2 DEF CallUpTo
      <3>2. call' = [call EXCEPT ![c] = new]
        BY <2>4
      <3> HIDE DEF new
      <3>3. call' \in [Calls -> CallUpTo(Len(token))]
        BY <3>1, <3>2, CallsAre
      <3>4. \A d \in Calls : call'[d].pc = "refresh" => call'[d].tokens # 0
        BY <1>2, <2>1, <3>1, <3>2, CallsAre
      <3>5. refreshInFlight' \in [Tabs -> Calls \cup {None}]
        BY <1>2, <2>4
      <3> QED
        BY <1>1, <1>2, <1>3, <1>w, <2>1, <3>3, <3>4, <3>5
    <2> QED
      BY <1>8, <2>3, <2>4 DEF Refresh
  <1>9. ASSUME NEW c \in Calls, NEW tokens \in 0..Len(token), EndRefresh(c, tokens) PROVE BrowserInv'
    <2>1. /\ call' \in [Calls -> CallUpTo(Len(token))]
          /\ store' \in {0, tokens}
          /\ status' \in [Tabs -> Statuses]
          /\ refreshInFlight' \in [Tabs -> Calls \cup {None}]
          /\ \A d \in Calls : call'[d] = call[d] \/ call'[d].pc # "refresh"
      BY <1>2, <1>4, <1>9, EndRefreshDoes DEF NoCall
    <2>2. store' \in 0..Len(token')
      BY <1>1, <2>1
    <2> QED
      BY <1>2, <1>3, <1>w, <2>1, <2>2
  <1>10. ASSUME NEW t \in Tabs, HydrateGuest(t) \/ Reload(t) PROVE BrowserInv'
    <2>1. /\ UNCHANGED store /\ status' \in [Tabs -> Statuses]
          /\ refreshInFlight' \in [Tabs -> Calls \cup {None}]
      BY <1>2, <1>10 DEF HydrateGuest, Reload, NotInFlight
    <2>2. call' = call \/ call' = [c \in Calls |-> IF TabOf[c] = t THEN NoCall ELSE call[c]]
      BY <1>10 DEF HydrateGuest, Reload
    <2>3. NoCall \in CallUpTo(Len(token')) /\ NoCall.pc = "idle"
      BY <1>1 DEF NoCall, CallUpTo
    <2>4. call' \in [Calls -> CallUpTo(Len(token'))]
      BY <1>4, <2>2, <2>3, CallsAre
    <2>5. \A c \in Calls : call'[c].pc = "refresh" => call'[c].tokens # 0
      BY <1>2, <2>2, <2>3
    <2> QED
      BY <1>1, <1>2, <1>3, <2>1, <2>4, <2>5
  <1>11. ASSUME NEW c \in Calls, NEW pc \in CallPcs \ {"refresh"},
                NEW result \in {"none", "ok", "401", "error"},
                Reply(c, pc, result, 0), UNCHANGED <<store, status, refreshInFlight>>
         PROVE  BrowserInv'
    <2>1. 0 \in 0..Len(token')
      BY <1>1
    <2>2. /\ call' \in [Calls -> CallUpTo(Len(token'))] /\ call'[c].pc = pc
          /\ \A d \in Calls \ {c} : call'[d] = call[d]
      BY <1>1, <1>11, <2>1, ReplyDoes
    <2>3. \A d \in Calls : call'[d].pc = "refresh" => call'[d].tokens # 0
      BY <1>2, <2>2
    <2> QED
      BY <1>1, <1>2, <1>3, <1>11, <2>2, <2>3
  <1>12. ASSUME NEW c \in Calls, Answer(c), UNCHANGED <<store, status, refreshInFlight>>
         PROVE  BrowserInv'
    <2>1. /\ call' \in [Calls -> CallUpTo(Len(token'))]
          /\ \A d \in Calls \ {c} : call'[d] = call[d]
          /\ UNCHANGED call \/ call'[c].pc \in {"answered", "refreshed"}
      BY <1>1, <1>12, AnswerDoes
    <2>2. \A d \in Calls : call'[d].pc = "refresh" => call'[d].tokens # 0
      BY <1>2, <2>1
    <2> QED
      BY <1>1, <1>2, <1>3, <1>12, <2>1, <2>2
  <1>13. ASSUME NEW c \in Calls, Serve(c) \/ ServeForm(c) \/ ServeRefresh(c) PROVE BrowserInv'
    <2>1. /\ \E pc \in {"answered", "served", "refreshing", "refreshed"},
                result \in {"none", "ok", "401", "error"} : Reply(c, pc, result, 0)
          /\ UNCHANGED <<store, status, refreshInFlight>>
      BY <1>13 DEF Serve, ServeForm, ServeRefresh
    <2> QED
      BY <1>11, <2>1 DEF CallPcs
  <1>14. ASSUME NEW c \in Calls, ReceiveRefresh(c) \/ LoseRefresh(c) PROVE BrowserInv'
    <2>1. EndRefresh(c, call[c].tokens) \/ EndRefresh(c, 0)
      BY <1>14 DEF ReceiveRefresh, LoseRefresh
    <2>2. call[c].tokens \in 0..Len(token) /\ 0 \in 0..Len(token)
      BY <1>1, CallsAre DEF CallUpTo
    <2> QED
      BY <1>9, <2>1, <2>2
  <1>15. ASSUME NEW c \in Calls, Receive(c) \/ Lose(c) PROVE BrowserInv'
    <2>1. \E ok \in BOOLEAN : Conclude(c, ok)
      BY <1>15 DEF Receive, Lose
    <2> QED
      BY <1>7, <2>1
  <1>16. ASSUME NEW c \in Calls, Hydrate(c) \/ \E kind \in Kinds : Ask(c, kind) PROVE BrowserInv'
    <2>1. UNCHANGED status /\ \E kind \in Kinds : Send(c, kind)
      BY <1>16 DEF Hydrate, Ask, Kinds
    <2> QED
      BY <1>6, <2>1
  <1> QED
    BY <1>5, <1>8, <1>10, <1>12, <1>13, <1>14, <1>15, <1>16
    DEF BrowserNext, Work, Elsewhere, Age

LEMMA BrowserInvHolds == BrowserSpec => []BrowserInv
  <1>1. BrowserInv /\ [BrowserNext]_<<vars, browserVars>> => BrowserInv'
    BY BrowserInvStep
  <1> QED
    BY <1>1, BrowserInvInit, PTL DEF BrowserSpec

-----------------------------------------------------------------------------
(* Theorems for any number of tabs *)

\* Whatever calls leave a tab, join a refresh, are lost or die with their page, they
\* and the store hold tokens there are, and a tab is in one of its three states.
THEOREM BrowserTypeCorrect == BrowserSpec => []BrowserTypeOK
  <1>1. BrowserInv => BrowserTypeOK
    <2> SUFFICES ASSUME BrowserInv PROVE BrowserTypeOK
      OBVIOUS
    <2>1. Len(token) \in Nat /\ Len(token) <= MaxTokens /\ MaxTokens \in Nat
      BY RowsAreTyped, AccountsAssumption DEF BrowserInv, Inv, TypeOK
    <2>2. 0..Len(token) \subseteq Stored
      BY <2>1 DEF Stored, TokenIds
    <2>3. CallUpTo(Len(token)) \subseteq Call
      BY <2>2 DEF CallUpTo, Call
    <2>4. call \in [Calls -> Call] /\ store \in Stored
      BY <2>2, <2>3, CallsAre
    <2> QED
      BY <2>4 DEF BrowserInv, BrowserTypeOK
  <1> QED
    BY <1>1, BrowserInvHolds, PTL

\* Behind the browser runs Accounts as it is: every step of a tab or of an answer is
\* a step of its handlers, or none. Addresses are unique, logins do not fork and
\* ended logins stay over there, too.
THEOREM AccountsBehindBrowser == BrowserSpec => Spec
  <1>1. BrowserInit => Init
    BY DEF BrowserInit
  <1>2. BrowserInv /\ [BrowserNext]_<<vars, browserVars>> => [Next]_vars
    BY UnderneathStep
  <1> QED
    BY <1>1, <1>2, BrowserInvHolds, PTL DEF BrowserSpec, Spec

-----------------------------------------------------------------------------
(* Refreshes, in any number of tabs that are reloaded at any time *)

\* The strengthening: what is noted as in flight is a refresh of that tab, nothing
\* else refreshes, and nobody waits where nothing is noted.
SharedInv ==
    /\ \A c \in Calls : Refreshing(c) => refreshInFlight[TabOf[c]] = c
    /\ \A t \in Tabs : refreshInFlight[t] # None =>
          Refreshing(refreshInFlight[t]) /\ TabOf[refreshInFlight[t]] = t
    /\ \A c \in Calls : call[c].pc = "waiting" => refreshInFlight[TabOf[c]] # None

\* A step that neither starts nor ends a refresh, nor sends a call to wait.
LEMMA SharedGoesOn ==
  ASSUME BrowserInv, SharedInv, UNCHANGED refreshInFlight,
         \A c \in Calls : /\ Refreshing(c)' <=> Refreshing(c)
                          /\ call'[c].pc = "waiting" => call[c].pc = "waiting"
  PROVE  SharedInv'
  <1>1. refreshInFlight \in [Tabs -> Calls \cup {None}]
    BY DEF BrowserInv
  <1>2. ASSUME NEW t \in Tabs, refreshInFlight'[t] # None
        PROVE  Refreshing(refreshInFlight[t])' /\ TabOf[refreshInFlight'[t]] = t
    <2>1. PICK c \in Calls : c = refreshInFlight[t]
      BY <1>1, <1>2
    <2>2. Refreshing(c)' /\ TabOf[c] = t
      BY <1>2, <2>1 DEF SharedInv
    <2>3. refreshInFlight'[t] = c
      BY <2>1
    <2> QED
      BY <2>2, <2>3 DEF Refreshing
  <1> QED
    BY <1>2 DEF SharedInv

\* A call that refreshes joins or starts.
LEMMA SharedStarts ==
  ASSUME BrowserInv, SharedInv, NEW c \in Calls, Refresh(c)
  PROVE  SharedInv'
  <1>1. /\ refreshInFlight \in [Tabs -> Calls \cup {None}] /\ TabOf[c] \in Tabs /\ c # None
        /\ call \in [Calls -> CallUpTo(Len(token))] /\ call[c] \in CallUpTo(Len(token))
    BY CallsAre DEF BrowserInv
  <1>2. call[c].pc = "answered" /\ ~Refreshing(c)
    BY DEF Refresh, Refreshing
  <1>3. CASE Joins(TabOf[c]) /\ call' = [call EXCEPT ![c].pc = "waiting"] /\ UNCHANGED refreshInFlight
    <2>1. call'[c].pc = "waiting" /\ \A d \in Calls \ {c} : call'[d] = call[d]
      BY <1>1, <1>3 DEF CallUpTo
    <2>2. \A d \in Calls : Refreshing(d)' <=> Refreshing(d)
      BY <1>2, <2>1 DEF Refreshing
    <2>3. ASSUME NEW t \in Tabs, refreshInFlight'[t] # None
          PROVE  Refreshing(refreshInFlight[t])' /\ TabOf[refreshInFlight'[t]] = t
      <3>1. PICK d \in Calls : d = refreshInFlight[t]
        BY <1>1, <1>3, <2>3
      <3>2. Refreshing(d)' /\ TabOf[d] = t
        BY <1>3, <2>2, <2>3, <3>1 DEF SharedInv
      <3> QED
        BY <1>3, <3>1, <3>2 DEF Refreshing
    <2>4. \A d \in Calls : call'[d].pc = "waiting" => refreshInFlight'[TabOf[d]] # None
      BY <1>3, <2>1 DEF SharedInv, Joins
    <2>5. \A d \in Calls : Refreshing(d)' => refreshInFlight'[TabOf[d]] = d
      BY <1>3, <2>2 DEF SharedInv
    <2>6. \A t \in Tabs : refreshInFlight'[t] # None =>
             Refreshing(refreshInFlight[t])' /\ TabOf[refreshInFlight'[t]] = t
      BY <2>3
    <2> QED
      BY <2>4, <2>5, <2>6 DEF SharedInv
  <1>4. CASE /\ ~Joins(TabOf[c])
             /\ call' = [call EXCEPT ![c].pc = "refresh", ![c].tokens = store]
             /\ refreshInFlight' = [refreshInFlight EXCEPT ![TabOf[c]] = c]
    <2>1. call'[c].pc = "refresh" /\ \A d \in Calls \ {c} : call'[d] = call[d]
      BY <1>1, <1>4 DEF CallUpTo
    <2>2. \A t \in Tabs : refreshInFlight'[t] = IF t = TabOf[c] THEN c ELSE refreshInFlight[t]
      BY <1>1, <1>4
    <2>3. \A d \in Calls : TabOf[d] = TabOf[c] => ~Refreshing(d)
      BY <1>4, CallsAre DEF SharedInv, Joins
    <2>4. \A d \in Calls : Refreshing(d)' <=> d = c \/ Refreshing(d)
      BY <1>2, <2>1 DEF Refreshing
    <2>5. ASSUME NEW t \in Tabs, refreshInFlight'[t] # None
          PROVE  Refreshing(refreshInFlight[t])' /\ TabOf[refreshInFlight'[t]] = t
      <3>1. CASE t = TabOf[c]
        <4>1. refreshInFlight'[t] = c /\ Refreshing(c)'
          BY <2>2, <2>4, <3>1
        <4> QED
          BY <3>1, <4>1 DEF Refreshing
      <3>2. CASE t # TabOf[c]
        <4>1. PICK d \in Calls : d = refreshInFlight[t]
          BY <1>1, <2>2, <2>5, <3>2
        <4>2. Refreshing(d)' /\ TabOf[d] = t /\ refreshInFlight'[t] = d
          BY <2>2, <2>4, <2>5, <3>2, <4>1 DEF SharedInv
        <4> QED
          BY <4>2 DEF Refreshing
      <3> QED
        BY <3>1, <3>2
    <2>6. \A d \in Calls : call'[d].pc = "waiting" => refreshInFlight'[TabOf[d]] # None
      BY <1>1, <2>1, <2>2, CallsAre DEF SharedInv
    <2>7. \A d \in Calls : Refreshing(d)' => refreshInFlight'[TabOf[d]] = d
      BY <2>2, <2>3, <2>4, CallsAre DEF SharedInv
    <2>8. \A t \in Tabs : refreshInFlight'[t] # None =>
             Refreshing(refreshInFlight[t])' /\ TabOf[refreshInFlight'[t]] = t
      BY <2>5
    <2> QED
      BY <2>6, <2>7, <2>8 DEF SharedInv
  <1> QED
    BY <1>3, <1>4 DEF Refresh

\* The refresh of a tab is over, or the tab is loaded again: nothing of it waits.
LEMMA SharedEnds ==
  ASSUME BrowserInv, SharedInv, NEW t \in Tabs, refreshInFlight' = NotInFlight(t),
         \A d \in Calls : IF TabOf[d] = t THEN /\ ~Refreshing(d)' /\ call'[d].pc # "waiting"
                          ELSE call'[d] = call[d]
  PROVE  SharedInv'
  <1>1. refreshInFlight \in [Tabs -> Calls \cup {None}] /\ \A d \in Calls : TabOf[d] \in Tabs
    BY CallsAre DEF BrowserInv
  <1>2. \A s \in Tabs : refreshInFlight'[s] = IF s = t THEN None ELSE refreshInFlight[s]
    BY <1>1 DEF NotInFlight
  <1>3. ASSUME NEW s \in Tabs, refreshInFlight'[s] # None
        PROVE  Refreshing(refreshInFlight[s])' /\ TabOf[refreshInFlight'[s]] = s
    <2>1. PICK d \in Calls : d = refreshInFlight[s]
      BY <1>1, <1>2, <1>3
    <2>2. Refreshing(d) /\ TabOf[d] = s /\ s # t /\ refreshInFlight'[s] = d
      BY <1>2, <1>3, <2>1 DEF SharedInv
    <2>3. Refreshing(d)'
      BY <2>2 DEF Refreshing
    <2> QED
      BY <2>2, <2>3 DEF Refreshing
  <1>4. \A d \in Calls : Refreshing(d)' => refreshInFlight'[TabOf[d]] = d
    BY <1>1, <1>2 DEF SharedInv, Refreshing
  <1>5. \A d \in Calls : call'[d].pc = "waiting" => refreshInFlight'[TabOf[d]] # None
    BY <1>1, <1>2 DEF SharedInv
  <1> QED
    BY <1>3, <1>4, <1>5 DEF SharedInv

LEMMA SharedStep ==
  ASSUME BrowserInv, SharedInv, [BrowserNext]_<<vars, browserVars>>
  PROVE  SharedInv'
  <1>0. [Next]_vars
    BY UnderneathStep
  <1>1. CASE UNCHANGED browserVars
    BY <1>1, SharedGoesOn DEF browserVars, Refreshing
  <1>2. ASSUME NEW c \in Calls, UNCHANGED refreshInFlight,
               \A d \in Calls \ {c} : call'[d] = call[d],
               Refreshing(c)' <=> Refreshing(c), call'[c].pc # "waiting"
        PROVE  SharedInv'
    <2>1. \A d \in Calls : /\ Refreshing(d)' <=> Refreshing(d)
                           /\ call'[d].pc = "waiting" => call[d].pc = "waiting"
      BY <1>2 DEF Refreshing
    <2> QED
      BY <1>2, <2>1, SharedGoesOn
  <1>3. ASSUME NEW c \in Calls, Hydrate(c) \/ \E kind \in Kinds : Ask(c, kind)
        PROVE  SharedInv'
    <2>1. PICK kind \in Kinds : Send(c, kind)
      BY <1>3 DEF Hydrate, Ask, Kinds
    <2>2. /\ call[c].pc = "idle" /\ call'[c].pc = "sent" /\ UNCHANGED refreshInFlight
          /\ \A d \in Calls \ {c} : call'[d] = call[d]
      BY <2>1, SendDoes
    <2> QED
      BY <1>2, <2>2 DEF Refreshing
  <1>4. ASSUME NEW c \in Calls, Receive(c) \/ Lose(c) PROVE SharedInv'
    <2>1. call[c].pc \in {"sent", "served", "answered"} /\ \E ok \in BOOLEAN : Conclude(c, ok)
      BY <1>4 DEF Receive, Lose
    <2>2. /\ call'[c].pc = "idle" /\ UNCHANGED refreshInFlight
          /\ \A d \in Calls \ {c} : call'[d] = call[d]
      BY <2>1, ConcludeDoes DEF NoCall
    <2> QED
      BY <1>2, <2>1, <2>2 DEF Refreshing
  <1>5. ASSUME NEW c \in Calls, ReceiveRefresh(c) \/ LoseRefresh(c) PROVE SharedInv'
    <2>1. Refreshing(c) /\ (EndRefresh(c, call[c].tokens) \/ EndRefresh(c, 0))
      BY <1>5 DEF ReceiveRefresh, LoseRefresh, Refreshing
    <2>2. PICK tokens : EndRefresh(c, tokens)
      BY <2>1
    <2>3. refreshInFlight[TabOf[c]] = c /\ TabOf[c] \in Tabs
      BY <2>1, CallsAre DEF SharedInv
    <2>4. ASSUME NEW d \in Calls
          PROVE  IF TabOf[d] = TabOf[c] THEN ~Refreshing(d)' /\ call'[d].pc # "waiting"
                 ELSE call'[d] = call[d]
      <3>1. call[d] \in CallUpTo(Len(token)) /\ NoCall.pc = "idle"
        BY CallsAre DEF NoCall
      <3>2. CASE d = c \/ (TabOf[d] = TabOf[c] /\ call[d].pc = "waiting")
        <4>1. call'[d] = IF tokens = 0 THEN NoCall
                         ELSE [call[d] EXCEPT !.pc = "sent", !.access = tokens, !.result = "none",
                                              !.tokens = 0, !.retried = TRUE]
          BY <2>2, <3>2 DEF EndRefresh
        <4>2. call'[d].pc \in {"idle", "sent"} /\ TabOf[d] = TabOf[c]
          BY <3>1, <3>2, <4>1 DEF CallUpTo
        <4> QED
          BY <4>2 DEF Refreshing
      <3>3. CASE d # c /\ ~(TabOf[d] = TabOf[c] /\ call[d].pc = "waiting")
        <4>1. call'[d] = call[d]
          BY <2>2, <3>3 DEF EndRefresh
        <4>2. TabOf[d] = TabOf[c] => ~Refreshing(d)
          BY <2>3, <3>3 DEF SharedInv
        <4> QED
          BY <3>3, <4>1, <4>2 DEF Refreshing
      <3> QED
        BY <3>2, <3>3
    <2>5. refreshInFlight' = NotInFlight(TabOf[c])
      BY <2>2 DEF EndRefresh
    <2> QED
      BY <2>3, <2>4, <2>5, SharedEnds
  <1>6. ASSUME NEW t \in Tabs, HydrateGuest(t) PROVE SharedInv'
    BY <1>6, SharedGoesOn DEF HydrateGuest, Refreshing
  <1>7. ASSUME NEW t \in Tabs, Reload(t) PROVE SharedInv'
    <2>1. \A d \in Calls : IF TabOf[d] = t THEN ~Refreshing(d)' /\ call'[d].pc # "waiting"
                           ELSE call'[d] = call[d]
      BY <1>7 DEF Reload, NoCall, Refreshing
    <2> QED
      BY <1>7, <2>1, SharedEnds DEF Reload
  <1>8. ASSUME NEW c \in Calls, Serve(c) \/ ServeForm(c) \/ ServeRefresh(c) PROVE SharedInv'
    <2>1. /\ \E pc \in CallPcs \ {"waiting"}, result \in {"none", "ok", "401", "error"} :
                /\ Reply(c, pc, result, 0)
                /\ pc \in {"refresh", "refreshing", "refreshed"} <=> Refreshing(c)
          /\ UNCHANGED refreshInFlight
      BY <1>8 DEF Serve, ServeForm, ServeRefresh, Refreshing, CallPcs
    <2>2. PICK pc \in CallPcs \ {"waiting"}, result \in {"none", "ok", "401", "error"} :
                /\ Reply(c, pc, result, 0)
                /\ pc \in {"refresh", "refreshing", "refreshed"} <=> Refreshing(c)
      BY <2>1
    <2>3. call'[c].pc = pc /\ \A d \in Calls \ {c} : call'[d] = call[d]
      <3>1. 0 \in 0..Len(token) /\ Len(token) \in Nat /\ Len(token) <= Len(token)
        BY CallsAre
      <3> QED
        BY <2>2, <3>1, ReplyDoes
    <2>4. (Refreshing(c)' <=> Refreshing(c)) /\ call'[c].pc # "waiting"
      BY <2>2, <2>3 DEF Refreshing
    <2> QED
      BY <1>2, <2>1, <2>3, <2>4
  <1>9. ASSUME NEW c \in Calls, Work(c) PROVE SharedInv'
    <2>1. Answer(c) /\ UNCHANGED refreshInFlight
      BY <1>9 DEF Work
    <2>2. /\ \A d \in Calls \ {c} : call'[d] = call[d]
          /\ \/ UNCHANGED call
             \/ call[c].pc = "served" /\ call'[c].pc = "answered"
             \/ call[c].pc = "refreshing" /\ call'[c].pc = "refreshed"
      BY <1>0, <2>1, AnswerDoes
    <2>3. CASE UNCHANGED call
      BY <2>1, <2>3, SharedGoesOn DEF Refreshing
    <2>4. CASE ~UNCHANGED call
      BY <1>2, <2>1, <2>2, <2>4 DEF Refreshing
    <2> QED
      BY <2>3, <2>4
  <1> QED
    BY <1>1, <1>3, <1>4, <1>5, <1>6, <1>7, <1>8, <1>9, SharedStarts
    DEF BrowserNext, Elsewhere, Age

\* In any number of tabs, and however often they are loaded again meanwhile, the 401s
\* of a tab share one refresh, and no call waits for a refresh that is over.
THEOREM RefreshesStayShared == BrowserSpec => []RefreshesAreShared
  <1>1. BrowserInit => SharedInv
    BY DEF BrowserInit, SharedInv, Refreshing, NoCall
  <1>2. BrowserInv /\ SharedInv /\ [BrowserNext]_<<vars, browserVars>> => SharedInv'
    BY SharedStep
  <1>3. BrowserInv /\ SharedInv => RefreshesAreShared
    <2> SUFFICES ASSUME BrowserInv, SharedInv PROVE RefreshesAreShared
      OBVIOUS
    <2>1. ASSUME NEW c \in Calls, call[c].pc = "waiting"
          PROVE  \E d \in Calls : Refreshing(d) /\ SameTab(c, d)
      <3>1. TabOf[c] \in Tabs /\ refreshInFlight[TabOf[c]] # None
        BY <2>1, CallsAre DEF SharedInv
      <3>2. PICK d \in Calls : d = refreshInFlight[TabOf[c]]
        BY <3>1 DEF BrowserInv
      <3> QED
        BY <3>1, <3>2 DEF SharedInv, SameTab
    <2>2. \A c, d \in Calls : Refreshing(c) /\ Refreshing(d) /\ SameTab(c, d) => c = d
      BY DEF SharedInv, SameTab
    <2> QED
      BY <2>1, <2>2 DEF RefreshesAreShared
  <1> QED
    BY <1>1, <1>2, <1>3, BrowserInvHolds, PTL DEF BrowserSpec

=============================================================================
