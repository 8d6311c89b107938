--------------------------- MODULE BrowserSession ---------------------------
(***************************************************************************)
(* The browser's side of a session (frontend/src: services/apiClient.ts,   *)
(* tokenStore.ts, authService.ts, context/AuthContext.tsx, the routes) in  *)
(* front of Accounts: tabs that share the stored tokens and each have their *)
(* own refreshInFlight, requests that a 401 sends through one refresh, and *)
(* answers that come late or never.                                        *)
(***************************************************************************)
EXTENDS Accounts

CONSTANTS
    Tabs,
    Calls,              \* the requests() a tab may have in flight
    TabOf,              \* the tab of each of them
    ReloadInterrupts    \* whether a page is reloaded while it refreshes

ASSUME BrowserAssumption ==
    /\ Calls \subseteq Requests /\ None \notin Calls
    /\ TabOf \in [Calls -> Tabs]
    /\ ReloadInterrupts \in BOOLEAN

VARIABLES
    store,             \* tokenStore: the stored pair, by its token, or 0
    status,            \* AuthContext: the status of each tab
    refreshInFlight,   \* apiClient: the call that runs the tab's refresh
    call               \* the requests()

browserVars == <<store, status, refreshInFlight, call>>

Stored == TokenIds \cup {0}

\* To the browser a sign-up is a login: both are answered with a new session.
Kinds == {"me", "page", "login", "logout"}

\* sent: on its way; served: in its handler; answered: on its way back; refresh and
\* refreshed: the same of the refresh this call runs; waiting: for another call's.
Call == [pc: {"idle", "sent", "served", "answered", "refresh", "refreshing",
              "refreshed", "waiting"},
         kind: Kinds \cup {None}, access: Stored, body: Stored,
         result: {"none", "ok", "401", "error"}, tokens: Stored, retried: BOOLEAN]

NoCall == [pc |-> "idle", kind |-> None, access |-> 0, body |-> 0,
           result |-> "none", tokens |-> 0, retried |-> FALSE]

BrowserTypeOK ==
    /\ store \in Stored
    /\ status \in [Tabs -> {"loading", "authenticated", "guest"}]
    /\ refreshInFlight \in [Tabs -> Calls \cup {None}]
    /\ call \in [Calls -> Call]

-----------------------------------------------------------------------------
(* The tab: requests leave, answers arrive *)

\* Mutants: AuthContext does not subscribe to the store; it sets a status that no
\* route knows.
StatusUnnoticed(t) == status
StatusUnknown(t) == [status EXCEPT ![t] = "expired"]

\* The subscribers of a tab's tokenStore run when that tab clears it.
StatusOnClear(t) == [status EXCEPT ![t] = "guest"]

Clear(t) == store' = 0 /\ status' = StatusOnClear(t)

\* login, signup and hydrate end with a session.
SignedIn(t) == status' = [status EXCEPT ![t] = "authenticated"]

\* request(): the headers are built from what is stored now, and logout's body too.
Send(c, kind) ==
    /\ call[c].pc = "idle" /\ req[c].pc = "idle"
    /\ call' = [call EXCEPT ![c] = [NoCall EXCEPT
          !.pc = "sent", !.kind = kind,
          !.access = IF kind = "login" THEN 0 ELSE store,
          !.body = IF kind = "logout" THEN store ELSE 0]]
    /\ UNCHANGED <<vars, store, refreshInFlight>>

\* hydrate, once per load of the page.
Mounted(t) ==
    /\ status[t] = "loading"
    /\ \A c \in Calls : TabOf[c] = t => call[c].pc = "idle"

Hydrate(c) ==
    /\ Mounted(TabOf[c]) /\ store # 0
    /\ Send(c, "me")
    /\ UNCHANGED status

HydrateGuest(t) ==
    /\ Mounted(t) /\ store = 0
    /\ status' = [status EXCEPT ![t] = "guest"]
    /\ UNCHANGED <<vars, store, refreshInFlight, call>>

\* ProtectedRoute and PublicOnlyRoute decide which forms and pages there are.
Ask(c, kind) ==
    /\ \/ kind \in {"page", "logout"} /\ status[TabOf[c]] = "authenticated"
       \/ kind = "login" /\ status[TabOf[c]] = "guest"
    /\ Send(c, kind)
    /\ UNCHANGED status

\* What the caller of request() does with its outcome.
Conclude(c, ok) ==
    LET t == TabOf[c]
        kind == call[c].kind IN
    /\ call' = [call EXCEPT ![c] = NoCall]
    /\ \/ kind = "me" /\ ok /\ SignedIn(t) /\ UNCHANGED store
       \/ kind = "login" /\ ok /\ store' = call[c].tokens /\ SignedIn(t)
       \/ kind = "logout" /\ Clear(t)
       \/ kind = "me" /\ ~ok /\ Clear(t)
       \/ kind = "page" /\ UNCHANGED <<store, status>>
       \/ kind = "login" /\ ~ok /\ UNCHANGED <<store, status>>
    /\ UNCHANGED <<vars, refreshInFlight>>

Refreshes(c) == call[c].result = "401" /\ ~call[c].retried /\ store # 0

\* The answer arrives.
Receive(c) ==
    /\ call[c].pc = "answered" /\ ~Refreshes(c)
    /\ Conclude(c, call[c].result = "ok")

\* The connection fails; the handler, if it has started, goes on.
Lose(c) ==
    /\ call[c].pc \in {"sent", "served", "answered"}
    /\ Conclude(c, FALSE)

\* Mutant: every 401 runs a refresh of its own.
NeverJoins(t) == FALSE

\* refreshTokens(): a refresh in flight is joined.
Joins(t) == refreshInFlight[t] # None

Refresh(c) ==
    LET t == TabOf[c] IN
    /\ call[c].pc = "answered" /\ Refreshes(c)
    /\ \/ Joins(t) /\ call' = [call EXCEPT ![c].pc = "waiting"] /\ UNCHANGED refreshInFlight
       \/ /\ ~Joins(t)
          /\ call' = [call EXCEPT ![c].pc = "refresh", ![c].tokens = store]
          /\ refreshInFlight' = [refreshInFlight EXCEPT ![t] = c]
    /\ UNCHANGED <<vars, store, status>>

\* Mutant: what a refresh leaves behind when it ends is not cleared (no finally).
StillInFlight(t) == refreshInFlight

NotInFlight(t) == [refreshInFlight EXCEPT ![t] = None]

\* The refresh ends: its tokens are stored or the store is cleared, and all calls that
\* wait for it go on in the same tick, with a retry or with their 401.
EndRefresh(c, tokens) ==
    LET t == TabOf[c]
        waiting == {c} \cup {d \in Calls : TabOf[d] = t /\ call[d].pc = "waiting"} IN
    /\ refreshInFlight' = NotInFlight(t)
    /\ IF tokens # 0 THEN store' = tokens /\ UNCHANGED status ELSE Clear(t)
    /\ call' = [d \in Calls |->
          IF d \notin waiting THEN call[d]
          ELSE IF tokens = 0 THEN NoCall
          ELSE [call[d] EXCEPT !.pc = "sent", !.access = tokens, !.result = "none",
                               !.tokens = 0, !.retried = TRUE]]
    /\ UNCHANGED vars

ReceiveRefresh(c) == call[c].pc = "refreshed" /\ EndRefresh(c, call[c].tokens)

LoseRefresh(c) ==
    /\ call[c].pc \in {"refresh", "refreshing", "refreshed"}
    /\ EndRefresh(c, 0)

\* The page is loaded again: its calls are gone, what is stored stays.
Reload(t) ==
    /\ ReloadInterrupts \/ refreshInFlight[t] = None
    /\ status' = [status EXCEPT ![t] = "loading"]
    /\ refreshInFlight' = NotInFlight(t)
    /\ call' = [c \in Calls |-> IF TabOf[c] = t THEN NoCall ELSE call[c]]
    /\ UNCHANGED <<vars, store>>

-----------------------------------------------------------------------------
(* The API: the handlers of Accounts behind each request *)

Reply(c, pc, result, tokens) ==
    call' = [call EXCEPT ![c].pc = pc, ![c].result = result, ![c].tokens = tokens]

Accepts(c) == call[c].access # 0 /\ ~token[call[c].access].stale

\* A request with an access token: requireAuth, then a read or the one statement of
\* logout; a failure of another kind has no effect.
Serve(c) ==
    /\ call[c].pc = "sent" /\ call[c].kind \in {"me", "page", "logout"}
    /\ \/ ~Accepts(c) /\ Reply(c, "answered", "401", 0) /\ UNCHANGED vars
       \/ /\ Accepts(c) /\ Reply(c, "answered", "ok", 0)
          /\ IF call[c].kind = "logout"
                THEN LogoutOne(token[call[c].access].user, call[c].body)
                ELSE UNCHANGED vars
    /\ UNCHANGED <<store, status, refreshInFlight>>

\* Login and sign-up read first; a refused one is like one that is lost.
ServeForm(c) ==
    /\ call[c].pc = "sent" /\ call[c].kind = "login"
    /\ \/ \E u \in DOMAIN user : LoginRead(c, u)
       \/ \E e \in Emails : SignupRead(c, e)
    /\ Reply(c, "served", "none", 0)
    /\ UNCHANGED <<store, status, refreshInFlight>>

ServeRefresh(c) ==
    LET i == call[c].tokens IN
    /\ call[c].pc = "refresh" /\ req[c].pc = "idle"
    /\ \/ RefreshRead(c, i) /\ Reply(c, "refreshing", "401", 0)
       \/ /\ ~token[i].rotated /\ ~Refreshable(i)
          /\ Reply(c, "refreshed", "401", 0)
          /\ UNCHANGED vars
    /\ UNCHANGED <<store, status, refreshInFlight>>

\* The later steps of a handler, with the answer when it ends, if anybody waits.
Answer(c) ==
    LET minted == IF Len(token') > Len(token) THEN Len(token') ELSE 0
        pc == IF call[c].pc = "served" THEN "answered" ELSE "refreshed" IN
    IF call[c].pc \in {"served", "refreshing"} /\ req'[c].pc = "idle"
       THEN Reply(c, pc, IF minted # 0 THEN "ok" ELSE "error", minted)
       ELSE UNCHANGED call

Work(c) ==
    /\ SignupWrite(c) \/ Issue(c) \/ Rotate(c) \/ RevokeAll(c) \/ Abort(c)
    /\ Answer(c)
    /\ UNCHANGED <<store, status, refreshInFlight>>

\* Other devices of the users end sessions; what else they do concerns their own.
Elsewhere(r) ==
    /\ \/ \E u \in DOMAIN user : PasswordRead(r, u) \/ LogoutAll(u)
       \/ PasswordWrite(r)
    /\ UNCHANGED browserVars

Age(i) == Expire(i) /\ UNCHANGED browserVars

BrowserInit ==
    /\ Init
    /\ store = 0
    /\ status = [t \in Tabs |-> "loading"]
    /\ refreshInFlight = [t \in Tabs |-> None]
    /\ call = [c \in Calls |-> NoCall]

BrowserNext ==
    \/ \E c \in Calls :
          \/ Hydrate(c) \/ Receive(c) \/ Lose(c)
          \/ \E kind \in Kinds : Ask(c, kind)
          \/ Refresh(c) \/ ReceiveRefresh(c) \/ LoseRefresh(c)
          \/ Serve(c) \/ ServeForm(c) \/ ServeRefresh(c) \/ Work(c)
    \/ \E t \in Tabs : HydrateGuest(t) \/ Reload(t)
    \/ \E r \in Requests \ Calls : Elsewhere(r)
    \/ \E i \in DOMAIN token : Age(i)

BrowserSpec == BrowserInit /\ [][BrowserNext]_<<vars, browserVars>>

-----------------------------------------------------------------------------
(* Properties *)

\* The browser does not present a token that was rotated, which the API answers by
\* revoking every session of the user ("the legitimate client would have moved on to
\* its replacement").
NeverReplays == \A c \in Calls : req[c].pc # "revoke all"

Refreshing(c) == call[c].pc \in {"refresh", "refreshing", "refreshed"}

SameTab(c, d) == TabOf[c] = TabOf[d]

\* However the 401s, answers, failures and reloads of its calls cross, a tab refreshes
\* once at a time ("many requests can 401 at once, but only one refresh should run.
\* The rest await the same promise"), and who waits waits for a refresh that is still
\* under way, never for one that is over.
RefreshesAreShared ==
    /\ \A c, d \in Calls : Refreshing(c) /\ Refreshing(d) /\ SameTab(c, d) => c = d
    /\ \A c \in Calls : call[c].pc = "waiting" =>
          \E d \in Calls : Refreshing(d) /\ SameTab(c, d)

\* A tab that shows somebody signed in has the tokens to act for them.
SignedInHasTokens == \A t \in Tabs : status[t] = "authenticated" => store # 0

=============================================================================
