------------------------------- MODULE Console -------------------------------
(***************************************************************************)
(* The pages of one browser tab (frontend/src: pages/, routes/,            *)
(* hooks/useAsync.ts, context/AuthContext.tsx) in front of the user        *)
(* endpoints (services/userService.js).                                    *)
(*                                                                         *)
(* A page reads through useAsync, which fetches again whenever what it     *)
(* asks for changes and must not show the answer to an earlier question,   *)
(* and writes through a form, whose answer comes while the user goes on.   *)
(* An event handler, and what React does in response to it, is one step.   *)
(* Which tokens the requests carry and how they are refreshed is           *)
(* BrowserSession's; here a session is its account, and any request of it, *)
(* a page's or a form's, can be answered with its end.                     *)
(***************************************************************************)
EXTENDS Naturals, FiniteSets, Sequences, FiniteSetsExt, Functions

CONSTANTS
    PageSize,    \* rows of a page of the directory
    Roles,       \* the roles that the directory is filtered by
    LeftForms,   \* bound: the kinds of form that the user leaves before the answer
    MaxUsers,    \* bound: accounts ever created
    MaxFetches,  \* bound: fetches not answered yet
    MaxPosts     \* bound: forms not answered yet

ASSUME ConsoleAssumption ==
    /\ PageSize \in Nat \ {0} /\ Roles \subseteq {"admin", "user"}
    /\ MaxUsers \in Nat \ {0} /\ MaxFetches \in Nat /\ MaxPosts \in Nat

VARIABLES
    users,    \* the accounts, in the order of their createdAt
    owner,    \* tokenStore: whose tokens are stored, or 0
    status,   \* AuthContext: the status
    me,       \* AuthContext: the user, or 0
    route,    \* the page that is shown
    view,     \* its state: filters, page number, id, and where a login leads
    shown,    \* useAsync: the state of each hook of the page
    fetches,  \* the requests of the hooks, those they aborted included
    form,     \* the form of the page
    posts,    \* the requests of forms and of the sign-out button
    told      \* history: the last account that the directory is to show

ui == <<route, view, shown, form, told>>
session == <<owner, status, me>>
vars == <<users, session, ui, fetches, posts>>

-----------------------------------------------------------------------------
(* Types *)

Public == {"login", "signup"}
AdminOnly == {"users", "user"}
Routes == Public \cup AdminOnly \cup {"home", "profile"}
Hooks == {"list", "user", "total", "admins"}
Kinds == {"login", "signup", "details", "security", "admin"}
Ids == 0..MaxUsers

\* An account's name and address change whenever its owner saves them; so how many
\* of them contain the text searched for is chosen where they are searched.
User == [admin: BOOLEAN]

View == [page: Nat \ {0}, search: BOOLEAN, debounced: BOOLEAN,
         role: {"any", "admin", "user"}, id: Ids, from: Routes]

FirstView == [page |-> 1, search |-> FALSE, debounced |-> FALSE, role |-> "any",
              id |-> 0, from |-> "home"]

\* What a hook asks for: a page of a list, or one account.
Query == [page: Nat, search: BOOLEAN, role: {"any", "admin", "user"}, id: Ids]

NoQuery == [page |-> 1, search |-> FALSE, role |-> "any", id |-> 0]

\* Of a list: how many accounts match, and how many there were when it was read.
Data == [q: Query, total: Nat, read: Nat]

NoData == [q |-> NoQuery, total |-> 0, read |-> 0]

Async == [data: Data, error: BOOLEAN, loading: BOOLEAN]

Unmounted == [data |-> NoData, error |-> FALSE, loading |-> FALSE]
FirstLoad == [Unmounted EXCEPT !.loading = TRUE]

Fetch == [hook: Hooks, live: BOOLEAN, pc: {"sent", "answered"}, data: Data]

Form == [kind: Kinds \cup {"none"}, open: BOOLEAN, filled: BOOLEAN, saving: BOOLEAN]

\* mounted: the form is still there; id: the account a login is for, and the one
\* that the answer is about; from, of: where a login leads, as it was when it was sent.
Post == [kind: Kinds \cup {"logout", "relogin", "none"}, by: Ids, mounted: BOOLEAN,
         pc: {"sent", "ok", "refused"}, id: Ids, from: Routes, of: Ids]

NoPost == [kind |-> "none", by |-> 0, mounted |-> FALSE,
           pc |-> "refused", id |-> 0, from |-> "home", of |-> 0]

\* Everything in the tab and behind it is of its kind.
ConsoleTypeOK ==
    /\ users \in Seq(User) /\ owner \in Ids /\ me \in Ids
    /\ status \in {"authenticated", "guest"}
    /\ route \in Routes /\ view \in View /\ told \in Ids
    /\ shown \in [Hooks -> Async]
    /\ fetches \subseteq Fetch
    /\ form \in Form
    /\ posts \in [1..MaxPosts -> Post]

-----------------------------------------------------------------------------
(* useAsync *)

IsAdmin(u) == u # 0 /\ users[u].admin

\* The dependencies of each hook.
QueryOf(h, v) ==
    CASE h = "list"   -> [NoQuery EXCEPT !.page = v.page, !.search = v.debounced,
                                         !.role = v.role]
      [] h = "user"   -> [NoQuery EXCEPT !.id = v.id]
      [] h = "total"  -> NoQuery
      [] h = "admins" -> [NoQuery EXCEPT !.role = "admin"]

HooksOf(r, u) ==
    CASE r = "users" -> {"list"}
      [] r = "user"  -> {"user"}
      [] r = "home"  -> IF IsAdmin(u) THEN {"total", "admins"} ELSE {}
      [] OTHER       -> {}

\* An answer to an aborted fetch may still come; what it brings is left out.
Abort(f) == [f EXCEPT !.live = FALSE, !.pc = "answered", !.data = NoData]

\* The effect: the fetch before is aborted, and a new one starts.
Fetched(hooks, v) ==
    {IF f.hook \in hooks THEN Abort(f) ELSE f : f \in fetches} \cup
    {[hook |-> h, live |-> TRUE, pc |-> "sent", data |-> [NoData EXCEPT !.q = QueryOf(h, v)]] :
        h \in hooks}

\* What was read before stays in the state.  A list or a count that loads or has
\* failed is not shown, and forgotten here; an account that failed is, with the error.
Old(h) == IF h = "user" THEN shown[h].data ELSE NoData

Loading(h) == [data |-> Old(h), error |-> FALSE, loading |-> TRUE]

Start(h, v) ==
    /\ fetches' = Fetched({h}, v)
    /\ shown' = [shown EXCEPT ![h] = Loading(h)]

\* The state of the directory changes; it fetches if a dependency does.
Show(v) ==
    /\ view' = v
    /\ IF QueryOf("list", v) = QueryOf("list", view)
          THEN UNCHANGED <<shown, fetches>>
          ELSE Start("list", v)

-----------------------------------------------------------------------------
(* Routes *)

\* Mutant: the admin pages are inside ProtectedRoute only.
OnlyProtected(r, st, u) ==
    CASE st = "guest" /\ r \notin Public        -> "login"
      [] st = "authenticated" /\ r \in Public   -> "home"
      [] OTHER                                  -> r

\* ProtectedRoute, PublicOnlyRoute and AdminRoute.
Guarded(r, st, u) ==
    CASE st = "guest" /\ r \notin Public        -> "login"
      [] st = "authenticated" /\ r \in Public   -> "home"
      [] st = "authenticated" /\ r \in AdminOnly /\ ~IsAdmin(u) -> "home"
      [] OTHER                                  -> r

FormOf(r) ==
    [kind |-> CASE r \in Public -> r [] r = "profile" -> "details"
                [] r = "users" -> "admin" [] OTHER -> "none",
     open |-> r # "users", filled |-> FALSE, saving |-> FALSE]

\* A page is mounted afresh: the one before aborts its fetches and forgets its
\* form, whose answer still comes.  A guest sent to the login form is sent back.
Mount(r, id, st, u, kept) ==
    LET to == Guarded(r, st, u)
        hooks == HooksOf(to, u)
        v == [FirstView EXCEPT !.id = id, !.from = IF to = "login" THEN r ELSE "home"] IN
    /\ route' = to
    /\ view' = IF r = "login" THEN FirstView ELSE v
    /\ fetches' = {Abort(f) : f \in fetches} \cup
                  {g \in Fetched(hooks, v) : g.live /\ g.hook \in hooks}
    /\ shown' = [h \in Hooks |-> IF h \in hooks THEN FirstLoad ELSE Unmounted]
    /\ form' = FormOf(to)
    /\ posts' = [p \in DOMAIN kept |-> [kept[p] EXCEPT !.mounted = FALSE]]
    /\ told' = IF to = "users" THEN Len(users) ELSE 0

\* The page of that address is the one that is mounted, and stays.
Stays(r, st, u) ==
    /\ r = route /\ Guarded(r, st, u) = r
    /\ HooksOf(r, u) = HooksOf(r, me)

\* The dependency of the user page is in its address, which can change under it.
Turned(id) ==
    IF route # "user" \/ id = view.id
       THEN UNCHANGED <<view, shown, fetches>>
       ELSE view' = [view EXCEPT !.id = id] /\ Start("user", view')

Navigate(r, id, st, u, kept) ==
    \/ Stays(r, st, u) /\ Turned(id) /\ posts' = kept /\ UNCHANGED <<route, form, told>>
    \/ ~Stays(r, st, u) /\ Mount(r, id, st, u, kept)

Cleared == owner' = 0 /\ status' = "guest" /\ me' = 0

\* The tokens are cleared: the subscriber makes the tab a guest's, and a page that is
\* not for guests gives way to the login form.
SessionOver(kept) ==
    /\ Cleared
    /\ \/ status = "guest" /\ posts' = kept /\ UNCHANGED <<ui, fetches>>
       \/ status # "guest" /\ Mount(route, view.id, "guest", 0, kept)

\* navigate('/login') after that; the login form, if there, forgets where it leads.
SignOut(kept) ==
    /\ Cleared
    /\ IF route = "login"
          THEN /\ view' = FirstView /\ posts' = kept
               /\ UNCHANGED <<route, shown, form, told, fetches>>
          ELSE Mount("login", 0, "guest", 0, kept)

Waiting == {p \in DOMAIN posts : posts[p] # NoPost}

Waits == \A p \in Waiting : posts[p].kind \in LeftForms

Room(r) == Cardinality(fetches) + Cardinality(HooksOf(r, me)) <= MaxFetches

\* Links, the sidebar, the rows of the directory, and the browser's history, which
\* may hold any account's page.
GoTo(r, id) ==
    /\ Room(r) /\ Waits
    /\ r = "user" <=> id # 0
    /\ r # route \/ id # view.id
    /\ Navigate(r, id, status, me, posts)
    /\ UNCHANGED <<users, session>>

-----------------------------------------------------------------------------
(* The directory *)

\* Mutant: pages count from zero.
FromZero(v) == [v EXCEPT !.page = 0]

\* onFilterChange.
FirstPage(v) == [v EXCEPT !.page = 1]

OnDirectory == route = "users" /\ Cardinality(fetches) < MaxFetches

Kept == UNCHANGED <<users, session, route, form, posts, told>>

Type(s) ==
    /\ OnDirectory
    /\ s # view.search
    /\ Show(FirstPage([view EXCEPT !.search = s]))
    /\ Kept

Debounce ==
    /\ OnDirectory
    /\ view.debounced # view.search
    /\ Show([view EXCEPT !.debounced = view.search])
    /\ Kept

PickRole(r) ==
    /\ OnDirectory
    /\ r # view.role
    /\ Show(FirstPage([view EXCEPT !.role = r]))
    /\ Kept

\* The rows and the pagination of the directory are in sight.
Listed == ~shown["list"].loading /\ ~shown["list"].error

Total == shown["list"].data.total

TotalPages ==
    IF Total = 0 THEN 1 ELSE (Total + PageSize - 1) \div PageSize

\* Offered by the empty state, when a filter is why it is empty; the rows, which are
\* read after the count, may be none whatever the total.
ClearFilters ==
    /\ OnDirectory /\ Listed
    /\ view.debounced \/ view.role # "any"
    /\ Show(FirstPage([view EXCEPT !.search = FALSE, !.role = "any"]))
    /\ Kept

Turn(n) ==
    /\ OnDirectory /\ Listed
    /\ Total > 0 /\ n \in 1..TotalPages /\ n # view.page
    /\ Show([view EXCEPT !.page = n])
    /\ Kept

Retry(h) ==
    /\ h \in {"list", "user"} /\ Cardinality(fetches) < MaxFetches
    /\ shown[h].error
    /\ Start(h, view)
    /\ Kept /\ UNCHANGED view

-----------------------------------------------------------------------------
(* Forms *)

\* Mutant: the button does not heed loading.
PressableAnyway == TRUE

\* A Button that is loading is disabled, and so is Enter in its form.
Pressable == ~form.saving

\* close() returns early while submitting.
Closable == ~form.saving

OnlyForm == UNCHANGED <<users, session, route, view, shown, fetches, told>>

\* Fields that pass the form's validators, or no longer do.
Fill(b) ==
    /\ form.kind # "none" /\ form.open
    /\ form' = [form EXCEPT !.filled = b]
    /\ OnlyForm /\ UNCHANGED posts

OpenModal ==
    /\ form.kind = "admin" /\ ~form.open
    /\ form' = [form EXCEPT !.open = TRUE]
    /\ OnlyForm /\ UNCHANGED posts

CloseModal ==
    /\ form.kind = "admin" /\ form.open
    /\ Closable
    /\ form' = [form EXCEPT !.open = FALSE, !.filled = FALSE]
    /\ OnlyForm /\ UNCHANGED posts

\* The tabs of the profile mount their forms afresh.
SwitchTab ==
    /\ route = "profile" /\ Waits
    /\ form' = [FormOf("profile") EXCEPT
                   !.kind = IF form.kind = "details" THEN "security" ELSE "details"]
    /\ posts' = [p \in DOMAIN posts |-> [posts[p] EXCEPT !.mounted = FALSE]]
    /\ OnlyForm

Sends(p, kind, id, mounted) ==
    /\ p = Min({s \in DOMAIN posts : posts[s] = NoPost})
    /\ posts' = [posts EXCEPT ![p] =
          [kind |-> kind, by |-> owner, mounted |-> mounted, pc |-> "sent", id |-> id,
           from |-> IF kind = "login" THEN view.from ELSE "home",
           of |-> IF kind = "login" THEN view.id ELSE 0]]

Submit(p, id) ==
    /\ NoPost \in Range(posts)
    /\ form.kind # "none" /\ form.open /\ form.filled
    /\ Pressable
    /\ \A w \in Waiting : posts[w].kind = form.kind
    /\ id # 0 <=> form.kind = "login"
    /\ Sends(p, form.kind, id, TRUE)
    /\ form' = [form EXCEPT !.saving = TRUE]
    /\ OnlyForm

\* handleLogout of the Topbar.
PressSignOut(p) ==
    /\ status = "authenticated" /\ Waiting = {} /\ NoPost \in Range(posts)
    /\ Sends(p, "logout", 0, FALSE)
    /\ OnlyForm /\ UNCHANGED form

-----------------------------------------------------------------------------
(* The API *)

OfRole(q) == {u \in DOMAIN users : q.role # "any" => users[u].admin = (q.role = "admin")}

\* How many a search may find.
Totals(q) ==
    LET all == Cardinality(OfRole(q)) IN
    IF q.search THEN 0..all ELSE {all}

Answer(f, data) ==
    fetches' = (fetches \ {f}) \cup {[f EXCEPT !.pc = "answered", !.data = data]}

\* listUsers counts, and reads the rows of the page, which are left out here.  Of an
\* account and of a count on the dashboard, the data is what they answer.
Read(f) ==
    /\ f.pc = "sent"
    /\ \/ /\ f.hook = "list"
          /\ \E n \in Totals(f.data.q) :
                Answer(f, [f.data EXCEPT !.total = n, !.read = Len(users)])
       \/ f.hook # "list" /\ Answer(f, f.data)
    /\ UNCHANGED <<users, session, ui, posts>>

NewUser(admin) ==
    /\ Len(users) < MaxUsers
    /\ users' = Append(users, [admin |-> admin])

Reply(p, pc, id) == posts' = [posts EXCEPT ![p].pc = pc, ![p].id = id]

\* A handler refuses what it may always refuse (a taken address, a wrong password,
\* a limit) or does its work; createAdmin is behind requireAdmin.
Serve(p) ==
    LET post == posts[p] IN
    /\ post.kind # "none" /\ post.pc = "sent"
    /\ \/ Reply(p, "refused", 0) /\ UNCHANGED users
       \/ /\ post.kind = "admin" /\ IsAdmin(post.by) /\ NewUser(TRUE)
          /\ Reply(p, "ok", Len(users'))
       \/ post.kind = "signup" /\ NewUser(FALSE) /\ Reply(p, "ok", Len(users'))
       \/ post.kind = "login" /\ Reply(p, "ok", post.id) /\ UNCHANGED users
       \/ /\ post.kind \in {"details", "security", "logout", "relogin"}
          /\ Reply(p, "ok", post.by) /\ UNCHANGED users
    /\ UNCHANGED <<session, ui, fetches>>

\* Others sign up and create admins, and so do handlers whose request was lost to
\* this tab.
Elsewhere ==
    /\ \E admin \in BOOLEAN : NewUser(admin)
    /\ UNCHANGED <<session, ui, fetches, posts>>

-----------------------------------------------------------------------------
(* Answers to fetches *)

\* Mutants: nobody looks at the signal; a failure leaves the spinner.
AcceptsAll(f) == TRUE
StillLoading(h) == [data |-> Old(h), error |-> TRUE, loading |-> TRUE]

Accepts(f) == f.live

Failed(h) == [data |-> Old(h), error |-> TRUE, loading |-> FALSE]

Receive(f) ==
    /\ f.pc = "answered"
    /\ fetches' = fetches \ {f}
    /\ shown' = IF Accepts(f)
                   THEN [shown EXCEPT ![f.hook] =
                            [data |-> f.data, error |-> FALSE, loading |-> FALSE]]
                   ELSE shown
    /\ UNCHANGED <<users, session, route, view, form, posts, told>>

\* The connection fails, or the API answers with an error.
Fail(f) ==
    /\ fetches' = fetches \ {f}
    /\ shown' = IF Accepts(f) THEN [shown EXCEPT ![f.hook] = Failed(f.hook)] ELSE shown
    /\ UNCHANGED <<users, session, route, view, form, posts, told>>

\* It answers 401, and so does the refresh, which an abort does not stop.
SessionEnds(f) ==
    /\ owner # 0
    /\ SessionOver(posts)
    /\ UNCHANGED users

-----------------------------------------------------------------------------
(* Answers to forms *)

Freed(p) == [posts EXCEPT ![p] = NoPost]

\* The finally of a submit handler.
Saved(p, f) == IF posts[p].mounted THEN [f EXCEPT !.saving = FALSE] ELSE f

OnlyAnswered(p) ==
    /\ form' = Saved(p, form)
    /\ posts' = Freed(p)
    /\ UNCHANGED <<users, session, route, view, shown, fetches, told>>

\* Mutant: the directory is not read again.
NotRefetched == UNCHANGED <<shown, fetches>>

\* onCreated is the refetch of the directory.
OnCreated == Start("list", view)

Answered(p, kind, pc) == posts[p].kind = kind /\ posts[p].pc = pc

\* afterAuth, once the tokens are stored.
AfterAuth(u) == owner' = u /\ status' = "authenticated" /\ me' = u

\* A login leads back to the page that asked for it, as the form that sent it knew it.
LoggedIn(p) ==
    LET u == posts[p].id IN
    /\ Answered(p, "login", "ok")
    /\ AfterAuth(u)
    /\ Navigate(posts[p].from, posts[p].of, "authenticated", u, Freed(p))
    /\ UNCHANGED users

SignedUp(p) ==
    LET u == posts[p].id IN
    /\ Answered(p, "signup", "ok")
    /\ AfterAuth(u)
    /\ Navigate("home", 0, "authenticated", u, Freed(p))
    /\ UNCHANGED users

\* setUser(updated) reaches the context from wherever the user is now; the page
\* changes if it is another one's.
ProfileSaved(p) ==
    LET u == posts[p].id IN
    /\ Answered(p, "details", "ok")
    /\ me' = u
    /\ UNCHANGED <<users, owner, status>>
    /\ IF Stays(route, status, u)
          THEN /\ form' = Saved(p, IF posts[p].mounted THEN [form EXCEPT !.filled = FALSE]
                                                       ELSE form)
               /\ posts' = Freed(p)
               /\ UNCHANGED <<route, view, shown, fetches, told>>
          ELSE Mount(route, view.id, status, u, Freed(p))

\* The password is changed and every session revoked; the handler awaits logout().
PasswordSaved(p) ==
    /\ Answered(p, "security", "ok")
    /\ posts' = [posts EXCEPT ![p].kind = "relogin", ![p].by = owner, ![p].pc = "sent"]
    /\ UNCHANGED <<users, session, ui, fetches>>

\* The tokens are cleared whatever became of the request.  The Topbar then goes to
\* the login form, and SecuritySettings does if it succeeded.
Leaves(p, ok) ==
    IF posts[p].kind = "logout" \/ ok THEN SignOut(Freed(p)) ELSE SessionOver(Freed(p))

SignedOut(p) ==
    /\ posts[p].kind \in {"logout", "relogin"} /\ posts[p].pc # "sent"
    /\ Leaves(p, posts[p].pc = "ok")
    /\ UNCHANGED users

\* Success is announced whatever page is shown by now.  If the dialog is still there,
\* it is blank again and closes, and its page reads the list once more.
AdminCreated(p) ==
    /\ Answered(p, "admin", "ok")
    /\ posts' = Freed(p)
    /\ IF posts[p].mounted
          THEN form' = FormOf("users") /\ OnCreated /\ told' = posts[p].id
          ELSE UNCHANGED <<form, shown, fetches, told>>
    /\ UNCHANGED <<users, session, route, view>>

\* Errors appear in the form, which keeps its fields.
Refused(p) ==
    /\ posts[p].pc = "refused" /\ posts[p].kind \in Kinds
    /\ OnlyAnswered(p)

\* The connection fails, which the page takes for a refusal.
Lose(p) ==
    \/ posts[p].kind \in Kinds /\ OnlyAnswered(p)
    \/ /\ posts[p].kind \in {"logout", "relogin"}
       /\ Leaves(p, FALSE)
       /\ UNCHANGED users

\* A form of a session is answered 401, and so is the refresh.
Expelled(p) ==
    /\ owner # 0
    /\ posts[p].kind \in {"details", "security", "admin"} /\ posts[p].pc # "ok"
    /\ SessionOver(Freed(p))
    /\ UNCHANGED users

-----------------------------------------------------------------------------

Init ==
    /\ users = <<[admin |-> TRUE]>>
    /\ owner = 0 /\ status = "guest" /\ me = 0
    /\ route = "login" /\ view = FirstView
    /\ shown = [h \in Hooks |-> Unmounted]
    /\ fetches = {}
    /\ form = FormOf("login")
    /\ posts = [p \in 1..MaxPosts |-> NoPost]
    /\ told = 0

UserStep ==
    \/ \E r \in Routes, id \in 0..Len(users) : GoTo(r, id)
    \/ \E b \in BOOLEAN : Type(b) \/ Fill(b)
    \/ \E r \in {"any"} \cup Roles : PickRole(r)
    \/ ClearFilters
    \/ \E n \in 1..MaxUsers : Turn(n)
    \/ \E h \in Hooks : Retry(h)
    \/ OpenModal \/ CloseModal \/ SwitchTab
    \/ \E p \in DOMAIN posts : PressSignOut(p) \/ \E id \in 0..Len(users) : Submit(p, id)

FetchStep ==
    \E f \in fetches : Read(f) \/ Receive(f) \/ Fail(f) \/ SessionEnds(f)

PostStep ==
    \E p \in DOMAIN posts :
        \/ Serve(p) \/ LoggedIn(p) \/ SignedUp(p) \/ ProfileSaved(p)
        \/ PasswordSaved(p) \/ SignedOut(p) \/ AdminCreated(p)
        \/ Refused(p) \/ Lose(p) \/ Expelled(p)

Answers == FetchStep \/ PostStep

Next == UserStep \/ Debounce \/ Answers \/ Elsewhere

\* Requests are answered or fail.  Nothing is assumed of the user.
Spec == Init /\ [][Next]_vars /\ WF_vars(Answers)

-----------------------------------------------------------------------------
(* Properties *)

\* What a page shows without an error answers what it asks now: an answer to the
\* filters, the page or the account before never replaces it ("so a stale response
\* can't overwrite a newer one", useAsync.ts).  With an error, the page of an account
\* reached from another one's shows the other one's data below it.
ShownAnswersView ==
    \A h \in HooksOf(route, me) :
        ~shown[h].loading /\ ~shown[h].error => shown[h].data.q = QueryOf(h, view)

\* The directory shows a list that was read after the last account that the page has
\* announced was created, and after all those that were there when it was mounted, the
\* ones that dialogs left before had announced included.  (A dialog that has been left
\* announces over any page; a directory mounted meanwhile is not read again for it.)
ListShowsCreated == route = "users" /\ Listed => shown["list"].data.read >= told

\* Whatever late answer of a form changes who is signed in, the page fits: guests see
\* guests' pages, the admin pages are shown while the user of the tab is an admin, and
\* nothing that an earlier page or session has read is left.
PageFitsUser ==
    /\ route \in Public <=> status = "guest"
    /\ route \in AdminOnly => IsAdmin(me)
    /\ \A h \in Hooks \ HooksOf(route, me) : shown[h] = Unmounted

\* A form is saved once at a time, a form that saves can be seen to, and a closed
\* one keeps nothing for the next to open it.
OneSaveAtATime ==
    /\ Cardinality({p \in DOMAIN posts : posts[p].mounted}) = IF form.saving THEN 1 ELSE 0
    /\ ~form.open => ~form.saving /\ ~form.filled

\* Unless the user keeps acting, every spinner ends: that of each list and that of
\* the form.
PageSettles ==
    \/ []<>(~form.saving /\ \A h \in Hooks : ~shown[h].loading)
    \/ []<><<UserStep>>_vars

=============================================================================
