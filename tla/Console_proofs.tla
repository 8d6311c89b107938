--------------------------- MODULE Console_proofs ---------------------------
(***************************************************************************)
(* Proofs about Console, for any page size, users, fetches and forms.      *)
(***************************************************************************)
EXTENDS Console, FiniteSetTheorems, WellFoundedInduction, TLAPS

-----------------------------------------------------------------------------
(* The inductive invariants *)

KnownPosts(kept) ==
    /\ kept \in [1..MaxPosts -> Post]
    /\ \A p \in 1..MaxPosts : kept[p].by <= Len(users) /\ kept[p].id <= Len(users)

\* The tab names no account that does not exist.
TabInv ==
    /\ ConsoleTypeOK
    /\ Len(users) \in 1..MaxUsers
    /\ owner <= Len(users) /\ me <= Len(users) /\ told <= Len(users)
    /\ KnownPosts(posts)

\* A form that waits for its answer is the one of the page, or has gone on to sign out.
FormFits ==
    /\ form.kind \in Public <=> route \in Public
    /\ form.kind = "admin" <=> route = "users"
    /\ \A p \in DOMAIN posts : posts[p].mounted =>
          \/ posts[p].kind = form.kind
          \/ posts[p].kind = "relogin" /\ form.kind = "security"

\* No fetch of an earlier page can still be shown.
PageInv ==
    /\ PageFitsUser
    /\ FormFits
    /\ \A f \in fetches : f.live => f.hook \in HooksOf(route, me)

\* A fetch that may still be shown asks what its hook asks now.
FetchesAnswerView ==
    /\ ShownAnswersView
    /\ \A f \in fetches : f.live => f.data.q = QueryOf(f.hook, view)

\* So was every answer on its way, as the announcement aborts those before it.
ListsFollowNews ==
    /\ ListShowsCreated
    /\ \A f \in fetches : f.live /\ f.hook = "list" /\ f.pc = "answered" => f.data.read >= told

\* One waiting post belongs to a form that saves, none to one that does not.
SavingInv ==
    /\ form.saving => \E s \in DOMAIN posts : \A p \in DOMAIN posts : posts[p].mounted <=> p = s
    /\ ~form.saving => \A p \in DOMAIN posts : ~posts[p].mounted
    /\ ~form.open => ~form.saving /\ ~form.filled

-----------------------------------------------------------------------------
(* The operators *)

LEMMA QueriesTyped ==
    ASSUME NEW h \in Hooks, NEW v \in View
    PROVE  QueryOf(h, v) \in Query
  <1>. NoQuery \in Query
    BY ConsoleAssumption DEF Query, NoQuery, Ids
  <1>1. CASE h = "list"
    <2>1. QueryOf(h, v) = [NoQuery EXCEPT !.page = v.page, !.search = v.debounced,
                                          !.role = v.role]
      BY <1>1, ZenonT(30) DEF QueryOf
    <2>. QED  BY <2>1 DEF Query, View
  <1>2. CASE h = "user"
    <2>1. QueryOf(h, v) = [NoQuery EXCEPT !.id = v.id]
      BY <1>2, ZenonT(30) DEF QueryOf
    <2>. QED  BY <2>1 DEF Query, View
  <1>3. CASE h = "total" \/ h = "admins"
    <2>1. QueryOf(h, v) = NoQuery \/ QueryOf(h, v) = [NoQuery EXCEPT !.role = "admin"]
      BY <1>3, ZenonT(30) DEF QueryOf
    <2>. QED  BY <2>1 DEF Query, View
  <1>. QED  BY <1>1, <1>2, <1>3 DEF Hooks

LEMMA NothingTyped ==
    /\ NoQuery \in Query /\ NoData \in Data /\ NoPost \in Post /\ FirstView \in View
    /\ Unmounted \in Async /\ FirstLoad \in Async
    /\ FirstLoad.loading /\ ~FirstLoad.error /\ ~Unmounted.error
  <1>1. NoQuery \in Query /\ NoPost \in Post /\ FirstView \in View
    BY ConsoleAssumption
       DEF NoQuery, Query, NoPost, Post, FirstView, View, Ids, Routes, Public, AdminOnly, Kinds
  <1>2. NoData \in Data
    BY <1>1 DEF NoData, Data
  <1>3. Unmounted \in Async /\ ~Unmounted.error
    BY <1>2 DEF Unmounted, Async
  <1>4. FirstLoad \in Async /\ FirstLoad.loading /\ ~FirstLoad.error
    BY <1>3 DEF FirstLoad, Async
  <1>. QED  BY <1>1, <1>2, <1>3, <1>4

LEMMA HookStates ==
    ASSUME shown \in [Hooks -> Async], NEW h \in Hooks
    PROVE  /\ Loading(h) \in Async /\ Loading(h).loading
           /\ Failed(h) \in Async /\ Failed(h).error
  <1>1. Old(h) \in Data
    BY NothingTyped DEF Old, Async
  <1>. HIDE DEF Old
  <1>. QED  BY <1>1 DEF Loading, Failed, Async

LEMMA AbortTyped ==
    ASSUME NEW f \in Fetch
    PROVE  Abort(f) \in Fetch /\ ~Abort(f).live
  BY NothingTyped DEF Abort, Fetch

\* The fetch that a hook sends.
Sent(h, v) ==
    [hook |-> h, live |-> TRUE, pc |-> "sent", data |-> [NoData EXCEPT !.q = QueryOf(h, v)]]

LEMMA SentTyped ==
    ASSUME NEW h \in Hooks, NEW v \in View
    PROVE  Sent(h, v) \in Fetch /\ Sent(h, v).data.q = QueryOf(h, v)
  <1>. DEFINE d == [NoData EXCEPT !.q = QueryOf(h, v)]
  <1>1. d \in Data /\ d.q = QueryOf(h, v)
    BY NothingTyped, QueriesTyped DEF Data
  <1>. HIDE DEF d
  <1>2. Sent(h, v) = [hook |-> h, live |-> TRUE, pc |-> "sent", data |-> d]
    BY DEF Sent, d
  <1>. QED  BY <1>1, <1>2 DEF Fetch

\* After an effect, a live fetch is one of another hook or the one just sent.
LEMMA FetchedTyped ==
    ASSUME fetches \subseteq Fetch, NEW hooks \in SUBSET Hooks, NEW v \in View
    PROVE  /\ Fetched(hooks, v) \subseteq Fetch
           /\ \A f \in Fetched(hooks, v) : f.live =>
                 \/ f \in fetches /\ f.hook \notin hooks
                 \/ f.hook \in hooks /\ f = Sent(f.hook, v)
  <1>1. Fetched(hooks, v) = {IF f.hook \in hooks THEN Abort(f) ELSE f : f \in fetches}
                            \cup {Sent(h, v) : h \in hooks}
    BY DEF Fetched, Sent
  <1>2. \A h \in hooks : Sent(h, v).hook = h
    BY DEF Sent
  <1>. QED  BY <1>1, <1>2, AbortTyped, SentTyped

LEMMA StartFetches ==
    ASSUME fetches \subseteq Fetch, shown \in [Hooks -> Async],
           NEW h \in Hooks, NEW v \in View, Start(h, v)
    PROVE  /\ fetches' \subseteq Fetch /\ shown' \in [Hooks -> Async]
           /\ \A f \in fetches' : f.live =>
                 \/ f \in fetches /\ f.hook # h
                 \/ f.hook = h /\ f = Sent(h, v)
           /\ shown'[h].loading
           /\ \A k \in Hooks \ {h} : shown'[k] = shown[k]
  <1>1. fetches' = Fetched({h}, v) /\ shown' = [shown EXCEPT ![h] = Loading(h)]
    BY DEF Start
  <1>2. /\ fetches' \subseteq Fetch
        /\ \A f \in fetches' : f.live => \/ f \in fetches /\ f.hook # h
                                         \/ f.hook = h /\ f = Sent(h, v)
    BY <1>1, FetchedTyped
  <1>. QED  BY <1>1, <1>2, HookStates

LEMMA RoutesGuarded ==
    ASSUME NEW r \in Routes, NEW st \in {"authenticated", "guest"}, NEW u
    PROVE  /\ Guarded(r, st, u) \in Routes
           /\ st = "guest" <=> Guarded(r, st, u) \in Public
           /\ Guarded(r, st, u) \in AdminOnly => IsAdmin(u)
           /\ r = "login" => Guarded(r, st, u) \in {"login", "home"}
  <1>1. CASE st = "guest"
    <2>1. CASE r \notin Public
      <3>1. Guarded(r, st, u) = "login"
        BY <1>1, <2>1, ZenonT(30) DEF Guarded
      <3>. QED  BY <1>1, <2>1, <3>1 DEF Routes, Public, AdminOnly
    <2>2. CASE r \in Public
      <3>1. r \in Public /\ r \notin AdminOnly /\ st # "authenticated"
        BY <1>1, <2>2 DEF Public, AdminOnly
      <3>2. Guarded(r, st, u) = r
        BY <3>1, ZenonT(30) DEF Guarded
      <3>. QED  BY <1>1, <2>2, <3>2 DEF Routes, Public, AdminOnly
    <2>. QED  BY <2>1, <2>2
  <1>2. CASE st = "authenticated" /\ r \in Public
    BY <1>2 DEF Guarded, Routes, Public, AdminOnly
  <1>3. CASE st = "authenticated" /\ r \notin Public
    <2>1. Guarded(r, st, u) = IF r \in AdminOnly /\ ~IsAdmin(u) THEN "home" ELSE r
      <3>1. ~(st = "guest") /\ ~(st = "authenticated" /\ r \in Public)
        BY <1>3
      <3>. QED  BY <3>1, ZenonT(30) DEF Guarded
    <2>2. CASE r \in AdminOnly /\ ~IsAdmin(u)
      BY <1>3, <2>1, <2>2 DEF Routes, Public, AdminOnly
    <2>3. CASE ~(r \in AdminOnly /\ ~IsAdmin(u))
      BY <1>3, <2>1, <2>3 DEF Routes, Public, AdminOnly
    <2>. QED  BY <2>2, <2>3
  <1>. QED  BY <1>1, <1>2, <1>3

LEMMA HooksTyped ==
    ASSUME NEW r \in Routes, NEW u
    PROVE  /\ HooksOf(r, u) \subseteq Hooks
           /\ r \in {"login", "home"} => HooksOf(r, u) \subseteq {"total", "admins"}
           /\ HooksOf(r, u) # {} => r \notin Public
           /\ "list" \in HooksOf(r, u) <=> r = "users"
           /\ "user" \in HooksOf(r, u) <=> r = "user"
  BY DEF HooksOf, Hooks, Routes, Public, AdminOnly

LEMMA FormsTyped ==
    ASSUME NEW r \in Routes
    PROVE  /\ FormOf(r) \in Form /\ ~FormOf(r).saving /\ ~FormOf(r).filled
           /\ FormOf(r).kind \in Public <=> r \in Public
           /\ FormOf(r).kind = "admin" <=> r = "users"
  BY DEF FormOf, Form, Kinds, Routes, Public, AdminOnly

-----------------------------------------------------------------------------
(* What a page is when it is mounted *)

LEMMA QueriesOfHome ==
    ASSUME NEW h \in {"total", "admins"}, NEW v, NEW w
    PROVE  QueryOf(h, v) = QueryOf(h, w)
  <1>1. CASE h = "total"
    BY <1>1, ZenonT(30) DEF QueryOf
  <1>2. CASE h = "admins"
    BY <1>2, ZenonT(30) DEF QueryOf
  <1>. QED  BY <1>1, <1>2

Unmount(kept) == [p \in 1..MaxPosts |-> [kept[p] EXCEPT !.mounted = FALSE]]

LEMMA Unmounting ==
    ASSUME NEW kept \in [1..MaxPosts -> Post]
    PROVE  /\ Unmount(kept) \in [1..MaxPosts -> Post]
           /\ \A p \in 1..MaxPosts :
                 /\ ~Unmount(kept)[p].mounted
                 /\ Unmount(kept)[p].kind = kept[p].kind /\ Unmount(kept)[p].pc = kept[p].pc
                 /\ Unmount(kept)[p].by = kept[p].by /\ Unmount(kept)[p].id = kept[p].id
  <1>1. ASSUME NEW p \in 1..MaxPosts
        PROVE  /\ [kept[p] EXCEPT !.mounted = FALSE] \in Post
               /\ [kept[p] EXCEPT !.mounted = FALSE].mounted = FALSE
               /\ [kept[p] EXCEPT !.mounted = FALSE].kind = kept[p].kind
               /\ [kept[p] EXCEPT !.mounted = FALSE].pc = kept[p].pc
               /\ [kept[p] EXCEPT !.mounted = FALSE].by = kept[p].by
               /\ [kept[p] EXCEPT !.mounted = FALSE].id = kept[p].id
    <2>1. kept[p] \in Post
      OBVIOUS
    <2>. QED  BY <2>1 DEF Post
  <1>. QED  BY <1>1 DEF Unmount

LEMMA Mounted ==
    ASSUME fetches \subseteq Fetch, NEW r \in Routes, NEW id \in Ids,
           NEW st \in {"authenticated", "guest"}, NEW u, NEW kept \in [1..MaxPosts -> Post],
           Mount(r, id, st, u, kept)
    PROVE  /\ route' = Guarded(r, st, u)
           /\ view' \in View
           /\ fetches' \subseteq Fetch
           /\ \A f \in fetches' : f.live =>
                 f.hook \in HooksOf(Guarded(r, st, u), u) /\ f = Sent(f.hook, view')
           /\ shown' \in [Hooks -> Async]
           /\ \A h \in HooksOf(Guarded(r, st, u), u) : shown'[h].loading
           /\ \A h \in Hooks \ HooksOf(Guarded(r, st, u), u) : shown'[h] = Unmounted
           /\ form' = FormOf(Guarded(r, st, u))
           /\ posts' = Unmount(kept)
           /\ told' \in {0, Len(users)}
  <1>. DEFINE to == Guarded(r, st, u)
              hooks == HooksOf(to, u)
              v == [FirstView EXCEPT !.id = id, !.from = IF to = "login" THEN r ELSE "home"]
  <1>0. /\ to \in Routes /\ hooks \subseteq Hooks
        /\ r = "login" => hooks \subseteq {"total", "admins"}
    BY RoutesGuarded, HooksTyped
  <1>1. v \in View
    BY NothingTyped DEF View, Routes
  <1>2. /\ route' = to /\ view' = IF r = "login" THEN FirstView ELSE v
        /\ fetches' = {Abort(f) : f \in fetches} \cup
                      {g \in Fetched(hooks, v) : g.live /\ g.hook \in hooks}
        /\ shown' = [h \in Hooks |-> IF h \in hooks THEN FirstLoad ELSE Unmounted]
        /\ form' = FormOf(to) /\ told' = IF to = "users" THEN Len(users) ELSE 0
        /\ posts' = [p \in DOMAIN kept |-> [kept[p] EXCEPT !.mounted = FALSE]]
    BY DEF Mount
  <1>. HIDE DEF to, hooks, v
  <1>3. view' \in View
    BY <1>1, <1>2, NothingTyped
  <1>4. \A h \in hooks : Sent(h, v) = Sent(h, view')
    <2>1. CASE r = "login"
      BY <2>1, <1>0, QueriesOfHome DEF Sent
    <2>2. CASE r # "login"
      BY <2>2, <1>2
    <2>. QED  BY <2>1, <2>2
  <1>5. /\ fetches' \subseteq Fetch
        /\ \A f \in fetches' : f.live => f.hook \in hooks /\ f = Sent(f.hook, view')
    <2>1. {Abort(f) : f \in fetches} \subseteq Fetch
      BY AbortTyped
    <2>2. \A f \in {Abort(g) : g \in fetches} : ~f.live
      BY AbortTyped
    <2>3. Fetched(hooks, v) \subseteq Fetch
      BY <1>0, <1>1, FetchedTyped
    <2>4. \A f \in Fetched(hooks, v) : f.live /\ f.hook \in hooks => f = Sent(f.hook, v)
      BY <1>0, <1>1, FetchedTyped
    <2>. QED  BY <1>2, <1>4, <2>1, <2>2, <2>3, <2>4
  <1>6. /\ shown' \in [Hooks -> Async] /\ \A h \in hooks : shown'[h].loading
        /\ \A h \in Hooks \ hooks : shown'[h] = Unmounted
    BY <1>0, <1>2, NothingTyped
  <1>7. posts' = Unmount(kept)
    BY <1>2 DEF Unmount
  <1>. QED  BY <1>2, <1>3, <1>5, <1>6, <1>7 DEF to, hooks

-----------------------------------------------------------------------------
(* Type correctness *)

\* The first free slot is free.
LEMMA SlotFree ==
    ASSUME posts \in [1..MaxPosts -> Post], NoPost \in Range(posts),
           NEW p, p = Min({s \in DOMAIN posts : posts[s] = NoPost})
    PROVE  p \in 1..MaxPosts /\ posts[p] = NoPost
  <1>. DEFINE S == {s \in DOMAIN posts : posts[s] = NoPost}
              less == OpToRel(<, Nat)
  <1>1. S # {} /\ S \subseteq Nat /\ S \subseteq 1..MaxPosts
    BY ConsoleAssumption DEF Range
  <1>2. PICK x \in S : \A y \in S : ~(<<y, x>> \in less)
    <2>1. IsWellFoundedOn(less, Nat)
      BY NatLessThanWellFounded
    <2>. HIDE DEF less, S
    <2>. QED  BY <1>1, <2>1, WFMin
  <1>3. \A y \in S : x <= y
    <2>1. less = {ss \in Nat \X Nat : ss[1] < ss[2]}
      BY DEF OpToRel
    <2>. HIDE DEF less, S
    <2>2. \A y \in S : y \in Nat /\ x \in Nat /\ ~(y < x)
      BY <1>1, <1>2, <2>1
    <2>. QED  BY <2>2
  <1>4. p \in S
    BY <1>3 DEF Min
  <1>. QED  BY <1>1, <1>4

LEMMA FreedKnown ==
    ASSUME TabInv, NEW p \in DOMAIN posts
    PROVE  KnownPosts(Freed(p)) /\ Freed(p)[p] = NoPost
           /\ \A s \in 1..MaxPosts : s # p => Freed(p)[s] = posts[s]
  <1>1. posts \in [1..MaxPosts -> Post] /\ Len(users) \in Nat
    BY ConsoleAssumption DEF TabInv, KnownPosts
  <1>2. Freed(p) = [posts EXCEPT ![p] = NoPost]
    BY DEF Freed
  <1>3. NoPost.by = 0 /\ NoPost.id = 0
    BY DEF NoPost
  <1>. QED  BY <1>1, <1>2, <1>3, NothingTyped DEF TabInv, KnownPosts

LEMMA Known ==
    ASSUME TabInv
    PROVE  /\ posts \in [1..MaxPosts -> Post] /\ fetches \subseteq Fetch
           /\ users \in Seq(User) /\ Len(users) \in Nat /\ 0..Len(users) \subseteq Ids
           /\ me \in 0..Len(users) /\ owner \in 0..Len(users) /\ told \in 0..Len(users)
           /\ \A p \in 1..MaxPosts : posts[p].by \in 0..Len(users) /\ posts[p].id \in 0..Len(users)
           /\ route \in Routes /\ view \in View /\ form \in Form
           /\ status \in {"authenticated", "guest"}
           /\ shown \in [Hooks -> Async]
           /\ view.id \in Ids /\ 0 \in Ids
           /\ \A p \in 1..MaxPosts : posts[p].from \in Routes /\ posts[p].of \in Ids
  <1>1. Len(users) \in Nat /\ 0..Len(users) \subseteq Ids
    BY ConsoleAssumption DEF TabInv, Ids
  <1>2. \A p \in 1..MaxPosts : posts[p].by \in 0..Len(users) /\ posts[p].id \in 0..Len(users)
    BY <1>1, ConsoleAssumption DEF TabInv, KnownPosts, Post, Ids
  <1>3. view.id \in Ids
    BY DEF TabInv, ConsoleTypeOK, View
  <1>4. \A p \in 1..MaxPosts : posts[p].from \in Routes /\ posts[p].of \in Ids
    BY DEF TabInv, KnownPosts, Post
  <1>. QED  BY <1>1, <1>2, <1>3, <1>4, ConsoleAssumption DEF TabInv, ConsoleTypeOK, Ids

\* Whatever else a step does, it mounts a page.
LEMMA MountTyped ==
    ASSUME TabInv, NEW r \in Routes, NEW id \in Ids,
           NEW st \in {"authenticated", "guest"}, NEW u \in 0..Len(users),
           NEW kept, KnownPosts(kept), Mount(r, id, st, u, kept),
           users' = users, owner' \in 0..Len(users), status' = st, me' = u
    PROVE  TabInv'
  <1>1. kept \in [1..MaxPosts -> Post]
    BY DEF KnownPosts
  <1>2. /\ route' = Guarded(r, st, u) /\ view' \in View /\ fetches' \subseteq Fetch
        /\ shown' \in [Hooks -> Async] /\ form' = FormOf(Guarded(r, st, u))
        /\ posts' = Unmount(kept) /\ told' \in {0, Len(users)}
    <2>1. fetches \subseteq Fetch
      BY Known
    <2>. QED  BY <1>1, <2>1, Mounted
  <1>3. route' \in Routes /\ form' \in Form
    BY <1>2, RoutesGuarded, FormsTyped
  <1>4. KnownPosts(posts)'
    BY <1>1, <1>2, Unmounting DEF KnownPosts
  <1>5. Len(users) \in 1..MaxUsers /\ 0..Len(users) \subseteq Ids /\ 0 \in Ids
    BY Known, ConsoleAssumption DEF TabInv, Ids
  <1>. QED  BY <1>1, <1>2, <1>3, <1>4, <1>5, Known, Unmounting DEF TabInv, ConsoleTypeOK

\* A page is mounted, and posts are answered or go on.
MountStep ==
    /\ UNCHANGED users
    /\ owner' \in 0..Len(users)
    /\ \E r \in Routes, id \in Ids, st \in {"authenticated", "guest"}, u \in 0..Len(users),
             kept \in [1..MaxPosts -> Post] :
          /\ status' = st /\ me' = u
          /\ KnownPosts(kept)
          /\ \A p \in 1..MaxPosts : kept[p] \in {posts[p], NoPost}
          /\ Mount(r, id, st, u, kept)

LEMMA MountStepTyped ==
    ASSUME TabInv, MountStep
    PROVE  TabInv'
  <1>1. PICK r \in Routes, id \in Ids, st \in {"authenticated", "guest"},
             u \in 0..Len(users), kept \in [1..MaxPosts -> Post] :
                 status' = st /\ me' = u /\ KnownPosts(kept) /\ Mount(r, id, st, u, kept)
    BY DEF MountStep
  <1>. QED  BY <1>1, MountTyped DEF MountStep

LEMMA KeptPosts ==
    ASSUME TabInv
    PROVE  /\ KnownPosts(posts) /\ \A p \in 1..MaxPosts : posts[p] \in {posts[p], NoPost}
           /\ \A s \in DOMAIN posts :
                 KnownPosts(Freed(s)) /\ \A p \in 1..MaxPosts : Freed(s)[p] \in {posts[p], NoPost}
  <1>1. ASSUME NEW s \in DOMAIN posts, NEW p \in 1..MaxPosts
        PROVE  KnownPosts(Freed(s)) /\ Freed(s)[p] \in {posts[p], NoPost}
    <2>1. CASE s = p
      BY <1>1, <2>1, FreedKnown
    <2>2. CASE s # p
      BY <1>1, <2>2, FreedKnown
    <2>. QED  BY <2>1, <2>2
  <1>2. \A s \in DOMAIN posts : KnownPosts(Freed(s))
    BY FreedKnown
  <1>. QED  BY <1>1, <1>2 DEF TabInv

\* The page that is there stays, though its address, the session or the user of the
\* tab may change: none of its forms is answered.
StayStep ==
    /\ UNCHANGED <<users, route, form, told>>
    /\ owner' \in 0..Len(users)
    /\ \E st \in {"authenticated", "guest"}, u \in 0..Len(users) :
          /\ status' = st /\ me' = u
          /\ Guarded(route, st, u) = route /\ HooksOf(route, u) = HooksOf(route, me)
    /\ \/ \E id \in Ids : Turned(id)
       \/ route \in Public /\ view' = FirstView /\ UNCHANGED <<shown, fetches>>
    /\ KnownPosts(posts')
    /\ \A p \in 1..MaxPosts : /\ posts'[p] \in {posts[p], NoPost}
                              /\ posts'[p].mounted = posts[p].mounted

LEMMA TurnedView ==
    ASSUME TabInv, NEW id \in Ids, Turned(id)
    PROVE  \/ UNCHANGED <<view, shown, fetches>>
           \/ \E v \in View : /\ v = view' /\ v = [view EXCEPT !.id = id]
                              /\ route = "user" /\ Start("user", v)
  <1>1. PICK v : v = [view EXCEPT !.id = id]
    OBVIOUS
  <1>2. v \in View
    BY <1>1, Known DEF View
  <1>3. CASE route # "user" \/ id = view.id
    BY <1>3 DEF Turned
  <1>4. CASE ~(route # "user" \/ id = view.id)
    <2>1. view' = v /\ Start("user", view') /\ route = "user"
      BY <1>1, <1>4 DEF Turned
    <2>2. Start("user", v)
      BY <2>1 DEF Start
    <2>. QED  BY <1>1, <1>2, <2>1, <2>2
  <1>. QED  BY <1>3, <1>4

LEMMA StayTyped ==
    ASSUME TabInv, StayStep
    PROVE  TabInv'
  <1>1. fetches' \subseteq Fetch /\ shown' \in [Hooks -> Async] /\ view' \in View
    <2>1. CASE UNCHANGED <<view, shown, fetches>>
      BY <2>1, Known
    <2>2. ASSUME NEW v \in View, v = view', Start("user", v)
          PROVE  fetches' \subseteq Fetch /\ shown' \in [Hooks -> Async] /\ view' \in View
      BY <2>2, Known, StartFetches DEF Hooks
    <2>3. CASE view' = FirstView /\ UNCHANGED <<shown, fetches>>
      BY <2>3, Known, NothingTyped
    <2>. QED  BY <2>1, <2>2, <2>3, TurnedView DEF StayStep
  <1>2. KnownPosts(posts)'
    BY DEF StayStep, KnownPosts
  <1>3. /\ UNCHANGED <<users, route, form, told>> /\ owner' \in 0..Len(users)
        /\ status' \in {"authenticated", "guest"} /\ me' \in 0..Len(users)
    BY DEF StayStep
  <1>. QED  BY <1>1, <1>2, <1>3, Known DEF TabInv, ConsoleTypeOK, KnownPosts

\* Requests that no form waits for any more.
Unawaited(kept) ==
    /\ KnownPosts(kept)
    /\ \A p \in 1..MaxPosts : /\ kept[p] \in {posts[p], NoPost}
                              /\ kept[p].mounted = posts[p].mounted

AnswersGone(kept) ==
    KnownPosts(kept) /\ \A p \in 1..MaxPosts : kept[p] \in {posts[p], NoPost}

LEMMA FreedUnawaited ==
    ASSUME TabInv, NEW p \in DOMAIN posts, ~posts[p].mounted
    PROVE  Unawaited(Freed(p))
  <1>1. NoPost.mounted = FALSE /\ posts[p].mounted = FALSE
    BY Known DEF NoPost, Post
  <1>. QED  BY <1>1, KeptPosts, FreedKnown DEF Unawaited

LEMMA MountIsStep ==
    ASSUME TabInv, NEW r \in Routes, NEW id \in Ids, NEW st \in {"authenticated", "guest"},
           NEW u \in 0..Len(users), NEW kept, AnswersGone(kept), Mount(r, id, st, u, kept),
           users' = users, owner' \in 0..Len(users), status' = st, me' = u
    PROVE  MountStep
  BY DEF MountStep, KnownPosts, AnswersGone

LEMMA NavigateIsStep ==
    ASSUME TabInv, NEW r \in Routes, NEW id \in Ids, NEW st \in {"authenticated", "guest"},
           NEW u \in 0..Len(users), NEW kept, AnswersGone(kept), Navigate(r, id, st, u, kept),
           users' = users, owner' \in 0..Len(users), status' = st, me' = u,
           Stays(r, st, u) => Unawaited(kept)
    PROVE  MountStep \/ StayStep
  <1>1. CASE Mount(r, id, st, u, kept)
    BY <1>1, MountIsStep
  <1>2. CASE Stays(r, st, u) /\ Turned(id) /\ posts' = kept /\ UNCHANGED <<route, form, told>>
    BY <1>2 DEF StayStep, Stays, Unawaited
  <1>. QED  BY <1>1, <1>2 DEF Navigate

LEMMA GuestsStay ==
    ASSUME TabInv, PageInv, status = "guest"
    PROVE  /\ route \in Public /\ route # "user"
           /\ Guarded(route, "guest", 0) = route
           /\ HooksOf(route, 0) = {} /\ HooksOf(route, me) = {}
  <1>1. route \in Public
    BY DEF PageInv, PageFitsUser
  <1>2. route # "user" /\ HooksOf(route, 0) = {} /\ HooksOf(route, me) = {}
    BY <1>1, Known, HooksTyped DEF Public
  <1>3. Guarded(route, "guest", 0) = route
    <2>1. route \in Public /\ route \notin AdminOnly /\ "guest" # "authenticated"
      BY <1>1 DEF Public, AdminOnly
    <2>. QED  BY <2>1, ZenonT(30) DEF Guarded
  <1>. QED  BY <1>1, <1>2, <1>3

LEMMA SessionOverIsStep ==
    ASSUME TabInv, PageInv, NEW kept, AnswersGone(kept), SessionOver(kept), users' = users,
           route \in Public => Unawaited(kept)
    PROVE  MountStep \/ StayStep
  <1>1. owner' = 0 /\ status' = "guest" /\ me' = 0 /\ 0 \in 0..Len(users)
    BY Known DEF SessionOver, Cleared
  <1>2. CASE Mount(route, view.id, "guest", 0, kept)
    BY <1>1, <1>2, Known, MountIsStep
  <1>3. CASE status = "guest" /\ posts' = kept /\ UNCHANGED <<ui, fetches>>
    <2>1. UNCHANGED <<users, route, view, shown, form, told, fetches>>
      BY <1>3 DEF ui
    <2>2. Turned(0) /\ 0 \in Ids
      BY <1>3, <2>1, GuestsStay, Known DEF Turned
    <2>. QED  BY <1>1, <1>3, <2>1, <2>2, GuestsStay DEF StayStep, Unawaited
  <1>. QED  BY <1>2, <1>3 DEF SessionOver

LEMMA SignOutIsStep ==
    ASSUME TabInv, PageInv, NEW kept, AnswersGone(kept), SignOut(kept), users' = users,
           route \in Public => Unawaited(kept)
    PROVE  MountStep \/ StayStep
  <1>1. owner' = 0 /\ status' = "guest" /\ me' = 0 /\ 0 \in 0..Len(users) /\ 0 \in Ids
        /\ "login" \in Routes
    BY Known DEF SignOut, Cleared, Routes, Public
  <1>2. CASE route # "login"
    BY <1>1, <1>2, MountIsStep DEF SignOut
  <1>3. CASE route = "login"
    <2>1. /\ view' = FirstView /\ posts' = kept
          /\ UNCHANGED <<route, shown, form, told, fetches>> /\ route \in Public
      BY <1>3 DEF SignOut, Public
    <2>2. status = "guest"
      BY <2>1 DEF PageInv, PageFitsUser
    <2>. QED  BY <1>1, <2>1, <2>2, GuestsStay DEF StayStep, Unawaited
  <1>. QED  BY <1>2, <1>3

\* On a page for guests only its own form waits.
LEMMA GuestsWait ==
    ASSUME TabInv, PageInv, NEW p \in DOMAIN posts, posts[p].mounted
    PROVE  route \in Public <=> posts[p].kind \in Public
  BY DEF PageInv, FormFits, Public

LEMMA GoToMoves ==
    ASSUME TabInv, NEW r \in Routes, NEW id \in 0..Len(users), GoTo(r, id)
    PROVE  MountStep \/ StayStep
  <1>1. /\ Navigate(r, id, status, me, posts)
        /\ users' = users /\ owner' = owner /\ status' = status /\ me' = me
    BY DEF GoTo, session
  <1>2. AnswersGone(posts) /\ Unawaited(posts)
    BY KeptPosts DEF AnswersGone, Unawaited
  <1>. QED  BY <1>1, <1>2, Known, NavigateIsStep

LEMMA SessionEndMoves ==
    ASSUME TabInv, PageInv, NEW f \in fetches, SessionEnds(f)
    PROVE  MountStep \/ StayStep
  <1>1. AnswersGone(posts) /\ Unawaited(posts)
    BY KeptPosts DEF AnswersGone, Unawaited
  <1>. QED  BY <1>1, SessionOverIsStep DEF SessionEnds

LEMMA LogInMoves ==
    ASSUME TabInv, PageInv, NEW p \in DOMAIN posts, LoggedIn(p) \/ SignedUp(p)
    PROVE  MountStep \/ StayStep
  <1>1. /\ posts[p].id \in 0..Len(users) /\ "home" \in Routes /\ 0 \in Ids
        /\ posts[p].from \in Routes /\ posts[p].of \in Ids
    BY Known DEF Routes
  <1>2. PICK r \in Routes, id \in Ids : Navigate(r, id, "authenticated", posts[p].id, Freed(p))
    BY <1>1 DEF LoggedIn, SignedUp
  <1>3. /\ owner' = posts[p].id /\ status' = "authenticated" /\ me' = posts[p].id
        /\ users' = users /\ posts[p].kind \in Public
    BY DEF LoggedIn, SignedUp, AfterAuth, Answered, Public
  <1>4. AnswersGone(Freed(p))
    BY KeptPosts DEF AnswersGone
  <1>5. ASSUME Stays(r, "authenticated", posts[p].id) PROVE Unawaited(Freed(p))
    <2>1. route \notin Public
      BY <1>5, RoutesGuarded DEF Stays
    <2>. QED  BY <1>3, <2>1, GuestsWait, FreedUnawaited
  <1>. QED  BY <1>1, <1>2, <1>3, <1>4, <1>5, NavigateIsStep

\* The answer to a sign-out, or its loss, and a form that learns of the session's end.
Leaving(p) ==
    /\ posts[p].kind \notin Public
    /\ SignOut(Freed(p)) \/ SessionOver(Freed(p))
    /\ UNCHANGED users

LEMMA LeavingMoves ==
    ASSUME TabInv, PageInv, NEW p \in DOMAIN posts, Leaving(p)
    PROVE  MountStep \/ StayStep
  <1>1. AnswersGone(Freed(p))
    BY KeptPosts DEF AnswersGone
  <1>2. route \in Public => Unawaited(Freed(p))
    BY GuestsWait, FreedUnawaited DEF Leaving
  <1>. QED  BY <1>1, <1>2, SignOutIsStep, SessionOverIsStep DEF Leaving

\* The state of the directory changes.
ShowStep ==
    /\ route = "users" /\ Kept
    /\ \E v \in View : v.id = view.id /\ Show(v)

\* The fields of a view that an event handler sets.
LEMMA ViewsTyped ==
    ASSUME NEW v \in View
    PROVE  /\ FirstPage(v) \in View /\ FirstPage(v).id = v.id
           /\ \A s \in BOOLEAN :
                 /\ [v EXCEPT !.search = s] \in View /\ [v EXCEPT !.search = s].id = v.id
           /\ [v EXCEPT !.debounced = v.search] \in View
           /\ [v EXCEPT !.debounced = v.search].id = v.id
           /\ \A r \in {"any", "admin", "user"} :
                 /\ [v EXCEPT !.role = r] \in View /\ [v EXCEPT !.role = r].id = v.id
                 /\ [v EXCEPT !.search = FALSE, !.role = r] \in View
                 /\ [v EXCEPT !.search = FALSE, !.role = r].id = v.id
           /\ \A n \in Nat \ {0} :
                 /\ [v EXCEPT !.page = n] \in View /\ [v EXCEPT !.page = n].id = v.id
  <1>1. FirstPage(v) \in View /\ FirstPage(v).id = v.id
    BY DEF FirstPage, View
  <1>2. ASSUME NEW s \in BOOLEAN
        PROVE  [v EXCEPT !.search = s] \in View /\ [v EXCEPT !.search = s].id = v.id
    BY DEF View
  <1>3. /\ [v EXCEPT !.debounced = v.search] \in View
        /\ [v EXCEPT !.debounced = v.search].id = v.id
    BY DEF View
  <1>4. ASSUME NEW r \in {"any", "admin", "user"}
        PROVE  /\ [v EXCEPT !.role = r] \in View /\ [v EXCEPT !.role = r].id = v.id
               /\ [v EXCEPT !.search = FALSE, !.role = r] \in View
               /\ [v EXCEPT !.search = FALSE, !.role = r].id = v.id
    BY DEF View
  <1>5. ASSUME NEW n \in Nat \ {0}
        PROVE  [v EXCEPT !.page = n] \in View /\ [v EXCEPT !.page = n].id = v.id
    BY DEF View
  <1>. QED  BY <1>1, <1>2, <1>3, <1>4, <1>5

LEMMA ShowSteps ==
    ASSUME TabInv,
           \/ \E b \in BOOLEAN : Type(b)
           \/ \E r \in {"any"} \cup Roles : PickRole(r)
           \/ ClearFilters \/ Debounce
           \/ \E n \in 1..MaxUsers : Turn(n)
    PROVE  ShowStep
  <1>0. view \in View
    BY Known
  <1>1. ASSUME NEW b \in BOOLEAN, Type(b) PROVE ShowStep
    <2>. DEFINE w == [view EXCEPT !.search = b]
    <2>1. w \in View /\ w.id = view.id
      BY <1>0, ViewsTyped
    <2>2. route = "users" /\ Kept /\ Show(FirstPage(w))
      BY <1>1 DEF Type, OnDirectory
    <2>. HIDE DEF w
    <2>3. FirstPage(w) \in View /\ FirstPage(w).id = view.id
      BY <2>1, ViewsTyped
    <2>. QED  BY <2>2, <2>3 DEF ShowStep
  <1>2. ASSUME NEW r \in {"any"} \cup Roles, PickRole(r) PROVE ShowStep
    <2>. DEFINE w == [view EXCEPT !.role = r]
    <2>1. w \in View /\ w.id = view.id
      BY <1>0, ViewsTyped, ConsoleAssumption
    <2>2. route = "users" /\ Kept /\ Show(FirstPage(w))
      BY <1>2 DEF PickRole, OnDirectory
    <2>. HIDE DEF w
    <2>3. FirstPage(w) \in View /\ FirstPage(w).id = view.id
      BY <2>1, ViewsTyped
    <2>. QED  BY <2>2, <2>3 DEF ShowStep
  <1>3. ASSUME ClearFilters PROVE ShowStep
    <2>. DEFINE w == [view EXCEPT !.search = FALSE, !.role = "any"]
    <2>1. w \in View /\ w.id = view.id
      BY <1>0, ViewsTyped
    <2>2. route = "users" /\ Kept /\ Show(FirstPage(w))
      BY <1>3 DEF ClearFilters, OnDirectory
    <2>. HIDE DEF w
    <2>3. FirstPage(w) \in View /\ FirstPage(w).id = view.id
      BY <2>1, ViewsTyped
    <2>. QED  BY <2>2, <2>3 DEF ShowStep
  <1>4. ASSUME Debounce PROVE ShowStep
    <2>. DEFINE w == [view EXCEPT !.debounced = view.search]
    <2>1. route = "users" /\ Kept /\ Show(w)
      BY <1>4 DEF Debounce, OnDirectory
    <2>2. w \in View /\ w.id = view.id
      BY <1>0, ViewsTyped
    <2>. HIDE DEF w
    <2>. QED  BY <2>1, <2>2 DEF ShowStep
  <1>5. ASSUME NEW n \in 1..MaxUsers, Turn(n) PROVE ShowStep
    <2>. DEFINE w == [view EXCEPT !.page = n]
    <2>1. route = "users" /\ Kept /\ Show(w) /\ n \in Nat \ {0}
      BY <1>5, ConsoleAssumption DEF Turn, OnDirectory
    <2>2. w \in View /\ w.id = view.id
      BY <1>0, <2>1, ViewsTyped
    <2>. HIDE DEF w
    <2>. QED  BY <2>1, <2>2 DEF ShowStep
  <1>. QED  BY <1>1, <1>2, <1>3, <1>4, <1>5

LEMMA ShowTyped ==
    ASSUME TabInv, ShowStep
    PROVE  TabInv'
  <1>1. PICK v \in View : Show(v)
    BY DEF ShowStep
  <1>2. /\ UNCHANGED <<users, owner, status, me, route, form, posts, told>>
    BY DEF ShowStep, Kept, session
  <1>3. fetches' \subseteq Fetch /\ shown' \in [Hooks -> Async] /\ view' \in View
    <2>1. CASE Start("list", v)
      BY <1>1, <2>1, Known, StartFetches DEF Show, Hooks
    <2>2. CASE UNCHANGED <<shown, fetches>>
      BY <1>1, <2>2, Known DEF Show
    <2>. QED  BY <1>1, <2>1, <2>2 DEF Show
  <1>. QED  BY <1>2, <1>3 DEF TabInv, ConsoleTypeOK, KnownPosts

\* A hook fetches again.
LEMMA StartTyped ==
    ASSUME TabInv, NEW h \in Hooks, Start(h, view),
           UNCHANGED <<users, session, route, view>>,
           form' \in Form, KnownPosts(posts)', told' \in 0..Len(users)
    PROVE  TabInv'
  <1>1. fetches' \subseteq Fetch /\ shown' \in [Hooks -> Async]
    BY Known, StartFetches
  <1>. QED  BY <1>1, Known DEF TabInv, ConsoleTypeOK, KnownPosts, session

\* A form changes, or the requests of forms do.
LEMMA FormTyped ==
    ASSUME TabInv, UNCHANGED <<users, owner, status, route, view, shown, fetches, told>>,
           me' \in 0..Len(users), form' \in Form, KnownPosts(posts)'
    PROVE  TabInv'
  BY Known DEF TabInv, ConsoleTypeOK, KnownPosts

\* A fetch goes on or is answered.
LEMMA FetchTyped ==
    ASSUME TabInv, UNCHANGED <<users, session, route, view, form, posts, told>>,
           fetches' \subseteq Fetch, shown' \in [Hooks -> Async]
    PROVE  TabInv'
  BY DEF TabInv, ConsoleTypeOK, KnownPosts, session

\* Accounts are created, and none is changed.
Grown ==
    /\ users' \in Seq(User) /\ Len(users') \in Len(users)..MaxUsers
    /\ \A u \in 1..Len(users) : users'[u] = users[u]

LEMMA NewUserGrows ==
    ASSUME TabInv, NEW admin \in BOOLEAN, NewUser(admin)
    PROVE  Grown /\ Len(users') = Len(users) + 1
  <1>1. users' = Append(users, [admin |-> admin])
    BY DEF NewUser
  <1>2. [admin |-> admin] \in User
    BY DEF User
  <1>3. Len(users) < MaxUsers
    BY DEF NewUser
  <1>. QED  BY <1>1, <1>2, <1>3, Known, ConsoleAssumption DEF Grown

LEMMA NobodyGrows ==
    ASSUME TabInv, users' = users
    PROVE  Grown
  BY Known, ConsoleAssumption DEF Grown, TabInv

LEMMA ServeTyped ==
    ASSUME TabInv, Grown, UNCHANGED <<session, ui, fetches>>, KnownPosts(posts)'
    PROVE  TabInv'
  <1>1. /\ posts' \in [1..MaxPosts -> Post] /\ users' \in Seq(User)
        /\ Len(users') \in 1..MaxUsers /\ Len(users) <= Len(users')
    BY Known, ConsoleAssumption DEF KnownPosts, Grown, TabInv
  <1>2. UNCHANGED <<owner, status, me, route, view, shown, form, told, fetches>>
    BY DEF session, ui
  <1>3. owner' <= Len(users') /\ me' <= Len(users') /\ told' <= Len(users')
    BY <1>1, <1>2, Known
  <1>4. ConsoleTypeOK'
    BY <1>1, <1>2 DEF TabInv, ConsoleTypeOK
  <1>. QED  BY <1>1, <1>3, <1>4 DEF TabInv

LEMMA TotalsTyped ==
    ASSUME TabInv, NEW q
    PROVE  Totals(q) \subseteq Nat
  <1>. DEFINE all == Cardinality(OfRole(q))
  <1>1. OfRole(q) \subseteq 1..Len(users) /\ Len(users) \in Nat
    BY Known DEF OfRole
  <1>2. IsFiniteSet(1..Len(users))
    BY <1>1, FS_Interval
  <1>3. all \in Nat
    BY <1>1, <1>2, FS_Subset, FS_CardinalityType
  <1>4. Totals(q) = IF q.search THEN 0..all ELSE {all}
    BY DEF Totals
  <1>. HIDE DEF all
  <1>. QED  BY <1>3, <1>4

\* A fetch goes on to be the fetch g.
GoesOn(f, g) ==
    /\ fetches' = (fetches \ {f}) \cup {g}
    /\ UNCHANGED <<users, session, ui, posts>>
    /\ g \in Fetch /\ g.hook = f.hook /\ g.live = f.live /\ g.data.q = f.data.q

LEMMA AnswerGoesOn ==
    ASSUME TabInv, NEW f \in fetches, NEW d \in Data, d.q = f.data.q, Answer(f, d),
           UNCHANGED <<users, session, ui, posts>>
    PROVE  \E g : GoesOn(f, g) /\ g.pc = "answered" /\ g.data = d
  <1>. DEFINE g == [f EXCEPT !.pc = "answered", !.data = d]
  <1>1. fetches' = (fetches \ {f}) \cup {g} /\ f \in Fetch
    BY Known DEF Answer
  <1>2. g \in Fetch /\ g.hook = f.hook /\ g.live = f.live /\ g.data = d /\ g.pc = "answered"
    BY <1>1 DEF Fetch
  <1>. HIDE DEF g
  <1>. QED  BY <1>1, <1>2 DEF GoesOn

LEMMA ReadOnce ==
    ASSUME TabInv, NEW f \in fetches, Read(f)
    PROVE  \E g : /\ GoesOn(f, g) /\ g.pc = "answered"
                  /\ f.hook = "list" => g.data.read = Len(users)
  <1>1. f \in Fetch /\ Len(users) \in Nat /\ UNCHANGED <<users, session, ui, posts>>
    BY Known DEF Read
  <1>2. CASE f.hook # "list"
    <2>1. Answer(f, f.data) /\ f.data \in Data
      BY <1>1, <1>2 DEF Read, Fetch
    <2>. QED  BY <1>1, <1>2, <2>1, AnswerGoesOn
  <1>3. CASE f.hook = "list"
    <2>1. PICK n \in Totals(f.data.q) : Answer(f, [f.data EXCEPT !.total = n, !.read = Len(users)])
      BY <1>3 DEF Read
    <2>. DEFINE d == [f.data EXCEPT !.total = n, !.read = Len(users)]
    <2>2. n \in Nat
      BY TotalsTyped
    <2>3. d \in Data /\ d.q = f.data.q /\ d.read = Len(users)
      BY <1>1, <2>2 DEF Fetch, Data
    <2>4. Answer(f, d)
      BY <2>1
    <2>. HIDE DEF d
    <2>. QED  BY <1>1, <2>3, <2>4, AnswerGoesOn
  <1>. QED  BY <1>2, <1>3

LEMMA FetchStepTyped ==
    ASSUME TabInv, NEW f \in fetches, Read(f) \/ Receive(f) \/ Fail(f)
    PROVE  TabInv'
  <1>1. ASSUME NEW g, GoesOn(f, g) PROVE TabInv'
    <2>1. fetches' \subseteq Fetch /\ UNCHANGED <<users, session, route, view, shown, form, posts, told>>
      BY <1>1, Known DEF GoesOn, ui
    <2>. QED  BY <2>1, Known, FetchTyped
  <1>2. CASE Receive(f) \/ Fail(f)
    <2>1. UNCHANGED <<users, session, route, view, form, posts, told>> /\ fetches' \subseteq Fetch
      BY <1>2, Known DEF Receive, Fail
    <2>2. f.hook \in Hooks /\ [data |-> f.data, error |-> FALSE, loading |-> FALSE] \in Async
          /\ Failed(f.hook) \in Async
      BY Known, HookStates DEF Fetch, Async
    <2>3. shown' \in [Hooks -> Async]
      BY <1>2, <2>2, Known DEF Receive, Fail
    <2>. QED  BY <2>1, <2>3, FetchTyped
  <1>. QED  BY <1>1, <1>2, ReadOnce

\* The post of a form, or of the sign-out button, takes a free slot.
LEMMA SendsPost ==
    ASSUME TabInv, NEW p \in DOMAIN posts, NoPost \in Range(posts),
           NEW kind \in Kinds \cup {"logout"}, NEW id \in 0..Len(users), NEW m \in BOOLEAN,
           Sends(p, kind, id, m), users' = users
    PROVE  /\ p \in 1..MaxPosts /\ posts[p] = NoPost
           /\ \A s \in 1..MaxPosts : s # p => posts'[s] = posts[s]
           /\ posts'[p].kind = kind /\ posts'[p].by = owner /\ posts'[p].mounted = m
           /\ posts'[p].pc = "sent" /\ posts'[p].id = id
           /\ KnownPosts(posts)'
  <1>. DEFINE from == IF kind = "login" THEN view.from ELSE "home"
              of == IF kind = "login" THEN view.id ELSE 0
              new == [kind |-> kind, by |-> owner, mounted |-> m, pc |-> "sent", id |-> id,
                      from |-> from, of |-> of]
  <1>1. posts[p] = NoPost /\ p \in 1..MaxPosts /\ posts' = [posts EXCEPT ![p] = new]
    <2>1. p = Min({s \in DOMAIN posts : posts[s] = NoPost}) /\ posts \in [1..MaxPosts -> Post]
      BY Known DEF Sends
    <2>2. p \in 1..MaxPosts /\ posts[p] = NoPost
      BY <2>1, SlotFree
    <2>. QED  BY <2>2 DEF Sends
  <1>2. /\ new \in Post /\ new.by <= Len(users) /\ new.id <= Len(users)
        /\ new.kind = kind /\ new.by = owner /\ new.mounted = m /\ new.pc = "sent" /\ new.id = id
    <2>1. from \in Routes /\ of \in Ids
      BY Known DEF View, Routes
    <2>. HIDE DEF from, of
    <2>. QED  BY <2>1, Known DEF Post
  <1>. HIDE DEF new
  <1>3. KnownPosts(posts)'
    BY <1>1, <1>2, Known DEF TabInv, KnownPosts
  <1>. QED  BY <1>1, <1>2, <1>3, Known

LEMMA SavedTyped ==
    ASSUME TabInv, NEW p \in DOMAIN posts, NEW f \in Form
    PROVE  /\ Saved(p, f) \in Form
           /\ Saved(p, f).saving = (f.saving /\ ~posts[p].mounted)
           /\ Saved(p, f).open = f.open /\ Saved(p, f).filled = f.filled
           /\ Saved(p, f).kind = f.kind
  <1>1. posts[p].mounted \in BOOLEAN
    BY Known DEF Post
  <1>. QED  BY <1>1 DEF Saved, Form

LEMMA FormStepTyped ==
    ASSUME TabInv, \/ \E b \in BOOLEAN : Fill(b)
                   \/ OpenModal \/ CloseModal \/ SwitchTab
    PROVE  TabInv'
  <1>0. UNCHANGED <<users, owner, status, me, route, view, shown, fetches, told>>
    BY DEF Fill, OpenModal, CloseModal, SwitchTab, OnlyForm, session
  <1>1. form' \in Form
    <2>1. CASE \E b \in BOOLEAN : Fill(b)
      BY <2>1, Known DEF Fill, Form
    <2>2. CASE OpenModal \/ CloseModal
      BY <2>2, Known DEF OpenModal, CloseModal, Form
    <2>3. CASE SwitchTab
      <3>1. FormOf("profile") \in Form
        BY FormsTyped DEF Routes
      <3>. QED  BY <2>3, <3>1 DEF SwitchTab, Form, Kinds
    <2>. QED  BY <2>1, <2>2, <2>3
  <1>2. KnownPosts(posts)'
    <2>1. CASE posts' = posts
      BY <2>1, <1>0 DEF TabInv, KnownPosts
    <2>2. CASE SwitchTab
      <3>1. posts' = Unmount(posts)
        BY <2>2, Known DEF SwitchTab, Unmount
      <3>. QED  BY <3>1, <1>0, Known, Unmounting DEF TabInv, KnownPosts
    <2>. QED  BY <2>1, <2>2 DEF Fill, OpenModal, CloseModal
  <1>. QED  BY <1>0, <1>1, <1>2, Known, FormTyped

LEMMA SubmitTyped ==
    ASSUME TabInv, NEW p \in DOMAIN posts,
           PressSignOut(p) \/ \E id \in 0..Len(users) : Submit(p, id)
    PROVE  TabInv'
  <1>0. UNCHANGED <<users, owner, status, me, route, view, shown, fetches, told>>
    BY DEF PressSignOut, Submit, OnlyForm, session
  <1>1. CASE PressSignOut(p)
    <2>1. Sends(p, "logout", 0, FALSE) /\ NoPost \in Range(posts) /\ form' = form
      BY <1>1 DEF PressSignOut
    <2>2. 0 \in 0..Len(users)
      BY Known
    <2>3. KnownPosts(posts)'
      BY <1>0, <2>1, <2>2, SendsPost
    <2>. QED  BY <1>0, <2>1, <2>3, Known, FormTyped
  <1>2. CASE \E id \in 0..Len(users) : Submit(p, id)
    <2>1. PICK id \in 0..Len(users) : Submit(p, id)
      BY <1>2
    <2>2. /\ Sends(p, form.kind, id, TRUE) /\ NoPost \in Range(posts)
          /\ form' = [form EXCEPT !.saving = TRUE] /\ form.kind \in Kinds
      BY <2>1, Known DEF Submit, Form
    <2>3. KnownPosts(posts)'
      BY <1>0, <2>2, SendsPost
    <2>4. form' \in Form
      BY <2>2, Known DEF Form
    <2>. QED  BY <1>0, <2>3, <2>4, Known, FormTyped
  <1>. QED  BY <1>1, <1>2

LEMMA AnswerTyped ==
    ASSUME TabInv, NEW p \in DOMAIN posts, OnlyAnswered(p)
    PROVE  TabInv'
  <1>1. UNCHANGED <<users, owner, status, me, route, view, shown, fetches, told>>
        /\ form' = Saved(p, form) /\ posts' = Freed(p)
    BY DEF OnlyAnswered, session
  <1>2. form' \in Form
    BY <1>1, Known, SavedTyped
  <1>3. KnownPosts(posts)'
    BY <1>1, FreedKnown DEF KnownPosts
  <1>. QED  BY <1>1, <1>2, <1>3, Known, FormTyped

\* setUser(updated) leaves the page or mounts it afresh.
SavedHere(p) ==
    /\ Answered(p, "details", "ok")
    /\ UNCHANGED <<users, owner, status, route, view, shown, fetches, told>>
    /\ me' = posts[p].id /\ posts' = Freed(p)
    /\ Stays(route, status, posts[p].id)
    /\ form' = Saved(p, IF posts[p].mounted THEN [form EXCEPT !.filled = FALSE] ELSE form)

SavedAway(p) ==
    /\ Answered(p, "details", "ok")
    /\ UNCHANGED <<users, owner, status>> /\ me' = posts[p].id
    /\ Mount(route, view.id, status, posts[p].id, Freed(p))

LEMMA ProfileCases ==
    ASSUME TabInv, NEW p \in DOMAIN posts, ProfileSaved(p)
    PROVE  SavedHere(p) \/ SavedAway(p)
  <1>. DEFINE u == posts[p].id
  <1>1. me' = u /\ UNCHANGED <<users, owner, status>>
    BY DEF ProfileSaved
  <1>2. CASE Stays(route, status, u)
    BY <1>1, <1>2 DEF ProfileSaved, SavedHere
  <1>3. CASE ~Stays(route, status, u)
    BY <1>1, <1>3 DEF ProfileSaved, SavedAway
  <1>. QED  BY <1>2, <1>3

LEMMA SavedHereTyped ==
    ASSUME TabInv, NEW p \in DOMAIN posts, SavedHere(p)
    PROVE  TabInv'
  <1>1. [form EXCEPT !.filled = FALSE] \in Form
    BY Known DEF Form
  <1>2. form' \in Form
    BY <1>1, Known, SavedTyped DEF SavedHere
  <1>3. KnownPosts(posts)'
    BY FreedKnown DEF SavedHere, KnownPosts
  <1>. QED  BY <1>2, <1>3, Known, FormTyped DEF SavedHere

\* The handler goes on to sign out.
LEMMA Relogin ==
    ASSUME TabInv, NEW p \in DOMAIN posts, PasswordSaved(p)
    PROVE  /\ KnownPosts(posts)' /\ p \in 1..MaxPosts
           /\ \A s \in 1..MaxPosts : s # p => posts'[s] = posts[s]
           /\ posts'[p].kind = "relogin" /\ posts'[p].mounted = posts[p].mounted
           /\ posts[p].kind = "security"
           /\ UNCHANGED <<users, session, ui, fetches>>
  <1>. DEFINE new == [posts[p] EXCEPT !.kind = "relogin", !.by = owner, !.pc = "sent"]
  <1>1. /\ p \in 1..MaxPosts /\ posts[p] \in Post /\ UNCHANGED <<users, session, ui, fetches>>
        /\ posts[p].kind = "security"
        /\ posts' = [posts EXCEPT ![p].kind = "relogin", ![p].by = owner, ![p].pc = "sent"]
    BY Known DEF PasswordSaved, Answered
  <1>2. posts' = [posts EXCEPT ![p] = new]
    BY <1>1, Known
  <1>3. /\ new \in Post /\ new.by <= Len(users) /\ new.id <= Len(users)
        /\ new.kind = "relogin" /\ new.mounted = posts[p].mounted
    BY <1>1, Known DEF Post
  <1>. HIDE DEF new
  <1>4. KnownPosts(posts)'
    BY <1>1, <1>2, <1>3, Known DEF TabInv, KnownPosts
  <1>. QED  BY <1>1, <1>2, <1>3, <1>4, Known

\* What a handler may answer.
MayAnswer(p, pc, id) ==
    \/ pc = "refused" /\ id = 0
    \/ /\ pc = "ok"
       /\ posts[p].kind \in {"admin", "signup"} => id # 0
       /\ posts[p].kind = "login" => id = posts[p].id
       /\ posts[p].kind \in {"details", "security", "logout", "relogin"} => id = posts[p].by

LEMMA Served ==
    ASSUME TabInv, NEW p \in DOMAIN posts, Serve(p)
    PROVE  /\ Grown /\ UNCHANGED <<session, ui, fetches>>
           /\ posts[p].kind # "none" /\ posts[p].pc = "sent"
           /\ \E pc \in {"ok", "refused"}, id \in 0..Len(users') :
                 Reply(p, pc, id) /\ MayAnswer(p, pc, id)
  <1>0. /\ posts[p].id \in 0..Len(users) /\ posts[p].by \in 0..Len(users)
        /\ Len(users) \in Nat /\ 0 \in 0..Len(users)
    BY Known
  <1>1. UNCHANGED <<session, ui, fetches>> /\ posts[p].kind # "none" /\ posts[p].pc = "sent"
    BY DEF Serve
  <1>2. CASE Reply(p, "refused", 0) /\ UNCHANGED users
    <2>1. Grown /\ 0 \in 0..Len(users')
      BY <1>0, <1>2, NobodyGrows
    <2>2. MayAnswer(p, "refused", 0)
      BY DEF MayAnswer
    <2>. QED  BY <1>1, <1>2, <2>1, <2>2
  <1>3. ASSUME NEW admin \in BOOLEAN, NewUser(admin), Reply(p, "ok", Len(users')),
               posts[p].kind \in {"admin", "signup"}
        PROVE  /\ Grown
               /\ \E pc \in {"ok", "refused"}, id \in 0..Len(users') :
                     Reply(p, pc, id) /\ MayAnswer(p, pc, id)
    <2>1. Grown /\ Len(users') = Len(users) + 1
      BY <1>3, NewUserGrows
    <2>2. MayAnswer(p, "ok", Len(users'))
      BY <1>0, <1>3, <2>1 DEF MayAnswer
    <2>3. Len(users') \in 0..Len(users')
      BY <1>0, <2>1
    <2>. QED  BY <1>3, <2>1, <2>2, <2>3
  <1>4. CASE posts[p].kind = "login" /\ Reply(p, "ok", posts[p].id) /\ UNCHANGED users
    <2>1. Grown /\ posts[p].id \in 0..Len(users')
      BY <1>0, <1>4, NobodyGrows
    <2>2. MayAnswer(p, "ok", posts[p].id)
      BY <1>4 DEF MayAnswer
    <2>. QED  BY <1>1, <1>4, <2>1, <2>2
  <1>5. CASE /\ posts[p].kind \in {"details", "security", "logout", "relogin"}
             /\ Reply(p, "ok", posts[p].by) /\ UNCHANGED users
    <2>1. Grown /\ posts[p].by \in 0..Len(users')
      BY <1>0, <1>5, NobodyGrows
    <2>2. MayAnswer(p, "ok", posts[p].by)
      BY <1>5 DEF MayAnswer
    <2>. QED  BY <1>1, <1>5, <2>1, <2>2
  <1>6. \/ Reply(p, "refused", 0) /\ UNCHANGED users
        \/ posts[p].kind = "admin" /\ NewUser(TRUE) /\ Reply(p, "ok", Len(users'))
        \/ posts[p].kind = "signup" /\ NewUser(FALSE) /\ Reply(p, "ok", Len(users'))
        \/ posts[p].kind = "login" /\ Reply(p, "ok", posts[p].id) /\ UNCHANGED users
        \/ /\ posts[p].kind \in {"details", "security", "logout", "relogin"}
           /\ Reply(p, "ok", posts[p].by) /\ UNCHANGED users
    BY DEF Serve
  <1>. QED  BY <1>1, <1>2, <1>3, <1>4, <1>5, <1>6

LEMMA ReplyKnown ==
    ASSUME TabInv, Grown, NEW p \in DOMAIN posts, NEW pc \in {"ok", "refused"},
           NEW id \in 0..Len(users'), Reply(p, pc, id)
    PROVE  /\ KnownPosts(posts)' /\ p \in 1..MaxPosts
           /\ \A s \in 1..MaxPosts : s # p => posts'[s] = posts[s]
           /\ posts'[p].kind = posts[p].kind /\ posts'[p].mounted = posts[p].mounted
           /\ posts'[p].by = posts[p].by
           /\ posts'[p].pc = pc /\ posts'[p].id = id
  <1>. DEFINE new == [posts[p] EXCEPT !.pc = pc, !.id = id]
  <1>1. /\ p \in 1..MaxPosts /\ posts[p] \in Post /\ posts \in [1..MaxPosts -> Post]
        /\ posts' = [posts EXCEPT ![p].pc = pc, ![p].id = id]
    BY Known DEF Reply
  <1>2. posts' = [posts EXCEPT ![p] = new]
    BY <1>1
  <1>3. Len(users) \in Nat /\ Len(users') \in Nat /\ Len(users) <= Len(users') /\ id \in Ids
        /\ Len(users') <= MaxUsers
    BY Known, ConsoleAssumption DEF Grown, Ids, TabInv
  <1>4. /\ new \in Post /\ new.kind = posts[p].kind /\ new.mounted = posts[p].mounted
        /\ new.by = posts[p].by /\ new.pc = pc /\ new.id = id
    BY <1>1, <1>3 DEF Post
  <1>. HIDE DEF new
  <1>5. \A s \in 1..MaxPosts : posts'[s].by <= Len(users') /\ posts'[s].id <= Len(users')
    <2>1. ASSUME NEW s \in 1..MaxPosts, s # p
          PROVE  posts'[s].by <= Len(users') /\ posts'[s].id <= Len(users')
      <3>1. posts'[s] = posts[s] /\ posts[s].by \in 0..Len(users) /\ posts[s].id \in 0..Len(users)
        BY <1>1, <1>2, <2>1, Known
      <3>. QED  BY <1>3, <3>1
    <2>2. posts'[p].by <= Len(users') /\ posts'[p].id <= Len(users')
      <3>1. posts'[p].by = posts[p].by /\ posts'[p].id = id /\ posts[p].by \in 0..Len(users)
        BY <1>1, <1>2, <1>4, Known
      <3>. QED  BY <1>3, <3>1
    <2>. QED  BY <2>1, <2>2
  <1>. QED  BY <1>1, <1>2, <1>4, <1>5 DEF KnownPosts

LEMMA ServerTyped ==
    ASSUME TabInv, Elsewhere \/ \E p \in DOMAIN posts : Serve(p)
    PROVE  TabInv'
  <1>1. CASE Elsewhere
    <2>1. Grown /\ UNCHANGED <<session, ui, fetches, posts>>
      BY <1>1, NewUserGrows DEF Elsewhere
    <2>2. KnownPosts(posts)'
      <3>1. Len(users) \in Nat /\ Len(users') \in Nat /\ Len(users) <= Len(users')
        BY <2>1, Known, ConsoleAssumption DEF Grown, TabInv
      <3>. QED  BY <2>1, <3>1, Known DEF TabInv, KnownPosts
    <2>. QED  BY <2>1, <2>2, ServeTyped
  <1>2. CASE \E p \in DOMAIN posts : Serve(p)
    <2>1. PICK p \in DOMAIN posts : Serve(p)
      BY <1>2
    <2>. QED  BY <2>1, Served, ReplyKnown, ServeTyped
  <1>. QED  BY <1>1, <1>2

\* The list is read again after an administrator is created.
LEMMA CreatedStarts ==
    ASSUME TabInv, NEW p \in DOMAIN posts, AdminCreated(p)
    PROVE  /\ p \in 1..MaxPosts /\ posts' = Freed(p)
           /\ UNCHANGED <<users, session, route, view>>
           /\ \/ /\ ~posts[p].mounted /\ UNCHANGED <<form, shown, fetches, told>>
              \/ /\ posts[p].mounted /\ Start("list", view) /\ form' = FormOf("users")
                 /\ told' = posts[p].id
  <1>. QED  BY Known DEF AdminCreated, OnCreated

LEMMA StartStepTyped ==
    ASSUME TabInv, \/ \E h \in Hooks : Retry(h)
                   \/ \E p \in DOMAIN posts : AdminCreated(p)
    PROVE  TabInv'
  <1>1. CASE \E h \in Hooks : Retry(h)
    <2>1. PICK h \in Hooks : Retry(h)
      BY <1>1
    <2>2. Start(h, view) /\ UNCHANGED <<users, session, route, view, form, posts, told>>
      BY <2>1 DEF Retry, Kept
    <2>3. form' \in Form /\ KnownPosts(posts)' /\ told' \in 0..Len(users)
      BY <2>2, Known DEF TabInv, KnownPosts
    <2>. QED  BY <2>2, <2>3, StartTyped
  <1>2. CASE \E p \in DOMAIN posts : AdminCreated(p)
    <2>1. PICK p \in DOMAIN posts : AdminCreated(p)
      BY <1>2
    <2>2. posts' = Freed(p) /\ UNCHANGED <<users, session, route, view>>
      BY <2>1, CreatedStarts
    <2>3. KnownPosts(posts)'
      BY <2>2, FreedKnown DEF KnownPosts
    <2>4. CASE UNCHANGED <<form, shown, fetches, told>>
      BY <2>2, <2>3, <2>4, Known, FormTyped DEF session
    <2>5. CASE Start("list", view) /\ form' = FormOf("users") /\ told' = posts[p].id
      <3>1. form' \in Form /\ told' \in 0..Len(users) /\ "list" \in Hooks
        BY <2>1, <2>5, CreatedStarts, Known, FormsTyped DEF Routes, AdminOnly, Hooks
      <3>. QED  BY <2>2, <2>3, <2>5, <3>1, StartTyped
    <2>. QED  BY <2>1, <2>4, <2>5, CreatedStarts
  <1>. QED  BY <1>1, <1>2

\* The steps that lead to a page, which may be the one that is there.
PageAction ==
    \/ \E r \in Routes, id \in 0..Len(users) : GoTo(r, id)
    \/ \E f \in fetches : SessionEnds(f)
    \/ \E p \in DOMAIN posts : LoggedIn(p) \/ SignedUp(p) \/ SavedAway(p) \/ Leaving(p)

LEMMA PageActions ==
    ASSUME TabInv, PageInv, PageAction
    PROVE  MountStep \/ StayStep
  <1>1. ASSUME NEW p \in DOMAIN posts, SavedAway(p) PROVE MountStep
    <2>1. /\ Mount(route, view.id, status, posts[p].id, Freed(p))
          /\ me' = posts[p].id /\ UNCHANGED <<users, owner, status>>
      BY <1>1 DEF SavedAway
    <2>2. AnswersGone(Freed(p))
      BY KeptPosts DEF AnswersGone
    <2>. QED  BY <2>1, <2>2, Known, MountIsStep
  <1>. QED  BY <1>1, GoToMoves, SessionEndMoves, LogInMoves, LeavingMoves DEF PageAction

LEMMA LeavingCases ==
    ASSUME NEW p \in DOMAIN posts, SignedOut(p) \/ Refused(p) \/ Lose(p) \/ Expelled(p)
    PROVE  Leaving(p) \/ OnlyAnswered(p)
  <1>1. CASE SignedOut(p)
    BY <1>1 DEF SignedOut, Leaves, Leaving, Public
  <1>2. CASE Refused(p)
    BY <1>2 DEF Refused
  <1>3. CASE Lose(p)
    BY <1>3 DEF Lose, Leaves, Leaving, Public
  <1>4. CASE Expelled(p)
    BY <1>4 DEF Expelled, Leaving, Public
  <1>. QED  BY <1>1, <1>2, <1>3, <1>4

\* Next, by what the steps do to the page.
LEMMA Steps ==
    ASSUME TabInv, Next
    PROVE  \/ PageAction
           \/ ShowStep
           \/ \E h \in Hooks : Retry(h)
           \/ \E b \in BOOLEAN : Fill(b)
           \/ OpenModal \/ CloseModal \/ SwitchTab
           \/ \E p \in DOMAIN posts :
                 \/ PressSignOut(p) \/ \E id \in 0..Len(users) : Submit(p, id)
                 \/ Serve(p) \/ SavedHere(p) \/ PasswordSaved(p) \/ AdminCreated(p)
                 \/ OnlyAnswered(p)
           \/ \E f \in fetches : Read(f) \/ Receive(f) \/ Fail(f)
           \/ Elsewhere
  <1>1. CASE UserStep
    BY <1>1, ShowSteps DEF UserStep, PageAction
  <1>2. CASE Debounce
    BY <1>2, ShowSteps
  <1>3. CASE FetchStep
    BY <1>3 DEF FetchStep, PageAction
  <1>4. CASE PostStep
    <2>1. PICK p \in DOMAIN posts :
              \/ Serve(p) \/ LoggedIn(p) \/ SignedUp(p) \/ ProfileSaved(p)
              \/ PasswordSaved(p) \/ SignedOut(p) \/ AdminCreated(p)
              \/ Refused(p) \/ Lose(p) \/ Expelled(p)
      BY <1>4 DEF PostStep
    <2>2. CASE LoggedIn(p) \/ SignedUp(p)
      BY <2>2 DEF PageAction
    <2>3. CASE ProfileSaved(p)
      BY <2>3, ProfileCases DEF PageAction
    <2>4. CASE SignedOut(p) \/ Refused(p) \/ Lose(p) \/ Expelled(p)
      BY <2>4, LeavingCases DEF PageAction
    <2>. QED  BY <2>1, <2>2, <2>3, <2>4
  <1>. QED  BY <1>1, <1>2, <1>3, <1>4 DEF Next, Answers

LEMMA ReloginTyped ==
    ASSUME TabInv, NEW p \in DOMAIN posts, PasswordSaved(p)
    PROVE  TabInv'
  <1>1. KnownPosts(posts)' /\ UNCHANGED <<users, session, ui, fetches>>
    BY Relogin
  <1>. QED  BY <1>1, Known, FormTyped DEF session, ui

LEMMA TabStep ==
    ASSUME TabInv, PageInv, [Next]_vars
    PROVE  TabInv'
  <1>1. CASE Next
    BY <1>1, Steps, PageActions, MountStepTyped, StayTyped, ShowTyped, StartStepTyped, FormStepTyped, SubmitTyped,
       ServerTyped, SavedHereTyped, AnswerTyped, FetchStepTyped, ReloginTyped
  <1>2. CASE UNCHANGED vars
    BY <1>2 DEF vars, ui, session, TabInv, ConsoleTypeOK, KnownPosts
  <1>. QED  BY <1>1, <1>2

LEMMA TabInit ==
    ASSUME Init
    PROVE  TabInv
  <1>1. users \in Seq(User) /\ Len(users) = 1 /\ 1 \in 1..MaxUsers
    BY ConsoleAssumption DEF Init, User
  <1>2. KnownPosts(posts)
    <2>1. NoPost.by = 0 /\ NoPost.id = 0
      BY DEF NoPost
    <2>. QED  BY <1>1, <2>1, NothingTyped DEF Init, KnownPosts
  <1>3. "login" \in Routes /\ form \in Form /\ 0 \in Ids
    BY FormsTyped, ConsoleAssumption DEF Init, Routes, Public, Ids
  <1>4. ConsoleTypeOK
    BY <1>1, <1>2, <1>3, NothingTyped DEF Init, ConsoleTypeOK, KnownPosts
  <1>. QED  BY <1>1, <1>2, <1>4 DEF Init, TabInv

-----------------------------------------------------------------------------
(* The page fits its user *)

LEMMA AdminsStand ==
    ASSUME TabInv, Grown, NEW u \in 0..Len(users)
    PROVE  IsAdmin(u)' <=> IsAdmin(u)
  <1>1. u # 0 => u \in 1..Len(users)
    BY Known
  <1>. QED  BY <1>1 DEF IsAdmin, Grown

\* The hooks of a page stay the same while accounts are created.
LEMMA HooksStand ==
    ASSUME TabInv, Grown, NEW r, NEW u \in 0..Len(users)
    PROVE  HooksOf(r, u)' = HooksOf(r, u)
  <1>1. CASE r \notin {"users", "user", "home"}
    <2>1. r # "users" /\ r # "user" /\ r # "home"
      BY <1>1
    <2>2. HooksOf(r, u) = {}
      BY <2>1, ZenonT(30) DEF HooksOf
    <2>3. HooksOf(r, u)' = {}
      BY <2>1, ZenonT(30) DEF HooksOf
    <2>. QED  BY <2>2, <2>3
  <1>2. CASE r = "users"
    <2>1. HooksOf(r, u) = {"list"} /\ HooksOf(r, u)' = {"list"}
      BY <1>2, ZenonT(30) DEF HooksOf
    <2>. QED  BY <2>1
  <1>3. CASE r = "user"
    <2>1. HooksOf(r, u) = {"user"} /\ HooksOf(r, u)' = {"user"}
      BY <1>3, ZenonT(30) DEF HooksOf
    <2>. QED  BY <2>1
  <1>4. CASE r = "home"
    <2>1. HooksOf(r, u) = IF IsAdmin(u) THEN {"total", "admins"} ELSE {}
      BY <1>4, ZenonT(30) DEF HooksOf
    <2>2. HooksOf(r, u)' = IF IsAdmin(u)' THEN {"total", "admins"} ELSE {}
      BY <1>4, ZenonT(30) DEF HooksOf
    <2>. QED  BY <2>1, <2>2, AdminsStand
  <1>. QED  BY <1>1, <1>2, <1>3, <1>4

\* The page is there still, and only its own hooks have moved.
LEMMA PageStill ==
    ASSUME TabInv, PageInv, Grown, UNCHANGED route,
           NEW u \in 0..Len(users), u = me', HooksOf(route, u) = HooksOf(route, me),
           NEW r, r = route, r \in Public <=> status' = "guest", r \in AdminOnly => IsAdmin(u),
           \A h \in Hooks \ HooksOf(route, me) : shown'[h] = shown[h],
           \A f \in fetches' : f.live => f.hook \in HooksOf(route, me),
           FormFits'
    PROVE  PageInv'
  <1>1. HooksOf(r, u)' = HooksOf(r, u) /\ (IsAdmin(u)' <=> IsAdmin(u))
    BY HooksStand, AdminsStand
  <1>2. HooksOf(route, me)' = HooksOf(route, me) /\ (IsAdmin(me)' <=> IsAdmin(u))
    BY <1>1
  <1>3. PageFitsUser'
    BY <1>2 DEF PageInv, PageFitsUser
  <1>. QED  BY <1>2, <1>3 DEF PageInv

LEMMA PageSame ==
    ASSUME TabInv, PageInv, Grown, UNCHANGED <<status, me, route>>,
           \A h \in Hooks \ HooksOf(route, me) : shown'[h] = shown[h],
           \A f \in fetches' : f.live => f.hook \in HooksOf(route, me),
           FormFits'
    PROVE  PageInv'
  <1>1. PICK u, r : u = me /\ r = route /\ u \in 0..Len(users)
    BY Known
  <1>. QED  BY <1>1, PageStill DEF PageInv, PageFitsUser

LEMMA FormSame ==
    ASSUME TabInv, PageInv, UNCHANGED route, form'.kind = form.kind, DOMAIN posts' = DOMAIN posts,
           \A p \in DOMAIN posts : posts'[p].mounted =>
               /\ posts[p].mounted
               /\ posts'[p].kind \in {posts[p].kind, "relogin"}
               /\ posts'[p].kind = posts[p].kind \/ posts[p].kind = "security"
    PROVE  FormFits'
  BY DEF PageInv, FormFits

LEMMA NoneMounted ==
    ASSUME TabInv, NEW to, route' = to, form'.kind \in Public <=> to \in Public,
           form'.kind = "admin" <=> to = "users", DOMAIN posts' = DOMAIN posts,
           \A p \in DOMAIN posts : ~posts'[p].mounted
    PROVE  FormFits'
  BY DEF FormFits

LEMMA FreedForms ==
    ASSUME TabInv, NEW p \in DOMAIN posts, posts' = Freed(p)
    PROVE  /\ DOMAIN posts' = DOMAIN posts
           /\ \A s \in DOMAIN posts : posts'[s].mounted => posts'[s] = posts[s]
  <1>1. NoPost.mounted = FALSE
    BY DEF NoPost
  <1>. QED  BY <1>1, FreedKnown, Known DEF KnownPosts

LEMMA MountFits ==
    ASSUME TabInv, MountStep
    PROVE  PageInv'
  <1>1. PICK r \in Routes, id \in Ids, st \in {"authenticated", "guest"},
             u \in 0..Len(users), kept \in [1..MaxPosts -> Post] :
                 status' = st /\ me' = u /\ Mount(r, id, st, u, kept)
    BY DEF MountStep
  <1>2. PICK to : to = Guarded(r, st, u)
    OBVIOUS
  <1>3. /\ route' = to /\ form' = FormOf(to) /\ posts' = Unmount(kept)
        /\ \A f \in fetches' : f.live => f.hook \in HooksOf(to, u)
        /\ \A h \in Hooks \ HooksOf(to, u) : shown'[h] = Unmounted
    <2>1. fetches \subseteq Fetch
      BY Known
    <2>. QED  BY <1>1, <1>2, <2>1, Mounted
  <1>4. /\ to \in Routes
        /\ to \in Public <=> st = "guest"
        /\ to \in AdminOnly => IsAdmin(u)
    BY <1>2, RoutesGuarded
  <1>5. Grown
    BY NobodyGrows DEF MountStep
  <1>6. HooksOf(to, u)' = HooksOf(to, u) /\ (IsAdmin(u)' <=> IsAdmin(u))
    BY <1>5, HooksStand, AdminsStand
  <1>7. HooksOf(route, me)' = HooksOf(to, u) /\ (IsAdmin(me)' <=> IsAdmin(u))
    BY <1>1, <1>3, <1>6
  <1>8. FormFits'
    <2>1. DOMAIN posts' = DOMAIN posts /\ \A p \in DOMAIN posts : ~posts'[p].mounted
      BY <1>3, Unmounting, Known
    <2>2. /\ FormOf(to).kind \in Public <=> to \in Public
          /\ FormOf(to).kind = "admin" <=> to = "users"
      BY <1>4, FormsTyped
    <2>. QED  BY <1>3, <2>1, <2>2, NoneMounted
  <1>9. PageFitsUser'
    BY <1>1, <1>3, <1>4, <1>7 DEF PageFitsUser
  <1>. QED  BY <1>3, <1>7, <1>8, <1>9 DEF PageInv

LEMMA StartFits ==
    ASSUME TabInv, PageInv, NEW h \in HooksOf(route, me), NEW v \in View, Start(h, v),
           h \in Hooks
    PROVE  /\ \A k \in Hooks \ HooksOf(route, me) : shown'[k] = shown[k]
           /\ \A f \in fetches' : f.live => f.hook \in HooksOf(route, me)
  <1>1. /\ \A f \in fetches' : f.live => \/ f \in fetches /\ f.hook # h
                                         \/ f.hook = h /\ f = Sent(h, v)
        /\ \A k \in Hooks \ {h} : shown'[k] = shown[k]
    BY Known, StartFetches
  <1>. QED  BY <1>1 DEF PageInv

LEMMA StayFits ==
    ASSUME TabInv, PageInv, StayStep
    PROVE  PageInv'
  <1>1. PICK st \in {"authenticated", "guest"}, u \in 0..Len(users) :
            /\ status' = st /\ me' = u
            /\ Guarded(route, st, u) = route /\ HooksOf(route, u) = HooksOf(route, me)
    BY DEF StayStep
  <1>2. PICK r : r = route /\ r \in Routes
    BY Known
  <1>3. r \in Public <=> st = "guest"
    BY <1>1, <1>2, RoutesGuarded
  <1>4. r \in AdminOnly => IsAdmin(u)
    BY <1>1, <1>2, RoutesGuarded
  <1>5. /\ \A k \in Hooks \ HooksOf(route, me) : shown'[k] = shown[k]
        /\ \A f \in fetches' : f.live => f.hook \in HooksOf(route, me)
    <2>1. CASE UNCHANGED <<shown, fetches>>
      BY <2>1 DEF PageInv
    <2>2. ASSUME NEW v \in View, route = "user", Start("user", v)
          PROVE  /\ \A k \in Hooks \ HooksOf(route, me) : shown'[k] = shown[k]
                 /\ \A f \in fetches' : f.live => f.hook \in HooksOf(route, me)
      <3>1. "user" \in HooksOf(route, me) /\ "user" \in Hooks
        BY <2>2, Known, HooksTyped DEF Hooks
      <3>. QED  BY <2>2, <3>1, StartFits
    <2>. QED  BY <2>1, <2>2, TurnedView DEF StayStep
  <1>6. FormFits'
    <2>1. /\ UNCHANGED <<route, form>> /\ DOMAIN posts' = DOMAIN posts
          /\ \A p \in DOMAIN posts : /\ posts'[p] \in {posts[p], NoPost}
                                     /\ posts'[p].mounted = posts[p].mounted
      BY Known DEF StayStep, KnownPosts
    <2>2. NoPost.mounted = FALSE
      BY DEF NoPost
    <2>. QED  BY <2>1, <2>2, FormSame
  <1>7. Grown /\ UNCHANGED route
    BY NobodyGrows DEF StayStep
  <1>. QED  BY <1>1, <1>2, <1>3, <1>4, <1>5, <1>6, <1>7, PageStill

\* A hook of the page fetches again.
LEMMA RestartFits ==
    ASSUME TabInv, PageInv, UNCHANGED <<users, status, me, route>>,
           NEW h \in Hooks, h \in HooksOf(route, me), NEW v \in View, Start(h, v), FormFits'
    PROVE  PageInv'
  BY StartFits, NobodyGrows, PageSame

LEMMA ShowFits ==
    ASSUME TabInv, PageInv, ShowStep
    PROVE  PageInv'
  <1>1. PICK v \in View : Show(v)
    BY DEF ShowStep
  <1>2. UNCHANGED <<users, status, me, route, form, posts>> /\ route = "users"
    BY DEF ShowStep, Kept, session
  <1>3. FormFits'
    BY <1>2, FormSame
  <1>4. CASE Start("list", v)
    <2>1. "list" \in HooksOf(route, me) /\ "list" \in Hooks
      BY <1>2, Known, HooksTyped DEF Hooks
    <2>. QED  BY <1>2, <1>3, <1>4, <2>1, RestartFits
  <1>5. CASE UNCHANGED <<shown, fetches>>
    BY <1>2, <1>3, <1>5, NobodyGrows, PageSame DEF PageInv
  <1>. QED  BY <1>1, <1>4, <1>5 DEF Show

LEMMA RetryFits ==
    ASSUME TabInv, PageInv, NEW h \in Hooks, Retry(h)
    PROVE  PageInv'
  <1>1. /\ Start(h, view) /\ shown[h].error
        /\ UNCHANGED <<users, status, me, route, form, posts>>
    BY DEF Retry, Kept, session
  <1>2. h \in HooksOf(route, me)
    BY <1>1, NothingTyped DEF PageInv, PageFitsUser
  <1>3. FormFits'
    BY <1>1, FormSame
  <1>. QED  BY <1>1, <1>2, <1>3, Known, RestartFits

LEMMA CreatedFits ==
    ASSUME TabInv, PageInv, NEW p \in DOMAIN posts, AdminCreated(p)
    PROVE  PageInv'
  <1>1. /\ posts' = Freed(p) /\ UNCHANGED <<users, status, me, route>>
        /\ \/ ~posts[p].mounted /\ UNCHANGED <<form, shown, fetches>>
           \/ posts[p].mounted /\ Start("list", view) /\ form' = FormOf("users")
    BY CreatedStarts DEF session
  <1>2. CASE ~posts[p].mounted /\ UNCHANGED <<form, shown, fetches>>
    <2>1. FormFits'
      BY <1>1, <1>2, FreedForms, FormSame
    <2>. QED  BY <1>1, <1>2, <2>1, NobodyGrows, PageSame DEF PageInv
  <1>3. CASE posts[p].mounted /\ Start("list", view) /\ form' = FormOf("users")
    <2>1. form.kind = "admin" /\ route = "users"
      BY <1>3 DEF AdminCreated, Answered, PageInv, FormFits
    <2>2. "list" \in HooksOf(route, me) /\ "list" \in Hooks
      BY <2>1, Known, HooksTyped DEF Hooks
    <2>3. form'.kind = form.kind
      BY <1>3, <2>1, FormsTyped DEF Routes, AdminOnly
    <2>4. FormFits'
      BY <1>1, <2>3, FreedForms, FormSame
    <2>. QED  BY <1>1, <1>3, <2>2, <2>4, Known, RestartFits
  <1>. QED  BY <1>1, <1>2, <1>3

LEMMA FetchFits ==
    ASSUME TabInv, PageInv, NEW f \in fetches, Read(f) \/ Receive(f) \/ Fail(f)
    PROVE  PageInv'
  <1>1. UNCHANGED <<users, status, me, route, form, posts>>
    BY DEF Read, Receive, Fail, session, ui
  <1>2. FormFits'
    BY <1>1, FormSame
  <1>3. CASE Receive(f) \/ Fail(f)
    <2>1. fetches' = fetches \ {f} /\ \A h \in Hooks : shown'[h] = shown[h] \/ (f.live /\ h = f.hook)
      <3>1. fetches' = fetches \ {f} /\ shown \in [Hooks -> Async]
        BY <1>3, Known DEF Receive, Fail
      <3>2. CASE Receive(f)
        BY <3>1, <3>2 DEF Receive, Accepts
      <3>3. CASE Fail(f)
        BY <3>1, <3>3 DEF Fail, Accepts
      <3>. QED  BY <1>3, <3>1, <3>2, <3>3
    <2>. QED  BY <1>1, <1>2, <2>1, NobodyGrows, PageSame DEF PageInv
  <1>4. CASE Read(f)
    <2>1. PICK g : GoesOn(f, g)
      BY <1>4, ReadOnce
    <2>2. /\ fetches' = (fetches \ {f}) \cup {g} /\ g.hook = f.hook /\ g.live = f.live
          /\ shown' = shown
      BY <2>1 DEF GoesOn, ui
    <2>. QED  BY <1>1, <1>2, <2>2, NobodyGrows, PageSame DEF PageInv
  <1>. QED  BY <1>3, <1>4

LEMMA SendingFits ==
    ASSUME TabInv, PageInv, NEW p \in DOMAIN posts,
           PressSignOut(p) \/ \E id \in 0..Len(users) : Submit(p, id)
    PROVE  FormFits'
  <1>1. CASE PressSignOut(p)
    <2>0. 0 \in 0..Len(users)
      BY Known
    <2>1. /\ NoPost \in Range(posts) /\ Sends(p, "logout", 0, FALSE)
          /\ form' = form /\ users' = users /\ route' = route
      BY <1>1 DEF PressSignOut, OnlyForm
    <2>2. /\ KnownPosts(posts)' /\ posts'[p].mounted = FALSE
          /\ \A s \in 1..MaxPosts : s # p => posts'[s] = posts[s]
      BY <2>0, <2>1, SendsPost
    <2>3. /\ DOMAIN posts' = DOMAIN posts
          /\ \A s \in DOMAIN posts : posts'[s].mounted => posts'[s] = posts[s]
      BY <2>2, Known DEF KnownPosts
    <2>. QED  BY <2>1, <2>3, FormSame
  <1>2. ASSUME NEW id \in 0..Len(users), Submit(p, id) PROVE FormFits'
    <2>1. /\ NoPost \in Range(posts) /\ Sends(p, form.kind, id, TRUE)
          /\ form' = [form EXCEPT !.saving = TRUE] /\ users' = users /\ route' = route
          /\ form.kind \in Kinds /\ form \in Form
      BY <1>2, Known DEF Submit, OnlyForm, Form
    <2>2. /\ KnownPosts(posts)' /\ posts'[p].kind = form.kind
          /\ \A s \in 1..MaxPosts : s # p => posts'[s] = posts[s]
      BY <2>1, SendsPost
    <2>3. form'.kind = form.kind
      BY <2>1 DEF Form
    <2>4. DOMAIN posts' = DOMAIN posts /\ DOMAIN posts = 1..MaxPosts
      BY <2>2, Known DEF KnownPosts
    <2>. QED  BY <2>1, <2>2, <2>3, <2>4 DEF PageInv, FormFits
  <1>. QED  BY <1>1, <1>2

LEMMA FormStepFits ==
    ASSUME TabInv, PageInv,
           \/ \E b \in BOOLEAN : Fill(b)
           \/ OpenModal \/ CloseModal \/ SwitchTab
           \/ \E p \in DOMAIN posts :
                 \/ PressSignOut(p) \/ \E id \in 0..Len(users) : Submit(p, id)
                 \/ OnlyAnswered(p)
    PROVE  PageInv'
  <1>1. UNCHANGED <<users, status, me, route, shown, fetches>>
    BY DEF Fill, OpenModal, CloseModal, SwitchTab, PressSignOut, Submit, OnlyForm,
           OnlyAnswered, session
  <1>2. FormFits'
    <2>1. CASE (\E b \in BOOLEAN : Fill(b)) \/ OpenModal \/ CloseModal
      <3>1. posts' = posts /\ form'.kind = form.kind
        BY <2>1, Known DEF Fill, OpenModal, CloseModal, Form
      <3>. QED  BY <1>1, <3>1, FormSame
    <2>2. CASE SwitchTab
      <3>1. posts' = Unmount(posts) /\ route = "profile"
        BY <2>2, Known DEF SwitchTab, Unmount
      <3>2. DOMAIN posts' = DOMAIN posts /\ \A p \in DOMAIN posts : ~posts'[p].mounted
        BY <3>1, Known, Unmounting
      <3>3. form'.kind \in {"details", "security"}
        <4>1. FormOf("profile") \in Form
          BY FormsTyped DEF Routes
        <4>. QED  BY <2>2, <4>1 DEF SwitchTab, Form
      <3>4. PICK to : to = route' /\ to = "profile"
        BY <1>1, <3>1
      <3>5. form'.kind \notin Public /\ to \notin Public /\ form'.kind # "admin" /\ to # "users"
        BY <3>3, <3>4 DEF Public
      <3>. QED  BY <3>2, <3>4, <3>5, NoneMounted
    <2>3. ASSUME NEW p \in DOMAIN posts, OnlyAnswered(p) PROVE FormFits'
      <3>1. posts' = Freed(p) /\ form'.kind = form.kind
        BY <2>3, Known, SavedTyped DEF OnlyAnswered
      <3>. QED  BY <1>1, <3>1, FreedForms, FormSame
    <2>. QED  BY <2>1, <2>2, <2>3, SendingFits
  <1>. QED  BY <1>1, <1>2, NobodyGrows, PageSame DEF PageInv

LEMMA SavedHereFits ==
    ASSUME TabInv, PageInv, NEW p \in DOMAIN posts, SavedHere(p)
    PROVE  PageInv'
  <1>1. /\ UNCHANGED <<users, status, route, shown, fetches>> /\ posts' = Freed(p)
        /\ Guarded(route, status, posts[p].id) = route
        /\ HooksOf(route, posts[p].id) = HooksOf(route, me)
    BY DEF SavedHere, Stays
  <1>2. PICK u, r : u = posts[p].id /\ r = route /\ r \in Routes /\ u \in 0..Len(users) /\ u = me'
    BY Known DEF SavedHere
  <1>3. r \in AdminOnly => IsAdmin(u)
    BY <1>1, <1>2, Known, RoutesGuarded
  <1>4. form'.kind = form.kind
    <2>1. [form EXCEPT !.filled = FALSE] \in Form /\ [form EXCEPT !.filled = FALSE].kind = form.kind
      BY Known DEF Form
    <2>. QED  BY <2>1, Known, SavedTyped DEF SavedHere
  <1>5. FormFits'
    BY <1>1, <1>4, FreedForms, FormSame
  <1>6. r \in Public <=> status' = "guest"
    BY <1>1, <1>2 DEF PageInv, PageFitsUser
  <1>7. Grown
    BY <1>1, NobodyGrows
  <1>8. /\ \A k \in Hooks \ HooksOf(route, me) : shown'[k] = shown[k]
        /\ \A f \in fetches' : f.live => f.hook \in HooksOf(route, me)
    BY <1>1 DEF PageInv
  <1>9. HooksOf(route, u) = HooksOf(route, me) /\ UNCHANGED route
    BY <1>1, <1>2
  <1>. QED  BY <1>2, <1>3, <1>5, <1>6, <1>7, <1>8, <1>9, PageStill

LEMMA HandlersFit ==
    ASSUME TabInv, PageInv, Elsewhere \/ \E p \in DOMAIN posts : Serve(p) \/ PasswordSaved(p)
    PROVE  PageInv'
  <1>1. Grown /\ UNCHANGED <<status, me, route, shown, fetches, form>>
    BY NewUserGrows, NobodyGrows, Served, Relogin DEF Elsewhere, session, ui
  <1>2. FormFits'
    <2>1. CASE Elsewhere
      BY <1>1, <2>1, FormSame DEF Elsewhere
    <2>2. ASSUME NEW p \in DOMAIN posts, Serve(p) \/ PasswordSaved(p) PROVE FormFits'
      <3>1. /\ KnownPosts(posts)' /\ posts'[p].mounted = posts[p].mounted
            /\ \A s \in 1..MaxPosts : s # p => posts'[s] = posts[s]
            /\ \/ posts'[p].kind = posts[p].kind
               \/ posts'[p].kind = "relogin" /\ posts[p].kind = "security"
        BY <2>2, Served, ReplyKnown, Relogin
      <3>2. DOMAIN posts' = DOMAIN posts /\ DOMAIN posts = 1..MaxPosts
        BY <3>1, Known DEF KnownPosts
      <3>. QED  BY <1>1, <3>1, <3>2, FormSame
    <2>. QED  BY <2>1, <2>2
  <1>. QED  BY <1>1, <1>2, PageSame DEF PageInv

LEMMA PageStep ==
    ASSUME TabInv, PageInv, [Next]_vars
    PROVE  PageInv'
  <1>1. CASE Next
    BY <1>1, Steps, PageActions, MountFits, StayFits, ShowFits, RetryFits, CreatedFits,
       FetchFits, FormStepFits, SavedHereFits, HandlersFit
  <1>2. CASE UNCHANGED vars
    <2>1. UNCHANGED <<users, status, me, route, form, posts, shown, fetches>>
      BY <1>2 DEF vars, session, ui
    <2>2. FormFits'
      BY <2>1, FormSame
    <2>. QED  BY <2>1, <2>2, NobodyGrows, PageSame DEF PageInv
  <1>. QED  BY <1>1, <1>2

LEMMA PageInit ==
    ASSUME Init
    PROVE  PageInv
  <1>1. route = "login" /\ status = "guest" /\ me = 0 /\ fetches = {} /\ form = FormOf("login")
        /\ \A h \in Hooks : shown[h] = Unmounted
    BY DEF Init
  <1>2. PageFitsUser
    BY <1>1 DEF PageFitsUser, Public, AdminOnly
  <1>3. FormFits
    <2>1. \A p \in DOMAIN posts : ~posts[p].mounted
      BY DEF Init, NoPost
    <2>2. FormOf("login").kind \in Public /\ FormOf("login").kind # "admin"
      BY FormsTyped DEF Routes, Public
    <2>. QED  BY <1>1, <2>1, <2>2 DEF FormFits, Public
  <1>. QED  BY <1>1, <1>2, <1>3 DEF PageInv

\* A tab, its requests and the accounts behind it are of their kinds in every state,
\* and no account is named that was never created: nothing that a page, an answer or
\* a route puts together is malformed.
THEOREM ConsoleTypeCorrect == Spec => []ConsoleTypeOK
  <1>1. Init => TabInv /\ PageInv
    BY TabInit, PageInit
  <1>2. TabInv /\ PageInv /\ [Next]_vars => (TabInv /\ PageInv)'
    BY TabStep, PageStep
  <1>3. TabInv => ConsoleTypeOK
    BY DEF TabInv
  <1>. QED  BY <1>1, <1>2, <1>3, PTL DEF Spec

\* Whichever answers come while the user goes on, and whoever of a shared tab they are
\* about, guests never see a page behind the login, nobody but an administrator sees
\* the pages of administrators, and no page shows what the one before has read.
THEOREM PagesFitTheirUser == Spec => []PageFitsUser
  <1>1. Init => TabInv /\ PageInv
    BY TabInit, PageInit
  <1>2. TabInv /\ PageInv /\ [Next]_vars => (TabInv /\ PageInv)'
    BY TabStep, PageStep
  <1>3. PageInv => PageFitsUser
    BY DEF PageInv
  <1>. QED  BY <1>1, <1>2, <1>3, PTL DEF Spec

-----------------------------------------------------------------------------
(* What is shown answers what is asked *)

FetchInv == FetchesAnswerView /\ ListsFollowNews

LEMMA HooksShown ==
    ASSUME TabInv, Grown,
           NEW r, r = route', NEW u \in 0..Len(users), u = me',
           \A h \in HooksOf(r, u) :
               ~shown'[h].loading /\ ~shown'[h].error => shown'[h].data.q = QueryOf(h, view')
    PROVE  ShownAnswersView'
  <1>1. HooksOf(r, u)' = HooksOf(r, u)
    BY HooksStand
  <1>2. HooksOf(route, me)' = HooksOf(r, u)
    BY <1>1
  <1>. QED  BY <1>2 DEF ShownAnswersView

LEMMA MountFetches ==
    ASSUME TabInv, MountStep
    PROVE  FetchInv'
  <1>1. PICK r \in Routes, id \in Ids, st \in {"authenticated", "guest"},
             u \in 0..Len(users), kept \in [1..MaxPosts -> Post] :
                 status' = st /\ me' = u /\ Mount(r, id, st, u, kept)
    BY DEF MountStep
  <1>2. /\ route' = Guarded(r, st, u)
        /\ \A f \in fetches' : f.live => f = Sent(f.hook, view')
        /\ \A h \in HooksOf(Guarded(r, st, u), u) : shown'[h].loading
    <2>1. fetches \subseteq Fetch
      BY Known
    <2>. QED  BY <1>1, <2>1, Mounted
  <1>3. PICK to : to = Guarded(r, st, u)
    OBVIOUS
  <1>4. users' = users /\ Grown
    BY NobodyGrows DEF MountStep
  <1>5. ShownAnswersView'
    BY <1>1, <1>2, <1>3, <1>4, HooksShown
  <1>6. TabInv'
    BY MountStepTyped
  <1>7. \A f \in fetches' : f.live => f.pc = "sent" /\ f.data.q = QueryOf(f.hook, view')
    <2>1. ASSUME NEW f \in fetches', f.live
          PROVE  f.pc = "sent" /\ f.data.q = QueryOf(f.hook, view')
      <3>1. f = Sent(f.hook, view') /\ f.hook \in Hooks /\ view' \in View
        BY <1>2, <1>6, <2>1 DEF TabInv, ConsoleTypeOK, Fetch
      <3>2. Sent(f.hook, view').pc = "sent"
        BY DEF Sent
      <3>. QED  BY <3>1, <3>2, SentTyped
    <2>. QED  BY <2>1
  <1>8. \A f \in fetches' : f.live => f.data.q = QueryOf(f.hook, view)'
    BY <1>7
  <1>9. ListShowsCreated'
    <2>1. CASE to = "users"
      <3>1. "list" \in HooksOf(to, u)
        BY <2>1, HooksTyped DEF Routes, AdminOnly
      <3>. QED  BY <1>2, <1>3, <3>1 DEF ListShowsCreated, Listed
    <2>2. CASE to # "users"
      BY <1>2, <1>3, <2>2 DEF ListShowsCreated
    <2>. QED  BY <2>1, <2>2
  <1>. QED  BY <1>2, <1>5, <1>7, <1>8, <1>9
            DEF FetchInv, FetchesAnswerView, ListsFollowNews

\* Nothing moves between the hooks and the API.
LEMMA QuietFetches ==
    ASSUME TabInv, PageInv, FetchInv, Grown, UNCHANGED <<route, shown, fetches, told>>,
           \A k \in HooksOf(route, me) : QueryOf(k, view') = QueryOf(k, view),
           NEW u \in 0..Len(users), u = me', HooksOf(route, u) = HooksOf(route, me)
    PROVE  FetchInv'
  <1>1. PICK r : r = route /\ r \in Routes
    BY Known
  <1>3. HooksOf(r, u) = HooksOf(route, me)
    BY <1>1
  <1>4. \A h \in HooksOf(r, u) :
            ~shown'[h].loading /\ ~shown'[h].error => shown'[h].data.q = QueryOf(h, view')
    BY <1>3 DEF FetchInv, FetchesAnswerView, ShownAnswersView
  <1>5. ShownAnswersView'
    BY <1>1, <1>4, HooksShown
  <1>6. \A f \in fetches' : f.live => f.data.q = QueryOf(f.hook, view')
    <2>1. ASSUME NEW f \in fetches', f.live PROVE f.data.q = QueryOf(f.hook, view')
      <3>1. f \in fetches /\ f.hook \in HooksOf(route, me)
        BY <2>1 DEF PageInv
      <3>. QED  BY <2>1, <3>1 DEF FetchInv, FetchesAnswerView
    <2>. QED  BY <2>1
  <1>7. \A f \in fetches' : f.live => f.data.q = QueryOf(f.hook, view)'
    BY <1>6
  <1>8. ListsFollowNews'
    BY DEF FetchInv, ListsFollowNews, ListShowsCreated, Listed
  <1>. QED  BY <1>5, <1>7, <1>8 DEF FetchInv, FetchesAnswerView

\* A hook fetches again, as its dependencies do or on request.
LEMMA StartKeepsFetches ==
    ASSUME TabInv, FetchInv, NEW h \in Hooks, NEW v \in View, Start(h, v), v = view',
           UNCHANGED <<users, route>>,
           NEW u \in 0..Len(users), u = me', HooksOf(route, u) = HooksOf(route, me),
           \A k \in Hooks \ {h} : QueryOf(k, v) = QueryOf(k, view),
           told' = told \/ h = "list"
    PROVE  FetchInv'
  <1>1. /\ \A f \in fetches' : f.live => \/ f \in fetches /\ f.hook # h
                                         \/ f.hook = h /\ f = Sent(h, v)
        /\ fetches' \subseteq Fetch
        /\ shown'[h].loading /\ \A k \in Hooks \ {h} : shown'[k] = shown[k]
    BY Known, StartFetches
  <1>2. PICK r : r = route /\ r \in Routes
    BY Known
  <1>3. HooksOf(r, u) \subseteq Hooks
    BY <1>2, HooksTyped
  <1>4. ASSUME NEW k \in HooksOf(r, u), ~shown'[k].loading, ~shown'[k].error
        PROVE  shown'[k].data.q = QueryOf(k, v)
    <2>1. k \in Hooks \ {h} /\ shown'[k] = shown[k]
      BY <1>1, <1>3, <1>4
    <2>. QED  BY <1>2, <1>4, <2>1 DEF FetchInv, FetchesAnswerView, ShownAnswersView
  <1>5. ShownAnswersView'
    <2>1. \A k \in HooksOf(r, u) :
              ~shown'[k].loading /\ ~shown'[k].error => shown'[k].data.q = QueryOf(k, view')
      BY <1>4
    <2>. QED  BY <1>2, <2>1, NobodyGrows, HooksShown
  <1>6. Sent(h, v).data.q = QueryOf(h, v) /\ Sent(h, v).pc = "sent"
    BY SentTyped DEF Sent
  <1>7. \A f \in fetches' : f.live => f.data.q = QueryOf(f.hook, v)
    <2>1. ASSUME NEW f \in fetches', f.live PROVE f.data.q = QueryOf(f.hook, v)
      <3>1. CASE f \in fetches /\ f.hook # h
        <4>1. f.hook \in Hooks \ {h}
          BY <3>1, Known DEF Fetch
        <4>. QED  BY <2>1, <3>1, <4>1 DEF FetchInv, FetchesAnswerView
      <3>2. CASE f.hook = h /\ f = Sent(h, v)
        BY <1>6, <3>2
      <3>. QED  BY <1>1, <2>1, <3>1, <3>2
    <2>. QED  BY <2>1
  <1>8. \A f \in fetches' : f.live => f.data.q = QueryOf(f.hook, view)'
    BY <1>7
  <1>9. \A f \in fetches' : f.live /\ f.hook = "list" /\ f.pc = "answered" => f.data.read >= told'
    <2>1. ASSUME NEW f \in fetches', f.live, f.hook = "list", f.pc = "answered"
          PROVE  f.data.read >= told'
      <3>1. f \in fetches /\ h # "list"
        BY <1>1, <1>6, <2>1
      <3>. QED  BY <2>1, <3>1 DEF FetchInv, ListsFollowNews
    <2>. QED  BY <2>1
  <1>10. ListShowsCreated'
    <2>1. CASE h = "list"
      BY <1>1, <2>1 DEF ListShowsCreated, Listed
    <2>2. CASE h # "list"
      <3>1. shown'["list"] = shown["list"] /\ told' = told
        BY <1>1, <2>2 DEF Hooks
      <3>. QED  BY <3>1 DEF FetchInv, ListsFollowNews, ListShowsCreated, Listed
    <2>. QED  BY <2>1, <2>2
  <1>. QED  BY <1>5, <1>8, <1>9, <1>10 DEF FetchInv, FetchesAnswerView, ListsFollowNews

LEMMA QueriesOfOthers ==
    ASSUME NEW v, NEW w, v.id = w.id, NEW k \in Hooks \ {"list"}
    PROVE  QueryOf(k, v) = QueryOf(k, w)
  <1>1. CASE k = "user"
    <2>1. /\ QueryOf(k, v) = [NoQuery EXCEPT !.id = v.id]
          /\ QueryOf(k, w) = [NoQuery EXCEPT !.id = w.id]
      BY <1>1, ZenonT(30) DEF QueryOf
    <2>. QED  BY <2>1
  <1>. QED  BY <1>1, QueriesOfHome DEF Hooks

LEMMA ShowKeepsFetches ==
    ASSUME TabInv, PageInv, FetchInv, ShowStep
    PROVE  FetchInv'
  <1>1. PICK v \in View : v.id = view.id /\ Show(v)
    BY DEF ShowStep
  <1>2. view' = v /\ UNCHANGED <<users, me, route, told>>
    BY <1>1 DEF Show, ShowStep, Kept, session
  <1>3. \A k \in Hooks \ {"list"} : QueryOf(k, v) = QueryOf(k, view)
    BY <1>1, QueriesOfOthers
  <1>4. PICK u, r : u = me /\ u \in 0..Len(users) /\ r = route /\ r \in Routes
    BY Known
  <1>5. CASE QueryOf("list", v) = QueryOf("list", view)
    <2>1. UNCHANGED <<shown, fetches>>
      BY <1>1, <1>5 DEF Show
    <2>2. HooksOf(route, me) \subseteq Hooks
      BY <1>4, HooksTyped
    <2>. QED  BY <1>2, <1>3, <1>4, <1>5, <2>1, <2>2, NobodyGrows, QuietFetches
  <1>6. CASE QueryOf("list", v) # QueryOf("list", view)
    <2>1. Start("list", v) /\ "list" \in Hooks
      BY <1>1, <1>6 DEF Show, Hooks
    <2>. QED  BY <1>2, <1>3, <1>4, <2>1, StartKeepsFetches
  <1>. QED  BY <1>5, <1>6

LEMMA QueriesOfLists ==
    ASSUME NEW v \in View, NEW id, NEW k \in Hooks \ {"user"}
    PROVE  QueryOf(k, [v EXCEPT !.id = id]) = QueryOf(k, v)
  <1>1. CASE k = "list"
    <2>. DEFINE w == [v EXCEPT !.id = id]
    <2>1. w.page = v.page /\ w.debounced = v.debounced /\ w.role = v.role
      BY DEF View
    <2>. HIDE DEF w
    <2>2. /\ QueryOf(k, w) = [NoQuery EXCEPT !.page = w.page, !.search = w.debounced, !.role = w.role]
          /\ QueryOf(k, v) = [NoQuery EXCEPT !.page = v.page, !.search = v.debounced, !.role = v.role]
      BY <1>1, ZenonT(30) DEF QueryOf
    <2>3. QueryOf(k, w) = QueryOf(k, v)
      BY <2>1, <2>2
    <2>. QED  BY <2>3 DEF w
  <1>. QED  BY <1>1, QueriesOfHome DEF Hooks

LEMMA StayKeepsFetches ==
    ASSUME TabInv, PageInv, FetchInv, StayStep
    PROVE  FetchInv'
  <1>1. PICK u \in 0..Len(users) : u = me' /\ HooksOf(route, u) = HooksOf(route, me)
    BY DEF StayStep
  <1>2. UNCHANGED <<users, route, told>> /\ Grown
    BY NobodyGrows DEF StayStep
  <1>3. CASE UNCHANGED <<view, shown, fetches>>
    <2>1. \A k \in HooksOf(route, me) : QueryOf(k, view') = QueryOf(k, view)
      BY <1>3
    <2>. QED  BY <1>1, <1>2, <1>3, <2>1, QuietFetches
  <1>4. ASSUME NEW v \in View, v = view', NEW id \in Ids, v = [view EXCEPT !.id = id],
               Start("user", v)
        PROVE  FetchInv'
    <2>1. \A k \in Hooks \ {"user"} : QueryOf(k, v) = QueryOf(k, view)
      BY <1>4, Known, QueriesOfLists
    <2>2. "user" \in Hooks
      BY DEF Hooks
    <2>. QED  BY <1>1, <1>2, <1>4, <2>1, <2>2, StartKeepsFetches
  <1>5. CASE route \in Public /\ UNCHANGED <<shown, fetches>>
    <2>1. HooksOf(route, me) = {}
      BY <1>5, Known, HooksTyped
    <2>. QED  BY <1>1, <1>2, <1>5, <2>1, QuietFetches
  <1>. QED  BY <1>3, <1>4, <1>5, TurnedView DEF StayStep

LEMMA AnswersKeepFetches ==
    ASSUME TabInv, FetchInv, NEW f \in fetches, Receive(f) \/ Fail(f)
    PROVE  FetchInv'
  <1>1. /\ UNCHANGED <<users, me, route, view, told>> /\ fetches' = fetches \ {f}
        /\ f.hook \in Hooks /\ shown \in [Hooks -> Async]
    BY Known DEF Receive, Fail, session, Fetch
  <1>2. \A h \in Hooks :
            \/ shown'[h] = shown[h]
            \/ shown'[h].error
            \/ /\ h = f.hook /\ f.live /\ f.pc = "answered" /\ shown'[h].data = f.data
    <2>1. CASE Receive(f)
      <3>1. CASE f.live
        BY <1>1, <2>1, <3>1 DEF Receive, Accepts
      <3>2. CASE ~f.live
        BY <2>1, <3>2 DEF Receive, Accepts
      <3>. QED  BY <3>1, <3>2
    <2>2. CASE Fail(f)
      <3>1. Failed(f.hook).error
        BY <1>1, HookStates
      <3>2. CASE f.live
        BY <1>1, <2>2, <3>1, <3>2 DEF Fail, Accepts
      <3>3. CASE ~f.live
        BY <2>2, <3>3 DEF Fail, Accepts
      <3>. QED  BY <3>2, <3>3
    <2>. QED  BY <2>1, <2>2
  <1>3. PICK r, u : r = route /\ u = me /\ r \in Routes /\ u \in 0..Len(users)
    BY Known
  <1>4. HooksOf(r, u) \subseteq Hooks
    BY <1>3, HooksTyped
  <1>5. ASSUME NEW h \in HooksOf(r, u), ~shown'[h].loading, ~shown'[h].error
        PROVE  shown'[h].data.q = QueryOf(h, view')
    <2>1. CASE shown'[h] = shown[h]
      BY <1>1, <1>3, <1>5, <2>1 DEF FetchInv, FetchesAnswerView, ShownAnswersView
    <2>2. CASE h = f.hook /\ f.live /\ shown'[h].data = f.data
      BY <1>1, <2>2 DEF FetchInv, FetchesAnswerView
    <2>. QED  BY <1>2, <1>4, <1>5, <2>1, <2>2
  <1>6. ShownAnswersView'
    BY <1>1, <1>3, <1>5, NobodyGrows, HooksShown
  <1>7. \A g \in fetches' : g.live => g.data.q = QueryOf(g.hook, view')
    BY <1>1 DEF FetchInv, FetchesAnswerView
  <1>8. \A g \in fetches' : g.live => g.data.q = QueryOf(g.hook, view)'
    BY <1>7
  <1>9. ListShowsCreated'
    <2>1. CASE shown'["list"] = shown["list"]
      BY <1>1, <2>1 DEF FetchInv, ListsFollowNews, ListShowsCreated, Listed
    <2>2. CASE shown'["list"].error
      BY <2>2 DEF ListShowsCreated, Listed
    <2>3. CASE f.hook = "list" /\ f.live /\ f.pc = "answered" /\ shown'["list"].data = f.data
      BY <1>1, <2>3 DEF FetchInv, ListsFollowNews, ListShowsCreated, Listed
    <2>. QED  BY <1>2, <2>1, <2>2, <2>3 DEF Hooks
  <1>. QED  BY <1>1, <1>6, <1>8, <1>9 DEF FetchInv, FetchesAnswerView, ListsFollowNews

LEMMA FetchesGoOn ==
    ASSUME TabInv, FetchInv, NEW f \in fetches, Read(f)
    PROVE  FetchInv'
  <1>1. PICK g : GoesOn(f, g) /\ (f.hook = "list" => g.data.read = Len(users))
    BY ReadOnce
  <1>2. /\ UNCHANGED <<users, me, route, view, shown, told>>
        /\ fetches' = (fetches \ {f}) \cup {g}
        /\ g.hook = f.hook /\ g.live = f.live /\ g.data.q = f.data.q
    BY <1>1 DEF GoesOn, session, ui
  <1>3. PICK r, u : r = route /\ u = me /\ r \in Routes /\ u \in 0..Len(users)
    BY Known
  <1>4. \A h \in HooksOf(r, u) :
            ~shown'[h].loading /\ ~shown'[h].error => shown'[h].data.q = QueryOf(h, view')
    BY <1>2, <1>3 DEF FetchInv, FetchesAnswerView, ShownAnswersView
  <1>5. ShownAnswersView'
    BY <1>2, <1>3, <1>4, NobodyGrows, HooksShown
  <1>6. \A e \in fetches' : e.live => e.data.q = QueryOf(e.hook, view')
    BY <1>2 DEF FetchInv, FetchesAnswerView
  <1>7. \A e \in fetches' : e.live => e.data.q = QueryOf(e.hook, view)'
    BY <1>6
  <1>8. \A e \in fetches' : e.live /\ e.hook = "list" /\ e.pc = "answered" => e.data.read >= told'
    <2>1. ASSUME NEW e \in fetches', e.live, e.hook = "list", e.pc = "answered"
          PROVE  e.data.read >= told'
      <3>1. CASE e \in fetches
        BY <1>2, <2>1, <3>1 DEF FetchInv, ListsFollowNews
      <3>2. CASE e = g
        <4>1. e.data.read = Len(users) /\ told \in 0..Len(users) /\ Len(users) \in Nat
          BY <1>1, <1>2, <2>1, <3>2, Known
        <4>. QED  BY <1>2, <4>1
      <3>. QED  BY <1>2, <3>1, <3>2
    <2>. QED  BY <2>1
  <1>9. ListShowsCreated'
    BY <1>2 DEF FetchInv, ListsFollowNews, ListShowsCreated, Listed
  <1>. QED  BY <1>5, <1>7, <1>8, <1>9 DEF FetchInv, FetchesAnswerView, ListsFollowNews

LEMMA QuietStep ==
    ASSUME TabInv, PageInv, FetchInv,
           Grown, UNCHANGED <<me, route, view, shown, fetches, told>>
    PROVE  FetchInv'
  <1>1. PICK u : u = me /\ u \in 0..Len(users)
    BY Known
  <1>. QED  BY <1>1, QuietFetches

LEMMA FetchInvStep ==
    ASSUME TabInv, PageInv, FetchInv, [Next]_vars
    PROVE  FetchInv'
  <1>1. ASSUME NEW h \in Hooks, Retry(h) PROVE FetchInv'
    <2>1. Start(h, view) /\ view \in View /\ UNCHANGED <<users, route, me, told, view>>
      BY <1>1, Known DEF Retry, Kept, session
    <2>2. PICK u : u = me /\ u \in 0..Len(users)
      BY Known
    <2>. QED  BY <2>1, <2>2, StartKeepsFetches
  <1>2. ASSUME NEW p \in DOMAIN posts, AdminCreated(p) PROVE FetchInv'
    <2>1. CASE UNCHANGED <<form, shown, fetches, told>>
      BY <1>2, <2>1, CreatedStarts, NobodyGrows, QuietStep DEF session
    <2>2. CASE Start("list", view)
      <3>1. "list" \in Hooks /\ view \in View /\ UNCHANGED <<users, route, me, view>>
        BY <1>2, Known, CreatedStarts DEF session, Hooks
      <3>2. PICK u : u = me /\ u \in 0..Len(users)
        BY Known
      <3>. QED  BY <2>2, <3>1, <3>2, StartKeepsFetches
    <2>. QED  BY <1>2, <2>1, <2>2, CreatedStarts
  <1>3. ASSUME \/ \E b \in BOOLEAN : Fill(b)
               \/ OpenModal \/ CloseModal \/ SwitchTab
               \/ \E p \in DOMAIN posts :
                     \/ PressSignOut(p) \/ \E id \in 0..Len(users) : Submit(p, id)
                     \/ OnlyAnswered(p)
        PROVE  FetchInv'
    <2>1. UNCHANGED <<users, me, route, view, shown, fetches, told>>
      BY <1>3 DEF Fill, OpenModal, CloseModal, SwitchTab, PressSignOut, Submit, OnlyForm,
                  OnlyAnswered, session
    <2>. QED  BY <2>1, NobodyGrows, QuietStep
  <1>4. ASSUME NEW p \in DOMAIN posts, Serve(p) PROVE FetchInv'
    BY <1>4, Served, QuietStep DEF session, ui
  <1>5. ASSUME NEW p \in DOMAIN posts, PasswordSaved(p) PROVE FetchInv'
    BY <1>5, Relogin, NobodyGrows, QuietStep DEF session, ui
  <1>6. ASSUME NEW p \in DOMAIN posts, SavedHere(p) PROVE FetchInv'
    <2>1. /\ UNCHANGED <<users, route, view, shown, fetches, told>>
          /\ me' = posts[p].id /\ posts[p].id \in 0..Len(users)
          /\ HooksOf(route, posts[p].id) = HooksOf(route, me)
      BY <1>6, Known DEF SavedHere, Stays
    <2>2. PICK u : u = posts[p].id
      OBVIOUS
    <2>. QED  BY <2>1, <2>2, NobodyGrows, QuietFetches
  <1>7. ASSUME Elsewhere PROVE FetchInv'
    BY <1>7, NewUserGrows, QuietStep DEF Elsewhere, session, ui
  <1>8. CASE Next
    BY <1>1, <1>2, <1>3, <1>4, <1>5, <1>6, <1>7, <1>8, Steps, PageActions, MountFetches, StayKeepsFetches,
       ShowKeepsFetches, AnswersKeepFetches, FetchesGoOn
  <1>9. CASE UNCHANGED vars
    BY <1>9, NobodyGrows, QuietStep DEF vars, session, ui
  <1>. QED  BY <1>8, <1>9

LEMMA FetchInvInit ==
    ASSUME Init
    PROVE  FetchInv
  <1>1. HooksOf("login", 0) = {}
    BY HooksTyped DEF Routes, Public
  <1>2. ShownAnswersView
    BY <1>1 DEF Init, ShownAnswersView
  <1>. QED  BY <1>2 DEF Init, FetchInv, FetchesAnswerView, ListsFollowNews, ListShowsCreated

\* However its fetches are answered, fail or overtake each other, while the user
\* types, turns pages, leaves and comes back, a page never shows the answer to an
\* earlier question.  It takes useAsync's check of the signal: what is stored answers
\* the question of the fetch, and only the last fetch of a hook is still live.
THEOREM PagesAnswerTheirQuestion == Spec => []ShownAnswersView
  <1>1. Init => TabInv /\ PageInv /\ FetchInv
    BY TabInit, PageInit, FetchInvInit
  <1>2. TabInv /\ PageInv /\ FetchInv /\ [Next]_vars => (TabInv /\ PageInv /\ FetchInv)'
    BY TabStep, PageStep, FetchInvStep
  <1>3. TabInv /\ FetchInv => ShownAnswersView
    BY DEF FetchInv, FetchesAnswerView
  <1>. QED  BY <1>1, <1>2, <1>3, PTL DEF Spec

\* The directory lists the administrator that its page has announced, and those that
\* were announced before it was mounted, however fetches sent before overtake each other:
\* the announcement and the mounting each start a fetch, and abort those before it.
THEOREM AnnouncedAdminsAreListed == Spec => []ListShowsCreated
  <1>1. Init => TabInv /\ PageInv /\ FetchInv
    BY TabInit, PageInit, FetchInvInit
  <1>2. TabInv /\ PageInv /\ FetchInv /\ [Next]_vars => (TabInv /\ PageInv /\ FetchInv)'
    BY TabStep, PageStep, FetchInvStep
  <1>3. TabInv /\ FetchInv => ListShowsCreated
    BY DEF FetchInv, ListsFollowNews
  <1>. QED  BY <1>1, <1>2, <1>3, PTL DEF Spec

-----------------------------------------------------------------------------
(* One save at a time *)

\* The saving of a form that sends or frees nothing.
LEMMA SameSaving ==
    ASSUME TabInv, SavingInv, form'.saving = form.saving,
           ~form'.open => ~form'.saving /\ ~form'.filled,
           DOMAIN posts' = DOMAIN posts,
           \A p \in DOMAIN posts : posts'[p].mounted = posts[p].mounted
    PROVE  SavingInv'
  BY DEF SavingInv

LEMMA Unsaved ==
    ASSUME TabInv, ~form'.saving, ~form'.open => ~form'.filled,
           DOMAIN posts' = DOMAIN posts,
           \A p \in DOMAIN posts : ~posts'[p].mounted
    PROVE  SavingInv'
  BY DEF SavingInv

LEMMA MountUnmounts ==
    ASSUME TabInv, MountStep
    PROVE  /\ \E to \in Routes : form' = FormOf(to)
           /\ DOMAIN posts' = DOMAIN posts /\ \A p \in DOMAIN posts : ~posts'[p].mounted
  <1>1. PICK r \in Routes, id \in Ids, st \in {"authenticated", "guest"},
             u \in 0..Len(users), kept \in [1..MaxPosts -> Post] :
                 Mount(r, id, st, u, kept)
    BY DEF MountStep
  <1>2. form' = FormOf(Guarded(r, st, u)) /\ posts' = Unmount(kept)
    <2>1. fetches \subseteq Fetch
      BY Known
    <2>. QED  BY <1>1, <2>1, Mounted
  <1>3. Guarded(r, st, u) \in Routes
    BY RoutesGuarded
  <1>. QED  BY <1>1, <1>2, <1>3, Unmounting, Known

\* A form's answer ends its saving, one that nobody waits for does not.
LEMMA AnswerEndsSaving ==
    ASSUME TabInv, SavingInv, NEW p \in DOMAIN posts, posts' = Freed(p),
           form'.saving = (form.saving /\ ~posts[p].mounted),
           ~form'.open => ~form'.saving /\ ~form'.filled
    PROVE  SavingInv'
  <1>1. /\ DOMAIN posts' = DOMAIN posts /\ DOMAIN posts = 1..MaxPosts
        /\ \A s \in DOMAIN posts : s # p => posts'[s] = posts[s]
        /\ posts'[p] = NoPost
    BY FreedKnown, Known DEF KnownPosts
  <1>2. ~posts'[p].mounted
    BY <1>1 DEF NoPost
  <1>3. CASE posts[p].mounted
    BY <1>1, <1>2, <1>3, Unsaved DEF SavingInv
  <1>4. CASE ~posts[p].mounted
    <2>1. \A s \in DOMAIN posts : posts'[s].mounted <=> posts[s].mounted
      BY <1>1, <1>2, <1>4
    <2>2. form'.saving <=> form.saving
      BY <1>4
    <2>. QED  BY <1>1, <2>1, <2>2 DEF SavingInv
  <1>. QED  BY <1>3, <1>4

LEMMA SubmitSaves ==
    ASSUME TabInv, SavingInv, NEW p \in DOMAIN posts,
           PressSignOut(p) \/ \E id \in 0..Len(users) : Submit(p, id)
    PROVE  SavingInv'
  <1>1. CASE PressSignOut(p)
    <2>1. /\ NoPost \in Range(posts) /\ Sends(p, "logout", 0, FALSE)
          /\ form' = form /\ users' = users
      BY <1>1 DEF PressSignOut, OnlyForm
    <2>2. 0 \in 0..Len(users)
      BY Known
    <2>3. /\ p \in 1..MaxPosts /\ posts[p] = NoPost /\ KnownPosts(posts)'
          /\ \A s \in 1..MaxPosts : s # p => posts'[s] = posts[s]
          /\ posts'[p].mounted = FALSE
      BY <2>1, <2>2, SendsPost
    <2>4. posts[p].mounted = FALSE
      BY <2>3 DEF NoPost
    <2>5. /\ DOMAIN posts' = DOMAIN posts
          /\ \A s \in DOMAIN posts : posts'[s].mounted = posts[s].mounted
      BY <2>3, <2>4, Known DEF KnownPosts
    <2>. QED  BY <2>1, <2>5, SameSaving DEF SavingInv
  <1>2. CASE \E id \in 0..Len(users) : Submit(p, id)
    <2>1. PICK id \in 0..Len(users) : Submit(p, id)
      BY <1>2
    <2>2. /\ NoPost \in Range(posts) /\ Sends(p, form.kind, id, TRUE)
          /\ form' = [form EXCEPT !.saving = TRUE] /\ users' = users
          /\ form.kind \in Kinds /\ form.open /\ ~form.saving
      BY <2>1, Known DEF Submit, OnlyForm, Pressable, Form
    <2>3. /\ p \in 1..MaxPosts /\ KnownPosts(posts)'
          /\ \A s \in 1..MaxPosts : s # p => posts'[s] = posts[s]
          /\ posts'[p].mounted = TRUE
      BY <2>2, SendsPost
    <2>4. form'.saving /\ form'.open
      BY <2>2, Known DEF Form
    <2>5. DOMAIN posts' = DOMAIN posts /\ DOMAIN posts = 1..MaxPosts
      BY <2>3, Known DEF KnownPosts
    <2>6. \A s \in DOMAIN posts' : posts'[s].mounted <=> s = p
      BY <2>2, <2>3, <2>5 DEF SavingInv
    <2>. QED  BY <2>3, <2>4, <2>5, <2>6 DEF SavingInv
  <1>. QED  BY <1>1, <1>2

LEMMA SavingStep ==
    ASSUME TabInv, PageInv, SavingInv, [Next]_vars
    PROVE  SavingInv'
  <1>1. ASSUME MountStep PROVE SavingInv'
    BY <1>1, MountUnmounts, FormsTyped, Unsaved
  <1>2. ASSUME UNCHANGED <<form, posts>> PROVE SavingInv'
    BY <1>2 DEF SavingInv
  <1>3. ASSUME StayStep PROVE SavingInv'
    <2>1. /\ form' = form /\ DOMAIN posts' = DOMAIN posts
          /\ \A p \in DOMAIN posts : posts'[p].mounted = posts[p].mounted
      BY <1>3, Known DEF StayStep, KnownPosts
    <2>. QED  BY <2>1, SameSaving DEF SavingInv
  <1>4. ASSUME \/ ShowStep
               \/ \E h \in Hooks : Retry(h)
               \/ \E f \in fetches : Read(f) \/ Receive(f) \/ Fail(f)
               \/ Elsewhere
        PROVE  UNCHANGED <<form, posts>>
    BY <1>4 DEF Read, ShowStep, Retry, Kept, Receive, Fail, Elsewhere, ui
  <1>5. ASSUME (\E b \in BOOLEAN : Fill(b)) \/ OpenModal \/ CloseModal PROVE SavingInv'
    <2>1. /\ posts' = posts /\ form'.saving = form.saving
          /\ ~form'.open => ~form'.saving /\ ~form'.filled
      <3>1. CASE \E b \in BOOLEAN : Fill(b)
        BY <3>1, Known DEF Fill, Form
      <3>2. CASE OpenModal
        BY <3>2, Known DEF OpenModal, Form
      <3>3. CASE CloseModal
        BY <3>3, Known DEF CloseModal, Closable, Form
      <3>. QED  BY <1>5, <3>1, <3>2, <3>3
    <2>. QED  BY <2>1, SameSaving
  <1>6. ASSUME SwitchTab PROVE SavingInv'
    <2>1. posts' = Unmount(posts) /\ posts \in [1..MaxPosts -> Post]
      BY <1>6, Known DEF SwitchTab, Unmount
    <2>2. DOMAIN posts' = DOMAIN posts /\ \A p \in DOMAIN posts : ~posts'[p].mounted
      BY <2>1, Unmounting
    <2>3. FormOf("profile") \in Form /\ ~FormOf("profile").saving /\ ~FormOf("profile").filled
      BY FormsTyped DEF Routes
    <2>4. ~form'.saving /\ ~form'.filled
      BY <1>6, <2>3 DEF SwitchTab, Form
    <2>. QED  BY <2>2, <2>4, Unsaved
  <1>7. ASSUME NEW p \in DOMAIN posts, OnlyAnswered(p) PROVE SavingInv'
    <2>1. form' = Saved(p, form) /\ posts' = Freed(p) /\ form \in Form
      BY <1>7, Known DEF OnlyAnswered
    <2>2. /\ form'.saving = (form.saving /\ ~posts[p].mounted)
          /\ form'.open = form.open /\ form'.filled = form.filled
      BY <2>1, SavedTyped
    <2>. QED  BY <2>1, <2>2, AnswerEndsSaving DEF SavingInv
  <1>8. ASSUME NEW p \in DOMAIN posts, SavedHere(p) PROVE SavingInv'
    <2>. DEFINE f == IF posts[p].mounted THEN [form EXCEPT !.filled = FALSE] ELSE form
    <2>1. /\ f \in Form /\ f.saving = form.saving /\ f.open = form.open
          /\ f.filled => form.filled
      BY Known DEF Form
    <2>2. form' = Saved(p, f) /\ posts' = Freed(p)
      BY <1>8 DEF SavedHere
    <2>. HIDE DEF f
    <2>3. /\ form'.saving = (form.saving /\ ~posts[p].mounted)
          /\ form'.open = form.open
          /\ form'.filled => form.filled
      BY <2>1, <2>2, SavedTyped
    <2>. QED  BY <2>2, <2>3, AnswerEndsSaving DEF SavingInv
  <1>9. ASSUME NEW p \in DOMAIN posts, AdminCreated(p) PROVE SavingInv'
    <2>1. posts' = Freed(p)
      BY <1>9, CreatedStarts
    <2>2. CASE ~posts[p].mounted /\ UNCHANGED form
      BY <2>1, <2>2, AnswerEndsSaving, Known DEF SavingInv, Form
    <2>3. CASE posts[p].mounted /\ form' = FormOf("users")
      <3>1. ~form'.saving /\ ~form'.filled
        BY <2>3, FormsTyped DEF Routes, AdminOnly
      <3>. QED  BY <2>1, <2>3, <3>1, AnswerEndsSaving, Known, FormsTyped DEF Form, Routes, AdminOnly
    <2>. QED  BY <1>9, <2>2, <2>3, CreatedStarts
  <1>10. ASSUME NEW p \in DOMAIN posts, Serve(p) \/ PasswordSaved(p) PROVE SavingInv'
    <2>1. form' = form
      BY <1>10, Served, Relogin DEF ui
    <2>2. /\ KnownPosts(posts)' /\ posts'[p].mounted = posts[p].mounted
          /\ \A s \in 1..MaxPosts : s # p => posts'[s] = posts[s]
      BY <1>10, Served, ReplyKnown, Relogin
    <2>3. /\ DOMAIN posts' = DOMAIN posts
          /\ \A s \in DOMAIN posts : posts'[s].mounted = posts[s].mounted
      BY <2>2, Known DEF KnownPosts
    <2>. QED  BY <2>1, <2>3, SameSaving DEF SavingInv
  <1>11. CASE Next
    BY <1>1, <1>2, <1>3, <1>4, <1>5, <1>6, <1>7, <1>8, <1>9, <1>10, <1>11, Steps, PageActions,
       SubmitSaves
  <1>12. CASE UNCHANGED vars
    BY <1>2, <1>12 DEF vars, ui
  <1>. QED  BY <1>11, <1>12

LEMMA OneMounted ==
    ASSUME TabInv, SavingInv
    PROVE  OneSaveAtATime
  <1>. DEFINE S == {p \in DOMAIN posts : posts[p].mounted}
  <1>1. CASE form.saving
    <2>1. PICK s \in DOMAIN posts : \A p \in DOMAIN posts : posts[p].mounted <=> p = s
      BY <1>1 DEF SavingInv
    <2>2. S = {s}
      BY <2>1
    <2>3. Cardinality(S) = 1
      BY <2>2, FS_Singleton
    <2>. QED  BY <1>1, <2>3 DEF OneSaveAtATime, SavingInv
  <1>2. CASE ~form.saving
    <2>1. S = {}
      BY <1>2 DEF SavingInv
    <2>2. Cardinality(S) = 0
      BY <2>1, FS_EmptySet
    <2>. QED  BY <1>2, <2>2 DEF OneSaveAtATime, SavingInv
  <1>. QED  BY <1>1, <1>2

\* A form sends one request at a time, whoever signs out, leaves or switches tabs
\* while it waits: no answer is left to end the saving of a form that did not ask, and
\* a dialog that is closed keeps no field for the next to open it.
THEOREM FormsSaveOnce == Spec => []OneSaveAtATime
  <1>1. Init => TabInv /\ PageInv /\ SavingInv
    <2>1. ASSUME Init PROVE SavingInv
      <3>1. ~form.saving /\ ~form.filled
        BY <2>1, FormsTyped DEF Init, Routes, Public
      <3>2. \A p \in DOMAIN posts : ~posts[p].mounted
        BY <2>1 DEF Init, NoPost
      <3>. QED  BY <3>1, <3>2 DEF SavingInv
    <2>. QED  BY <2>1, TabInit, PageInit
  <1>2. TabInv /\ PageInv /\ SavingInv /\ [Next]_vars => (TabInv /\ PageInv /\ SavingInv)'
    BY TabStep, PageStep, SavingStep
  <1>3. TabInv /\ SavingInv => OneSaveAtATime
    BY OneMounted
  <1>. QED  BY <1>1, <1>2, <1>3, PTL DEF Spec

=============================================================================
