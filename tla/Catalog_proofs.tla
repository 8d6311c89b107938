---------------------------- MODULE Catalog_proofs ----------------------------
(***************************************************************************)
(* Theorems about Catalog, for any sessions, users, addresses, names,      *)
(* lists and bounds: types, one profile per account, links that refer to   *)
(* rows, credits of one request, and links that no request sets once the   *)
(* patent is submitted.                                                    *)
(***************************************************************************)
EXTENDS Catalog, SequenceTheorems, FiniteSetTheorems, TLAPS

-----------------------------------------------------------------------------
(* The inductive invariant *)

Owner == Users \cup {None}

Entry == [inventor: Nat, order: Nat \cup {None}]

Tables ==
    /\ inventor \in Seq(Profile \cup {Gone})
    /\ category \in Seq(Names \cup {None})
    /\ patent \in Seq(Row)
    /\ written \in Seq(SUBSET Credit) /\ Len(written) = Len(patent)

\* What a handler carries is what its operation writes, and a list that passed
\* the resolver is well formed.
Sound(h) ==
    /\ h \in Request
    /\ h.op \in {"createInventor", "updateInventor"} => h.email \in Emails
    /\ h.op \in {"createCategory", "updateCategory"} => h.name \in Names
    /\ h.op = "updatePatent" => h.id \in 1..Len(patent)
    /\ h.op \notin {"createPatent", "updatePatent"} => h.list = None
    /\ h.pc \in {"categories", "write"} /\ h.list # None => WellFormed(h.list)

HeldIsSound == \A s \in Sessions : Sound(req[s])

\* Credits are numbered from 1 without a gap, and name nobody twice.
Numbered(credits) ==
    /\ IsFiniteSet(credits)
    /\ {c.order : c \in credits} = 1..Cardinality(credits)
    /\ \A c, d \in credits : c.inventor = d.inventor => c = d

\* A row has the credits of one request, and lacks those whose inventor is gone; what
\* a request wrote named inventors that existed, so no later one gets the credit.
Kept(row, credits, last, inventors, categories) ==
    /\ Numbered(credits)
    /\ \A c \in credits : c.inventor \in 1..last
    /\ row.credits = {c \in credits : c.inventor \in inventors}
    /\ row.tags \subseteq categories

CreditsAreKept ==
    \A p \in 1..Len(patent) :
        Kept(patent[p], written[p], Len(inventor), InventorIds, CategoryIds)

Inv ==
    /\ Tables
    /\ req \in [Sessions -> Request]
    /\ HeldIsSound
    /\ OneProfilePerAccount
    /\ CreditsAreKept

-----------------------------------------------------------------------------
(* What a step does to the tables *)

InventorAdded ==
    \E e \in Emails, u \in Owner :
        /\ ~UniqueViolation(e, u, 0)
        /\ inventor' = Append(inventor, [email |-> e, userId |-> u])
        /\ UNCHANGED <<category, patent, written>>

InventorMoved ==
    \E i \in InventorIds, e \in Emails :
        /\ ~UniqueViolation(e, None, i)
        /\ inventor' = [inventor EXCEPT ![i].email = e]
        /\ UNCHANGED <<category, patent, written>>

InventorDropped ==
    \E i \in InventorIds :
        /\ inventor' = [inventor EXCEPT ![i] = Gone]
        /\ patent' = [p \in DOMAIN patent |-> WithoutInventor(patent[p], i)]
        /\ UNCHANGED <<category, written>>

CategoryAdded ==
    \E n \in Names :
        /\ category' = Append(category, n)
        /\ UNCHANGED <<inventor, patent, written>>

CategoryRenamed ==
    \E c \in CategoryIds, n \in Names :
        /\ category' = [category EXCEPT ![c] = n]
        /\ UNCHANGED <<inventor, patent, written>>

CategoryDropped ==
    \E c \in CategoryIds :
        /\ category' = [category EXCEPT ![c] = None]
        /\ patent' = [p \in DOMAIN patent |-> [patent[p] EXCEPT !.tags = @ \ {c}]]
        /\ UNCHANGED <<inventor, written>>

\* A request whose list and tags have been resolved and pass the foreign keys.
Resolved(r) ==
    /\ r \in Request
    /\ r.list # None => WellFormed(r.list)
    /\ KeysHold(r)

PatentAdded ==
    \E r \in Request :
        /\ Resolved(r)
        /\ patent' = Append(patent, [status |-> "draft", credits |-> LinksOf(r.list),
                                     tags |-> IF r.tags = None THEN {} ELSE r.tags])
        /\ written' = Append(written, LinksOf(r.list))
        /\ UNCHANGED <<inventor, category>>

PatentLinked ==
    \E r \in Request :
        /\ Resolved(r)
        /\ r.id \in 1..Len(patent) /\ Writable(r.id)
        /\ patent' = [patent EXCEPT ![r.id] = SetLinks(@, r)]
        /\ written' = IF r.list = None THEN written
                      ELSE [written EXCEPT ![r.id] = LinksOf(r.list)]
        /\ UNCHANGED <<inventor, category>>

Effect ==
    \/ KeepTables
    \/ InventorAdded \/ InventorMoved \/ InventorDropped
    \/ CategoryAdded \/ CategoryRenamed \/ CategoryDropped
    \/ PatentAdded \/ PatentLinked
    \/ \E p \in DOMAIN patent :
          \/ Review(p)
          \/ DeletePatent(p)

-----------------------------------------------------------------------------
(* Ids and lists *)

LEMMA IdsAreRows ==
  ASSUME Tables
  PROVE  /\ DOMAIN inventor = 1..Len(inventor) /\ Len(inventor) \in Nat
         /\ DOMAIN category = 1..Len(category) /\ Len(category) \in Nat
         /\ DOMAIN patent = 1..Len(patent) /\ Len(patent) \in Nat
         /\ DOMAIN written = 1..Len(patent)
         /\ \A i \in InventorIds : inventor[i] \in Profile
         /\ \A c \in CategoryIds : category[c] \in Names
         /\ \A p \in DOMAIN patent : patent[p] \in Row /\ written[p] \in SUBSET Credit
  BY DEF Tables, InventorIds, CategoryIds

LEMMA ProfilesAreNotGone ==
  /\ \A x \in Profile : x # Gone /\ x.email \in Emails /\ x.userId \in Owner
  /\ \A e \in Emails, u \in Owner : [email |-> e, userId |-> u] \in Profile
  BY CatalogAssumption DEF Profile, Gone, Owner

\* A list of requests gives credits to known kinds of ids.
LEMMA LinksAreCredits ==
  ASSUME NEW list \in Lists \cup {None}, list # None => WellFormed(list)
  PROVE  LinksOf(list) \in SUBSET Credit /\ Numbered(LinksOf(list))
  <1>1. CASE list = None
    <2>1. LinksOf(list) = {}
      BY <1>1 DEF LinksOf
    <2>2. IsFiniteSet({}) /\ Cardinality({}) = 0
      BY FS_EmptySet
    <2> QED
      BY <2>1, <2>2 DEF Numbered
  <1>2. CASE list # None
    <2> DEFINE n == Len(list)
               credit == [m \in 1..n |-> [inventor |-> list[m].inventor, order |-> OrderAt(list, m)]]
    <2>a. list \in Seq(Entry)
      <3>1. Lists \subseteq Seq(Entry)
        BY CatalogAssumption DEF Entry
      <3> QED
        BY <1>2, <3>1
    <2>b. n \in Nat /\ DOMAIN list = 1..n /\ \A m \in 1..n : list[m] \in Entry
      BY <2>a
    <2>1. n \in Nat /\ DOMAIN list = 1..n
      BY <2>b
    <2>2. \A m \in 1..n : OrderAt(list, m) \in Nat /\ list[m].inventor \in Nat
      <3> TAKE m \in 1..n
      <3>1. list[m].inventor \in Nat /\ list[m].order \in Nat \cup {None}
        BY <2>b DEF Entry
      <3>2. m \in Nat
        BY <2>b
      <3> QED
        BY <3>1, <3>2 DEF OrderAt
    <2>3. WellFormed(list)
      BY <1>2
    <2>4. LinksOf(list) = {credit[m] : m \in 1..n}
      BY <1>2, <2>1 DEF LinksOf
    <2>5. credit \in [1..n -> LinksOf(list)]
      BY <2>4
    <2>6. \A a, b \in 1..n : credit[a].inventor = credit[b].inventor => a = b
      BY <2>1, <2>3 DEF WellFormed
    <2>7. \A x \in LinksOf(list) : \E m \in 1..n : credit[m] = x
      BY <2>4
    <2>8. credit \in Bijection(1..n, LinksOf(list))
      <3> HIDE DEF credit
      <3>1. \A a, b \in 1..n : credit[a] = credit[b] => a = b
        BY <2>6
      <3> QED
        BY <2>5, <2>7, <3>1 DEF Bijection, Injection, Surjection, IsInjective
    <2>9. IsFiniteSet(1..n) /\ Cardinality(1..n) = n
      <3>1. n \in Int /\ 1 \in Int /\ (1 > n => n = 0)
        BY <2>1
      <3> HIDE DEF n
      <3>2. /\ IsFiniteSet(1..n)
            /\ Cardinality(1..n) = IF 1 > n THEN 0 ELSE n - 1 + 1
        BY <3>1, FS_Interval, Zenon
      <3> QED
        BY <3>1, <3>2
    <2>10. IsFiniteSet(LinksOf(list)) /\ Cardinality(LinksOf(list)) = n
      BY <2>8, <2>9, FS_Bijection DEF ExistsBijection
    <2>11. {c.order : c \in LinksOf(list)} = {OrderAt(list, m) : m \in 1..n}
      <3>1. \A m \in 1..n : credit[m].order = OrderAt(list, m)
        OBVIOUS
      <3> HIDE DEF credit
      <3> QED
        BY <2>4, <3>1
    <2>12. {c.order : c \in LinksOf(list)} = 1..n
      BY <2>1, <2>3, <2>11 DEF WellFormed
    <2>13. \A c, d \in LinksOf(list) : c.inventor = d.inventor => c = d
      BY <2>4, <2>6
    <2>14. LinksOf(list) \in SUBSET Credit
      BY <2>2, <2>4 DEF Credit
    <2> QED
      BY <2>10, <2>12, <2>13, <2>14 DEF Numbered
  <1> QED
    BY <1>1, <1>2

-----------------------------------------------------------------------------
(* What a step does to what a handler holds *)

HeldMoves ==
    \/ UNCHANGED req
    \/ \E s \in Sessions, h \in Request : Sound(h) /\ req' = [req EXCEPT ![s] = h]

Pcs == {"idle", "linked", "clash", "inventors", "categories", "write"}

LEMMA NothingHeld == NoRequest \in Request /\ Sound(NoRequest)
  <1>1. NoRequest \in Request
    BY DEF NoRequest, Request
  <1> QED
    BY <1>1 DEF NoRequest, Sound

LEMMA Finishes ==
  ASSUME NEW s \in Sessions, Finish(s)
  PROVE  HeldMoves
  BY NothingHeld DEF Finish, HeldMoves

LEMMA Goes ==
  ASSUME Inv, NEW s \in Sessions, NEW pc \in Pcs, Goto(s, pc),
         pc \in {"categories", "write"} /\ req[s].list # None => WellFormed(req[s].list)
  PROVE  HeldMoves
  <1> DEFINE h == [req[s] EXCEPT !.pc = pc]
  <1>1. req[s] \in Request /\ Sound(req[s])
    BY DEF Inv, HeldIsSound
  <1>2. h \in Request
    BY <1>1 DEF Request, Pcs
  <1>3. /\ h.pc = pc /\ h.op = req[s].op /\ h.id = req[s].id /\ h.email = req[s].email
        /\ h.name = req[s].name /\ h.list = req[s].list
    BY <1>1 DEF Request
  <1>4. req' = [req EXCEPT ![s] = h]
    BY DEF Goto
  <1> HIDE DEF h
  <1>5. Sound(h)
    BY <1>1, <1>2, <1>3 DEF Sound
  <1> QED
    BY <1>2, <1>4, <1>5 DEF HeldMoves

LEMMA Passes ==
  ASSUME Inv, NEW s \in Sessions, NEW pc \in Pcs, NEW refused, Unless(s, refused, pc),
         ~refused /\ pc \in {"categories", "write"} /\ req[s].list # None
             => WellFormed(req[s].list)
  PROVE  HeldMoves
  <1>1. CASE refused
    BY <1>1, Finishes DEF Unless
  <1>2. CASE ~refused
    BY <1>2, Goes DEF Unless
  <1> QED
    BY <1>1, <1>2

LEMMA Begins ==
  ASSUME NEW s \in Sessions, NEW op \in Ops, NEW pc \in Pcs, NEW r \in Request,
         Begin(s, op, pc, r),
         op \in {"createInventor", "updateInventor"} => r.email \in Emails,
         op \in {"createCategory", "updateCategory"} => r.name \in Names,
         op = "updatePatent" => r.id \in 1..Len(patent),
         op \notin {"createPatent", "updatePatent"} => r.list = None,
         r.list # None => pc \notin {"categories", "write"}
  PROVE  HeldMoves
  <1> DEFINE h == [r EXCEPT !.op = op, !.pc = pc]
  <1>2. h \in Request
    BY DEF Request, Pcs
  <1>3. /\ h.pc = pc /\ h.op = op /\ h.id = r.id /\ h.email = r.email
        /\ h.name = r.name /\ h.list = r.list
    BY DEF Request
  <1>4. req' = [req EXCEPT ![s] = h]
    BY DEF Begin
  <1> HIDE DEF h
  <1>5. Sound(h)
    BY <1>2, <1>3 DEF Sound
  <1> QED
    BY <1>2, <1>4, <1>5 DEF HeldMoves

-----------------------------------------------------------------------------
(* Every step has one of the effects *)

LEMMA InventorEffect ==
  ASSUME Inv, NEW s \in Sessions, InventorStep(s)
  PROVE  Effect /\ HeldMoves
  <1>r. req[s] \in Request /\ Sound(req[s])
    BY DEF Inv, HeldIsSound
  <1>u. UserOf[s] \in Users
    BY CatalogAssumption
  <1>i. Tables
    BY DEF Inv
  <1>1. ASSUME NEW e \in Emails, NEW link \in BOOLEAN, CreateInventorRead(s, e, link)
        PROVE  Effect /\ HeldMoves
    <2> DEFINE r == [NoRequest EXCEPT !.email = e, !.link = link]
               pc == IF link THEN "linked" ELSE "write"
    <2>1. r \in Request /\ r.email = e /\ r.list = None
      BY DEF NoRequest, Request
    <2>2. pc \in Pcs /\ "createInventor" \in Ops
      BY DEF Pcs, Ops
    <2>3. Begin(s, "createInventor", pc, r) /\ KeepTables
      BY <1>1 DEF CreateInventorRead
    <2> HIDE DEF r, pc
    <2> QED
      BY <2>1, <2>2, <2>3, Begins DEF Effect
  <1>2. ASSUME NEW i \in DOMAIN inventor, NEW e \in Emails, UpdateInventorRead(s, i, e)
        PROVE  Effect /\ HeldMoves
    <2> DEFINE r == [NoRequest EXCEPT !.id = i, !.email = e]
               pc == IF e = inventor[i].email THEN "write" ELSE "clash"
    <2>1. i \in Nat
      BY <1>i, IdsAreRows
    <2>2. r \in Request /\ r.email = e /\ r.list = None
      BY <2>1 DEF NoRequest, Request
    <2>3. pc \in Pcs /\ "updateInventor" \in Ops
      BY DEF Pcs, Ops
    <2>4. Begin(s, "updateInventor", pc, r) /\ KeepTables
      BY <1>2 DEF UpdateInventorRead
    <2> HIDE DEF r, pc
    <2> QED
      BY <2>2, <2>3, <2>4, Begins DEF Effect
  <1>3. ASSUME NEW i \in DOMAIN inventor, DeleteInventorRead(s, i)
        PROVE  Effect /\ HeldMoves
    <2> DEFINE r == [NoRequest EXCEPT !.id = i]
    <2>1. i \in Nat
      BY <1>i, IdsAreRows
    <2>2. r \in Request /\ r.list = None
      BY <2>1 DEF NoRequest, Request
    <2>3. "clash" \in Pcs /\ "deleteInventor" \in Ops
      BY DEF Pcs, Ops
    <2>4. Begin(s, "deleteInventor", "clash", r) /\ KeepTables
      BY <1>3 DEF DeleteInventorRead
    <2> HIDE DEF r
    <2> QED
      BY <2>2, <2>3, <2>4, Begins DEF Effect
  <1>4. CASE CreateInventorLinked(s) \/ UpdateInventorClash(s) \/ DeleteInventorCount(s)
    <2>1. PICK refused : Unless(s, refused, "write")
      BY <1>4 DEF CreateInventorLinked, UpdateInventorClash, DeleteInventorCount
    <2>2. req[s].list = None /\ "write" \in Pcs
      BY <1>4, <1>r DEF CreateInventorLinked, UpdateInventorClash, DeleteInventorCount, At,
                        Sound, Pcs
    <2>3. HeldMoves
      BY <2>1, <2>2, Passes
    <2>4. KeepTables
      BY <1>4 DEF CreateInventorLinked, UpdateInventorClash, DeleteInventorCount
    <2> QED
      BY <2>3, <2>4 DEF Effect
  <1>5. CASE CreateInventorWrite(s)
    <2> DEFINE u == IF req[s].link THEN UserOf[s] ELSE None
    <2>1. req[s].email \in Emails /\ u \in Owner
      BY <1>5, <1>r, <1>u DEF CreateInventorWrite, At, Sound, Owner
    <2>2. \/ KeepTables
          \/ /\ ~UniqueViolation(req[s].email, u, 0)
             /\ inventor' = Append(inventor, [email |-> req[s].email, userId |-> u])
             /\ UNCHANGED <<category, patent, written>>
      BY <1>5 DEF CreateInventorWrite, KeepTables
    <2>3. HeldMoves
      BY <1>5, Finishes DEF CreateInventorWrite
    <2> HIDE DEF u
    <2> QED
      BY <2>1, <2>2, <2>3 DEF Effect, InventorAdded
  <1>6. CASE UpdateInventorWrite(s)
    <2>1. req[s].email \in Emails
      BY <1>6, <1>r DEF UpdateInventorWrite, At, Sound
    <2>2. \/ KeepTables
          \/ /\ req[s].id \in InventorIds
             /\ ~UniqueViolation(req[s].email, None, req[s].id)
             /\ inventor' = [inventor EXCEPT ![req[s].id].email = req[s].email]
             /\ UNCHANGED <<category, patent, written>>
      BY <1>6 DEF UpdateInventorWrite, KeepTables
    <2>3. HeldMoves
      BY <1>6, Finishes DEF UpdateInventorWrite
    <2> QED
      BY <2>1, <2>2, <2>3 DEF Effect, InventorMoved
  <1>7. CASE DeleteInventorWrite(s)
    <2>1. HeldMoves
      BY <1>7, Finishes DEF DeleteInventorWrite
    <2>2. KeepTables \/ InventorDropped
      BY <1>7 DEF DeleteInventorWrite, KeepTables, InventorDropped
    <2> QED
      BY <2>1, <2>2 DEF Effect
  <1> QED
    BY <1>1, <1>2, <1>3, <1>4, <1>5, <1>6, <1>7 DEF InventorStep

LEMMA CategoryEffect ==
  ASSUME Inv, NEW s \in Sessions, CategoryStep(s)
  PROVE  Effect /\ HeldMoves
  <1>r. req[s] \in Request /\ Sound(req[s])
    BY DEF Inv, HeldIsSound
  <1>i. Tables
    BY DEF Inv
  <1>1. ASSUME NEW n \in Names, CreateCategoryRead(s, n)
        PROVE  Effect /\ HeldMoves
    <2> DEFINE r == [NoRequest EXCEPT !.name = n]
    <2>1. r \in Request /\ r.name = n /\ r.list = None
      BY DEF NoRequest, Request
    <2>2. "write" \in Pcs /\ "createCategory" \in Ops
      BY DEF Pcs, Ops
    <2>3. Begin(s, "createCategory", "write", r) /\ KeepTables
      BY <1>1 DEF CreateCategoryRead
    <2> HIDE DEF r
    <2> QED
      BY <2>1, <2>2, <2>3, Begins DEF Effect
  <1>2. ASSUME NEW c \in DOMAIN category, NEW n \in Names, UpdateCategoryRead(s, c, n)
        PROVE  Effect /\ HeldMoves
    <2> DEFINE r == [NoRequest EXCEPT !.id = c, !.name = n]
    <2>1. c \in Nat
      BY <1>i, IdsAreRows
    <2>2. r \in Request /\ r.name = n /\ r.list = None
      BY <2>1 DEF NoRequest, Request
    <2>3. "clash" \in Pcs /\ "updateCategory" \in Ops
      BY DEF Pcs, Ops
    <2>4. Begin(s, "updateCategory", "clash", r) /\ KeepTables
      BY <1>2 DEF UpdateCategoryRead
    <2> HIDE DEF r
    <2> QED
      BY <2>2, <2>3, <2>4, Begins DEF Effect
  <1>3. ASSUME NEW c \in DOMAIN category, DeleteCategoryRead(s, c)
        PROVE  Effect /\ HeldMoves
    <2> DEFINE r == [NoRequest EXCEPT !.id = c]
    <2>1. c \in Nat
      BY <1>i, IdsAreRows
    <2>2. r \in Request /\ r.list = None
      BY <2>1 DEF NoRequest, Request
    <2>3. "write" \in Pcs /\ "deleteCategory" \in Ops
      BY DEF Pcs, Ops
    <2>4. Begin(s, "deleteCategory", "write", r) /\ KeepTables
      BY <1>3 DEF DeleteCategoryRead
    <2> HIDE DEF r
    <2> QED
      BY <2>2, <2>3, <2>4, Begins DEF Effect
  <1>4. CASE UpdateCategoryClash(s)
    <2>1. PICK refused : Unless(s, refused, "write")
      BY <1>4 DEF UpdateCategoryClash
    <2>2. req[s].list = None /\ "write" \in Pcs
      BY <1>4, <1>r DEF UpdateCategoryClash, At, Sound, Pcs
    <2>3. HeldMoves
      BY <2>1, <2>2, Passes
    <2> QED
      BY <1>4, <2>3 DEF Effect, UpdateCategoryClash
  <1>5. CASE CreateCategoryWrite(s)
    <2>1. req[s].name \in Names
      BY <1>5, <1>r DEF CreateCategoryWrite, At, Sound
    <2>2. KeepTables \/ CategoryAdded
      BY <1>5, <2>1 DEF CreateCategoryWrite, KeepTables, CategoryAdded
    <2>3. HeldMoves
      BY <1>5, Finishes DEF CreateCategoryWrite
    <2> QED
      BY <2>2, <2>3 DEF Effect
  <1>6. CASE UpdateCategoryWrite(s)
    <2>1. req[s].name \in Names
      BY <1>6, <1>r DEF UpdateCategoryWrite, At, Sound
    <2>2. KeepTables \/ CategoryRenamed
      BY <1>6, <2>1 DEF UpdateCategoryWrite, KeepTables, CategoryRenamed
    <2>3. HeldMoves
      BY <1>6, Finishes DEF UpdateCategoryWrite
    <2> QED
      BY <2>2, <2>3 DEF Effect
  <1>7. CASE DeleteCategoryWrite(s)
    <2>1. HeldMoves
      BY <1>7, Finishes DEF DeleteCategoryWrite
    <2>2. KeepTables \/ CategoryDropped
      BY <1>7 DEF DeleteCategoryWrite, KeepTables, CategoryDropped
    <2> QED
      BY <2>1, <2>2 DEF Effect
  <1> QED
    BY <1>1, <1>2, <1>3, <1>4, <1>5, <1>6, <1>7 DEF CategoryStep

LEMMA LinkEffect ==
  ASSUME Inv, NEW s \in Sessions, LinkStep(s)
  PROVE  Effect /\ HeldMoves
  <1>r. req[s] \in Request /\ Sound(req[s])
    BY DEF Inv, HeldIsSound
  <1>i. Tables
    BY DEF Inv
  <1>t. \A t \in TagSets : t \in (SUBSET Nat) \cup {None}
    BY CatalogAssumption DEF TagSets
  <1>1. ASSUME NEW l \in Lists \cup {None}, NEW t \in TagSets, CreatePatentStart(s, l, t)
        PROVE  Effect /\ HeldMoves
    <2> DEFINE r == [NoRequest EXCEPT !.list = l, !.tags = t]
    <2>1. r \in Request
      BY <1>t DEF NoRequest, Request
    <2>2. "inventors" \in Pcs /\ "createPatent" \in Ops
      BY DEF Pcs, Ops
    <2>3. Begin(s, "createPatent", "inventors", r) /\ KeepTables
      BY <1>1 DEF CreatePatentStart
    <2> HIDE DEF r
    <2> QED
      BY <2>1, <2>2, <2>3, Begins DEF Effect
  <1>2. ASSUME NEW p \in DOMAIN patent, NEW l \in Lists \cup {None}, NEW t \in TagSets,
               UpdatePatentRead(s, p, l, t)
        PROVE  Effect /\ HeldMoves
    <2> DEFINE r == [NoRequest EXCEPT !.id = p, !.list = l, !.tags = t]
    <2>1. p \in Nat /\ p \in 1..Len(patent)
      BY <1>i, IdsAreRows
    <2>2. r \in Request /\ r.id = p
      BY <1>t, <2>1 DEF NoRequest, Request
    <2>3. "inventors" \in Pcs /\ "updatePatent" \in Ops
      BY DEF Pcs, Ops
    <2>4. Begin(s, "updatePatent", "inventors", r) /\ KeepTables
      BY <1>2 DEF UpdatePatentRead
    <2> HIDE DEF r
    <2> QED
      BY <2>1, <2>2, <2>3, <2>4, Begins DEF Effect
  <1>3. CASE ResolveInventors(s)
    <2> DEFINE refused == req[s].list # None /\ ~(WellFormed(req[s].list) /\ AllKnown(req[s].list))
    <2>1. Unless(s, refused, "categories") /\ KeepTables
      BY <1>3 DEF ResolveInventors
    <2>2. ~refused /\ req[s].list # None => WellFormed(req[s].list)
      OBVIOUS
    <2>3. "categories" \in Pcs
      BY DEF Pcs
    <2> HIDE DEF refused
    <2> QED
      BY <2>1, <2>2, <2>3, Passes DEF Effect
  <1>4. CASE ResolveCategories(s)
    <2>1. PICK refused : Unless(s, refused, "write")
      BY <1>4 DEF ResolveCategories
    <2>2. /\ req[s].list # None => WellFormed(req[s].list)
          /\ "write" \in Pcs
      BY <1>4, <1>r DEF ResolveCategories, Sound, Pcs
    <2>3. HeldMoves
      BY <2>1, <2>2, Passes
    <2> QED
      BY <1>4, <2>3 DEF Effect, ResolveCategories
  <1>5. CASE CreatePatentWrite(s)
    <2>1. req[s].list # None => WellFormed(req[s].list)
      BY <1>5, <1>r DEF CreatePatentWrite, At, Sound
    <2>2. KeepTables \/ PatentAdded
      BY <1>5, <1>r, <2>1 DEF CreatePatentWrite, KeepTables, PatentAdded, Resolved
    <2>3. HeldMoves
      BY <1>5, Finishes DEF CreatePatentWrite
    <2> QED
      BY <2>2, <2>3 DEF Effect
  <1>6. CASE UpdatePatentWrite(s)
    <2>1. /\ req[s].list # None => WellFormed(req[s].list)
          /\ req[s].id \in 1..Len(patent)
      BY <1>6, <1>r DEF UpdatePatentWrite, At, Sound
    <2>2. KeepTables \/ PatentLinked
      BY <1>6, <1>r, <2>1 DEF UpdatePatentWrite, KeepTables, PatentLinked, Resolved
    <2>3. HeldMoves
      BY <1>6, Finishes DEF UpdatePatentWrite
    <2> QED
      BY <2>2, <2>3 DEF Effect
  <1> QED
    BY <1>1, <1>2, <1>3, <1>4, <1>5, <1>6 DEF LinkStep

LEMMA StepHasEffect ==
  ASSUME Inv, [Next]_vars
  PROVE  Effect /\ HeldMoves
  <1>1. CASE UNCHANGED vars
    BY <1>1 DEF vars, Effect, KeepTables, HeldMoves
  <1>2. ASSUME NEW s \in Sessions, Abort(s) PROVE Effect /\ HeldMoves
    BY <1>2, Finishes DEF Abort, Effect
  <1>3. ASSUME NEW p \in DOMAIN patent, Review(p) \/ DeletePatent(p) PROVE Effect /\ HeldMoves
    <2>1. UNCHANGED req
      BY <1>3 DEF Review, DeletePatent
    <2> QED
      BY <1>3, <2>1 DEF Effect, HeldMoves
  <1> QED
    BY <1>1, <1>2, <1>3, InventorEffect, CategoryEffect, LinkEffect DEF Next

-----------------------------------------------------------------------------
(* The tables after each effect *)

\* Which inventors there are, and what the rows that stay hold.
LEMMA AfterInventorAdded ==
  ASSUME Tables, NEW e \in Emails, NEW u \in Owner,
         inventor' = Append(inventor, [email |-> e, userId |-> u])
  PROVE  /\ inventor' \in Seq(Profile \cup {Gone})
         /\ Len(inventor') = Len(inventor) + 1
         /\ InventorIds' = InventorIds \cup {Len(inventor) + 1}
         /\ inventor'[Len(inventor) + 1] = [email |-> e, userId |-> u]
         /\ \A i \in 1..Len(inventor) : inventor'[i] = inventor[i]
  <1> DEFINE x == [email |-> e, userId |-> u]
  <1>1. x \in Profile /\ x # Gone
    BY ProfilesAreNotGone
  <1> HIDE DEF x
  <1>2. inventor \in Seq(Profile \cup {Gone}) /\ inventor' = Append(inventor, x)
    BY DEF Tables, x
  <1>3. /\ inventor' \in Seq(Profile \cup {Gone})
        /\ Len(inventor') = Len(inventor) + 1
        /\ DOMAIN inventor' = 1..(Len(inventor) + 1)
        /\ DOMAIN inventor = 1..Len(inventor) /\ Len(inventor) \in Nat
        /\ inventor'[Len(inventor) + 1] = x
        /\ \A i \in 1..Len(inventor) : inventor'[i] = inventor[i]
    BY <1>1, <1>2
  <1>4. InventorIds' = InventorIds \cup {Len(inventor) + 1}
    BY <1>1, <1>3 DEF InventorIds
  <1> QED
    BY <1>3, <1>4 DEF x

LEMMA AfterInventorMoved ==
  ASSUME Tables, NEW i \in InventorIds, NEW e \in Emails,
         inventor' = [inventor EXCEPT ![i].email = e]
  PROVE  /\ inventor' \in Seq(Profile \cup {Gone})
         /\ Len(inventor') = Len(inventor)
         /\ InventorIds' = InventorIds
         /\ inventor'[i].email = e /\ inventor'[i].userId = inventor[i].userId
         /\ \A j \in InventorIds \ {i} : inventor'[j] = inventor[j]
  <1> DEFINE x == [email |-> e, userId |-> inventor[i].userId]
  <1>1. inventor[i] \in Profile /\ i \in DOMAIN inventor
    BY IdsAreRows DEF InventorIds
  <1>2. x \in Profile /\ x # Gone
    BY <1>1, ProfilesAreNotGone
  <1>3. [inventor[i] EXCEPT !.email = e] = x
    BY <1>1 DEF Profile
  <1>4. inventor' = [inventor EXCEPT ![i] = x]
    BY <1>3
  <1>5. inventor \in Seq(Profile \cup {Gone})
    BY DEF Tables
  <1>6. x.email = e /\ x.userId = inventor[i].userId
    OBVIOUS
  <1> HIDE DEF x
  <1>7. /\ inventor' \in Seq(Profile \cup {Gone})
        /\ Len(inventor') = Len(inventor)
        /\ DOMAIN inventor' = DOMAIN inventor
        /\ inventor'[i] = x
        /\ \A j \in DOMAIN inventor \ {i} : inventor'[j] = inventor[j]
    BY <1>1, <1>2, <1>4, <1>5
  <1>8. InventorIds' = InventorIds
    BY <1>1, <1>2, <1>7 DEF InventorIds
  <1> QED
    BY <1>6, <1>7, <1>8 DEF InventorIds

LEMMA AfterInventorDropped ==
  ASSUME Tables, NEW i \in InventorIds, inventor' = [inventor EXCEPT ![i] = Gone]
  PROVE  /\ inventor' \in Seq(Profile \cup {Gone})
         /\ Len(inventor') = Len(inventor)
         /\ InventorIds' = InventorIds \ {i}
         /\ \A j \in InventorIds' : inventor'[j] = inventor[j]
  <1>1. i \in DOMAIN inventor
    BY DEF InventorIds
  <1>2. inventor \in Seq(Profile \cup {Gone})
    BY DEF Tables
  <1> HIDE DEF Gone
  <1>3. /\ inventor' \in Seq(Profile \cup {Gone})
        /\ Len(inventor') = Len(inventor)
        /\ DOMAIN inventor' = DOMAIN inventor
        /\ inventor'[i] = Gone
        /\ \A j \in DOMAIN inventor \ {i} : inventor'[j] = inventor[j]
    BY <1>1, <1>2
  <1> QED
    BY <1>3 DEF InventorIds

LEMMA AfterCategoryAdded ==
  ASSUME Tables, NEW n \in Names, category' = Append(category, n)
  PROVE  category' \in Seq(Names \cup {None}) /\ CategoryIds \subseteq CategoryIds'
  <1>1. category \in Seq(Names \cup {None})
    BY DEF Tables
  <1>2. /\ category' \in Seq(Names \cup {None})
        /\ DOMAIN category \subseteq DOMAIN category'
        /\ \A c \in DOMAIN category : category'[c] = category[c]
    BY <1>1
  <1> QED
    BY <1>2 DEF CategoryIds

LEMMA AfterCategoryRenamed ==
  ASSUME Tables, NEW c \in CategoryIds, NEW n \in Names, category' = [category EXCEPT ![c] = n]
  PROVE  category' \in Seq(Names \cup {None}) /\ CategoryIds' = CategoryIds
  <1>1. category \in Seq(Names \cup {None}) /\ c \in DOMAIN category /\ n # None
    BY CatalogAssumption DEF Tables, CategoryIds
  <1>2. /\ category' \in Seq(Names \cup {None})
        /\ DOMAIN category = DOMAIN category'
        /\ category'[c] = n
        /\ \A d \in DOMAIN category \ {c} : category'[d] = category[d]
    BY <1>1
  <1> QED
    BY <1>1, <1>2 DEF CategoryIds

LEMMA AfterCategoryDropped ==
  ASSUME Tables, NEW c \in CategoryIds, category' = [category EXCEPT ![c] = None]
  PROVE  category' \in Seq(Names \cup {None}) /\ CategoryIds' = CategoryIds \ {c}
  <1>1. category \in Seq(Names \cup {None}) /\ c \in DOMAIN category
    BY DEF Tables, CategoryIds
  <1>2. /\ category' \in Seq(Names \cup {None})
        /\ DOMAIN category = DOMAIN category'
        /\ category'[c] = None
        /\ \A d \in DOMAIN category \ {c} : category'[d] = category[d]
    BY <1>1
  <1> QED
    BY <1>1, <1>2 DEF CategoryIds

LEMMA AfterRowsReplaced ==
  ASSUME Tables, patent' \in [DOMAIN patent -> Row]
  PROVE  patent' \in Seq(Row) /\ Len(patent') = Len(patent)
  <1>1. DOMAIN patent = 1..Len(patent) /\ Len(patent) \in Nat
    BY IdsAreRows
  <1>2. patent' \in [1..Len(patent) -> Row]
    BY <1>1
  <1>3. patent' \in Seq(Row)
    BY <1>1, <1>2, SeqDef
  <1>4. DOMAIN patent' = 1..Len(patent') /\ Len(patent') \in Nat /\ DOMAIN patent' = 1..Len(patent)
    BY <1>2, <1>3
  <1> QED
    BY <1>1, <1>3, <1>4

-----------------------------------------------------------------------------
(* The invariant is kept by each effect *)

\* Everything about the tables that the invariant says.
TableInv == Tables /\ OneProfilePerAccount /\ CreditsAreKept

LEMMA KeptWithMore ==
  ASSUME NEW row, NEW credits, NEW last \in Nat, NEW inventors, NEW categories, NEW more,
         Kept(row, credits, last, inventors, categories), categories \subseteq more
  PROVE  /\ Kept(row, credits, last, inventors, more)
         /\ Kept(row, credits, last + 1, inventors \cup {last + 1}, more)
  <1>1. \A c \in credits : c.inventor \in 1..(last + 1) /\ c.inventor # last + 1
    BY DEF Kept
  <1> QED
    BY <1>1 DEF Kept

\* The tables of the inventors and the categories changed, no row of a patent did.
LEMMA RowsKeepCredits ==
  ASSUME TableInv, UNCHANGED <<patent, written>>, inventor' \in Seq(Profile \cup {Gone}),
         category' \in Seq(Names \cup {None}), CategoryIds \subseteq CategoryIds',
         \/ Len(inventor') = Len(inventor) /\ InventorIds' = InventorIds
         \/ Len(inventor') = Len(inventor) + 1 /\ InventorIds' = InventorIds \cup {Len(inventor) + 1}
  PROVE  Tables' /\ CreditsAreKept'
  <1>1. Tables'
    BY DEF TableInv, Tables
  <1>2. Len(inventor) \in Nat
    BY IdsAreRows DEF TableInv
  <1>3. ASSUME NEW p \in 1..Len(patent)
        PROVE  Kept(patent[p], written[p], Len(inventor'), InventorIds', CategoryIds')
    <2>1. Kept(patent[p], written[p], Len(inventor), InventorIds, CategoryIds)
      BY DEF TableInv, CreditsAreKept
    <2>2. /\ Kept(patent[p], written[p], Len(inventor), InventorIds, CategoryIds')
          /\ Kept(patent[p], written[p], Len(inventor) + 1,
                  InventorIds \cup {Len(inventor) + 1}, CategoryIds')
      <3> DEFINE ids == InventorIds
                 old == CategoryIds
                 new == CategoryIds'
                 last == Len(inventor)
      <3>1. old \subseteq new /\ last \in Nat /\ Kept(patent[p], written[p], last, ids, old)
        BY <1>2, <2>1
      <3> HIDE DEF ids, old, new, last
      <3>2. /\ Kept(patent[p], written[p], last, ids, new)
            /\ Kept(patent[p], written[p], last + 1, ids \cup {last + 1}, new)
        BY <3>1, KeptWithMore
      <3> QED
        BY <3>2 DEF ids, new, last
    <2> QED
      BY <2>2
  <1> QED
    BY <1>1, <1>3 DEF CreditsAreKept

LEMMA AddedKeeps == TableInv /\ InventorAdded => TableInv'
  <1> SUFFICES ASSUME TableInv, InventorAdded PROVE TableInv'
    OBVIOUS
  <1>1. PICK e \in Emails, u \in Owner :
           /\ ~UniqueViolation(e, u, 0)
           /\ inventor' = Append(inventor, [email |-> e, userId |-> u])
           /\ UNCHANGED <<category, patent, written>>
    BY DEF InventorAdded
  <1>2. Tables
    BY DEF TableInv
  <1>3. /\ inventor' \in Seq(Profile \cup {Gone})
        /\ Len(inventor') = Len(inventor) + 1
        /\ InventorIds' = InventorIds \cup {Len(inventor) + 1}
        /\ inventor'[Len(inventor) + 1] = [email |-> e, userId |-> u]
        /\ \A i \in 1..Len(inventor) : inventor'[i] = inventor[i]
    BY <1>1, <1>2, AfterInventorAdded
  <1>4. category' \in Seq(Names \cup {None}) /\ CategoryIds' = CategoryIds
    BY <1>1, <1>2 DEF Tables, CategoryIds
  <1>5. Tables' /\ CreditsAreKept'
    BY <1>1, <1>3, <1>4, RowsKeepCredits
  <1>6. OneProfilePerAccount'
    <2>1. /\ DOMAIN inventor = 1..Len(inventor) /\ Len(inventor) \in Nat
          /\ \A i \in InventorIds : i \in 1..Len(inventor)
      BY <1>2, IdsAreRows DEF InventorIds
    <2>2. \A j \in InventorIds : inventor[j].email # e /\ (u # None => inventor[j].userId # u)
      BY <1>1, <2>1 DEF UniqueViolation, EmailTaken, Linked
    <2>3. \A i, j \in InventorIds : i # j =>
             /\ inventor[i].email # inventor[j].email
             /\ inventor[i].userId # None => inventor[i].userId # inventor[j].userId
      BY DEF TableInv, OneProfilePerAccount
    <2> DEFINE l == Len(inventor) + 1
    <2>4. \A j \in InventorIds : inventor'[j] = inventor[j]
      BY <1>3, <2>1
    <2>5. inventor'[l].email = e /\ inventor'[l].userId = u /\ InventorIds' = InventorIds \cup {l}
      BY <1>3
    <2> HIDE DEF l
    <2> QED
      BY <2>2, <2>3, <2>4, <2>5 DEF OneProfilePerAccount
  <1> QED
    BY <1>5, <1>6 DEF TableInv

LEMMA MovedKeeps == TableInv /\ InventorMoved => TableInv'
  <1> SUFFICES ASSUME TableInv, InventorMoved PROVE TableInv'
    OBVIOUS
  <1>1. PICK i \in InventorIds, e \in Emails :
           /\ ~UniqueViolation(e, None, i)
           /\ inventor' = [inventor EXCEPT ![i].email = e]
           /\ UNCHANGED <<category, patent, written>>
    BY DEF InventorMoved
  <1>2. Tables
    BY DEF TableInv
  <1>3. /\ inventor' \in Seq(Profile \cup {Gone})
        /\ Len(inventor') = Len(inventor)
        /\ InventorIds' = InventorIds
        /\ inventor'[i].email = e /\ inventor'[i].userId = inventor[i].userId
        /\ \A j \in InventorIds \ {i} : inventor'[j] = inventor[j]
    BY <1>1, <1>2, AfterInventorMoved
  <1>4. category' \in Seq(Names \cup {None}) /\ CategoryIds' = CategoryIds
    BY <1>1, <1>2 DEF Tables, CategoryIds
  <1>5. Tables' /\ CreditsAreKept'
    BY <1>1, <1>3, <1>4, RowsKeepCredits
  <1>6. OneProfilePerAccount'
    <2>1. \A j \in InventorIds \ {i} : inventor[j].email # e
      BY <1>1 DEF UniqueViolation, EmailTaken
    <2>2. \A j \in InventorIds : inventor'[j].userId = inventor[j].userId
      BY <1>3
    <2> QED
      BY <1>3, <2>1, <2>2 DEF TableInv, OneProfilePerAccount
  <1> QED
    BY <1>5, <1>6 DEF TableInv

LEMMA DroppedKeeps == TableInv /\ InventorDropped => TableInv'
  <1> SUFFICES ASSUME TableInv, InventorDropped PROVE TableInv'
    OBVIOUS
  <1>1. PICK i \in InventorIds :
           /\ inventor' = [inventor EXCEPT ![i] = Gone]
           /\ patent' = [p \in DOMAIN patent |-> WithoutInventor(patent[p], i)]
           /\ UNCHANGED <<category, written>>
    BY DEF InventorDropped
  <1>2. Tables
    BY DEF TableInv
  <1>3. /\ inventor' \in Seq(Profile \cup {Gone})
        /\ Len(inventor') = Len(inventor)
        /\ InventorIds' = InventorIds \ {i}
        /\ \A j \in InventorIds' : inventor'[j] = inventor[j]
    BY <1>1, <1>2, AfterInventorDropped
  <1>4. \A x \in Row : /\ WithoutInventor(x, i) \in Row
                       /\ WithoutInventor(x, i).credits = {c \in x.credits : c.inventor # i}
                       /\ WithoutInventor(x, i).tags = x.tags
    BY DEF WithoutInventor, Row
  <1>5. /\ DOMAIN patent = 1..Len(patent)
        /\ \A p \in DOMAIN patent : patent[p] \in Row
    BY <1>2, IdsAreRows
  <1>6. patent' \in [DOMAIN patent -> Row]
    BY <1>1, <1>4, <1>5
  <1>7. patent' \in Seq(Row) /\ Len(patent') = Len(patent)
    BY <1>2, <1>6, AfterRowsReplaced
  <1>8. Tables'
    BY <1>1, <1>2, <1>3, <1>7 DEF Tables
  <1>9. CategoryIds' = CategoryIds
    BY <1>1 DEF CategoryIds
  <1>10. ASSUME NEW p \in 1..Len(patent)
         PROVE  Kept(patent'[p], written[p], Len(inventor'), InventorIds', CategoryIds')
    <2>1. Kept(patent[p], written[p], Len(inventor), InventorIds, CategoryIds)
      BY DEF TableInv, CreditsAreKept
    <2>2. /\ patent'[p].credits = {c \in patent[p].credits : c.inventor # i}
          /\ patent'[p].tags = patent[p].tags
      BY <1>1, <1>4, <1>5
    <2> QED
      BY <1>3, <1>9, <2>1, <2>2 DEF Kept
  <1>11. CreditsAreKept'
    BY <1>1, <1>7, <1>10 DEF CreditsAreKept
  <1>12. OneProfilePerAccount'
    BY <1>3 DEF TableInv, OneProfilePerAccount
  <1> QED
    BY <1>8, <1>11, <1>12 DEF TableInv

LEMMA CategoryKeeps == TableInv /\ (CategoryAdded \/ CategoryRenamed) => TableInv'
  <1> SUFFICES ASSUME TableInv, CategoryAdded \/ CategoryRenamed PROVE TableInv'
    OBVIOUS
  <1>1. Tables
    BY DEF TableInv
  <1>2. UNCHANGED <<inventor, patent, written>>
    BY DEF CategoryAdded, CategoryRenamed
  <1>3. category' \in Seq(Names \cup {None}) /\ CategoryIds \subseteq CategoryIds'
    BY <1>1, AfterCategoryAdded, AfterCategoryRenamed DEF CategoryAdded, CategoryRenamed
  <1>4. /\ inventor' \in Seq(Profile \cup {Gone})
        /\ Len(inventor') = Len(inventor) /\ InventorIds' = InventorIds
    BY <1>1, <1>2 DEF Tables, InventorIds
  <1>5. Tables' /\ CreditsAreKept'
    BY <1>2, <1>3, <1>4, RowsKeepCredits
  <1>6. OneProfilePerAccount'
    BY <1>2, <1>4 DEF TableInv, OneProfilePerAccount
  <1> QED
    BY <1>5, <1>6 DEF TableInv

LEMMA CategoryDroppedKeeps == TableInv /\ CategoryDropped => TableInv'
  <1> SUFFICES ASSUME TableInv, CategoryDropped PROVE TableInv'
    OBVIOUS
  <1>1. PICK c \in CategoryIds :
           /\ category' = [category EXCEPT ![c] = None]
           /\ patent' = [p \in DOMAIN patent |-> [patent[p] EXCEPT !.tags = @ \ {c}]]
           /\ UNCHANGED <<inventor, written>>
    BY DEF CategoryDropped
  <1>2. Tables
    BY DEF TableInv
  <1>3. category' \in Seq(Names \cup {None}) /\ CategoryIds' = CategoryIds \ {c}
    BY <1>1, <1>2, AfterCategoryDropped
  <1>4. \A x \in Row : /\ [x EXCEPT !.tags = @ \ {c}] \in Row
                       /\ [x EXCEPT !.tags = @ \ {c}].credits = x.credits
                       /\ [x EXCEPT !.tags = @ \ {c}].tags = x.tags \ {c}
    BY DEF Row
  <1>5. /\ DOMAIN patent = 1..Len(patent)
        /\ \A p \in DOMAIN patent : patent[p] \in Row
    BY <1>2, IdsAreRows
  <1>6. patent' \in [DOMAIN patent -> Row]
    BY <1>1, <1>4, <1>5
  <1>7. patent' \in Seq(Row) /\ Len(patent') = Len(patent)
    BY <1>2, <1>6, AfterRowsReplaced
  <1>8. Tables'
    BY <1>1, <1>2, <1>3, <1>7 DEF Tables
  <1>9. Len(inventor') = Len(inventor) /\ InventorIds' = InventorIds
    BY <1>1 DEF InventorIds
  <1>10. ASSUME NEW p \in 1..Len(patent)
         PROVE  Kept(patent'[p], written[p], Len(inventor'), InventorIds', CategoryIds')
    <2>1. Kept(patent[p], written[p], Len(inventor), InventorIds, CategoryIds)
      BY DEF TableInv, CreditsAreKept
    <2>2. /\ patent'[p].credits = patent[p].credits
          /\ patent'[p].tags = patent[p].tags \ {c}
      BY <1>1, <1>4, <1>5
    <2> QED
      BY <1>3, <1>9, <2>1, <2>2 DEF Kept
  <1>11. CreditsAreKept'
    BY <1>1, <1>7, <1>10 DEF CreditsAreKept
  <1>12. OneProfilePerAccount'
    BY <1>1, <1>9 DEF TableInv, OneProfilePerAccount
  <1> QED
    BY <1>8, <1>11, <1>12 DEF TableInv

\* The links of a request that was resolved and passes the keys are what a row may hold.
LEMMA LinksAreKept ==
  ASSUME TableInv, NEW r \in Request, Resolved(r), NEW row \in Row,
         row.credits = LinksOf(r.list), row.tags \subseteq CategoryIds
  PROVE  Kept(row, LinksOf(r.list), Len(inventor), InventorIds, CategoryIds)
  <1>1. r.list \in Lists \cup {None}
    BY DEF Request
  <1>2. Numbered(LinksOf(r.list))
    BY <1>1, LinksAreCredits DEF Resolved
  <1>3. \A c \in LinksOf(r.list) : c.inventor \in InventorIds
    BY DEF Resolved, KeysHold, AllKnown
  <1>4. InventorIds \subseteq 1..Len(inventor)
    BY IdsAreRows DEF TableInv, InventorIds
  <1> QED
    BY <1>2, <1>3, <1>4 DEF Kept

LEMMA PatentAddedKeeps == TableInv /\ PatentAdded => TableInv'
  <1> SUFFICES ASSUME TableInv, PatentAdded PROVE TableInv'
    OBVIOUS
  <1>1. PICK r \in Request :
           /\ Resolved(r)
           /\ patent' = Append(patent, [status |-> "draft", credits |-> LinksOf(r.list),
                                        tags |-> IF r.tags = None THEN {} ELSE r.tags])
           /\ written' = Append(written, LinksOf(r.list))
           /\ UNCHANGED <<inventor, category>>
    BY DEF PatentAdded
  <1> DEFINE tags == IF r.tags = None THEN {} ELSE r.tags
             row == [status |-> "draft", credits |-> LinksOf(r.list), tags |-> tags]
  <1>2. /\ inventor \in Seq(Profile \cup {Gone}) /\ category \in Seq(Names \cup {None})
        /\ patent \in Seq(Row) /\ written \in Seq(SUBSET Credit) /\ Len(written) = Len(patent)
    BY DEF TableInv, Tables
  <1>3. LinksOf(r.list) \in SUBSET Credit
    <2>1. r.list \in Lists \cup {None}
      BY DEF Request
    <2> QED
      BY <1>1, <2>1, LinksAreCredits DEF Resolved
  <1>4. tags \subseteq CategoryIds /\ tags \in SUBSET Nat
    BY <1>1 DEF Resolved, KeysHold, Request
  <1>5. row \in Row /\ row.credits = LinksOf(r.list) /\ row.tags = tags
    BY <1>3, <1>4 DEF Row, Statuses
  <1>6. patent' = Append(patent, row)
    BY <1>1
  <1> HIDE DEF row, tags
  <1>7. /\ patent' \in Seq(Row) /\ Len(patent') = Len(patent) + 1 /\ Len(patent) \in Nat
        /\ patent'[Len(patent) + 1] = row
        /\ \A p \in 1..Len(patent) : patent'[p] = patent[p]
    BY <1>2, <1>5, <1>6
  <1>8. /\ written' \in Seq(SUBSET Credit) /\ Len(written') = Len(patent) + 1
        /\ written'[Len(patent) + 1] = LinksOf(r.list)
        /\ \A p \in 1..Len(patent) : written'[p] = written[p]
    BY <1>1, <1>2, <1>3
  <1>9. Tables'
    BY <1>1, <1>2, <1>7, <1>8 DEF Tables
  <1>10. Kept(row, LinksOf(r.list), Len(inventor), InventorIds, CategoryIds)
    BY <1>1, <1>4, <1>5, LinksAreKept
  <1>11. InventorIds' = InventorIds /\ CategoryIds' = CategoryIds /\ Len(inventor') = Len(inventor)
    BY <1>1 DEF InventorIds, CategoryIds
  <1>12. \A p \in 1..(Len(patent) + 1) :
            Kept(patent'[p], written'[p], Len(inventor), InventorIds, CategoryIds)
    <2> TAKE p \in 1..(Len(patent) + 1)
    <2>1. CASE p = Len(patent) + 1
      BY <1>7, <1>8, <1>10, <2>1
    <2>2. CASE p \in 1..Len(patent)
      BY <1>7, <1>8, <2>2 DEF TableInv, CreditsAreKept
    <2> QED
      BY <1>7, <2>1, <2>2
  <1>13. CreditsAreKept'
    BY <1>7, <1>11, <1>12 DEF CreditsAreKept
  <1>14. OneProfilePerAccount'
    BY <1>1, <1>11 DEF TableInv, OneProfilePerAccount
  <1> QED
    BY <1>9, <1>13, <1>14 DEF TableInv

\* One row and what was written of it are replaced.
LEMMA RowReplaced ==
  ASSUME TableInv, UNCHANGED <<inventor, category>>, NEW p \in 1..Len(patent),
         NEW row \in Row, NEW credits \in SUBSET Credit,
         patent' = [patent EXCEPT ![p] = row], written' = [written EXCEPT ![p] = credits],
         Kept(row, credits, Len(inventor), InventorIds, CategoryIds)
  PROVE  TableInv'
  <1>1. /\ inventor \in Seq(Profile \cup {Gone}) /\ category \in Seq(Names \cup {None})
        /\ patent \in Seq(Row) /\ written \in Seq(SUBSET Credit) /\ Len(written) = Len(patent)
    BY DEF TableInv, Tables
  <1>2. /\ patent' \in Seq(Row) /\ Len(patent') = Len(patent)
        /\ patent'[p] = row
        /\ \A q \in 1..Len(patent) : q # p => patent'[q] = patent[q]
    BY <1>1
  <1>3. /\ written' \in Seq(SUBSET Credit) /\ Len(written') = Len(patent)
        /\ written'[p] = credits
        /\ \A q \in 1..Len(patent) : q # p => written'[q] = written[q]
    BY <1>1
  <1>4. Tables'
    BY <1>1, <1>2, <1>3 DEF Tables
  <1>5. InventorIds' = InventorIds /\ CategoryIds' = CategoryIds /\ Len(inventor') = Len(inventor)
    BY DEF InventorIds, CategoryIds
  <1>6. \A q \in 1..Len(patent) :
            Kept(patent'[q], written'[q], Len(inventor), InventorIds, CategoryIds)
    BY <1>2, <1>3 DEF TableInv, CreditsAreKept
  <1>7. CreditsAreKept'
    BY <1>2, <1>5, <1>6 DEF CreditsAreKept
  <1>8. OneProfilePerAccount'
    BY <1>5 DEF TableInv, OneProfilePerAccount
  <1> QED
    BY <1>4, <1>7, <1>8 DEF TableInv

LEMMA PatentLinkedKeeps == TableInv /\ PatentLinked => TableInv'
  <1> SUFFICES ASSUME TableInv, PatentLinked PROVE TableInv'
    OBVIOUS
  <1>1. PICK r \in Request :
           /\ Resolved(r)
           /\ r.id \in 1..Len(patent) /\ Writable(r.id)
           /\ patent' = [patent EXCEPT ![r.id] = SetLinks(@, r)]
           /\ written' = IF r.list = None THEN written
                         ELSE [written EXCEPT ![r.id] = LinksOf(r.list)]
           /\ UNCHANGED <<inventor, category>>
    BY DEF PatentLinked
  <1> DEFINE p == r.id
             old == patent[p]
             row == SetLinks(old, r)
             credits == IF r.list = None THEN written[p] ELSE LinksOf(r.list)
  <1>2. /\ old \in Row /\ written[p] \in SUBSET Credit
        /\ Kept(old, written[p], Len(inventor), InventorIds, CategoryIds)
    BY <1>1, IdsAreRows DEF TableInv, CreditsAreKept
  <1>3. LinksOf(r.list) \in SUBSET Credit
    <2>1. r.list \in Lists \cup {None}
      BY DEF Request
    <2> QED
      BY <1>1, <2>1, LinksAreCredits DEF Resolved
  <1>4. r.tags # None => r.tags \in SUBSET Nat /\ r.tags \subseteq CategoryIds
    BY <1>1 DEF Resolved, KeysHold, Request
  <1>5. /\ row \in Row
        /\ row.credits = IF r.list = None THEN old.credits ELSE LinksOf(r.list)
        /\ row.tags = IF r.tags = None THEN old.tags ELSE r.tags
    BY <1>2, <1>3, <1>4 DEF SetLinks, Row
  <1>6. patent' = [patent EXCEPT ![p] = row]
    BY <1>1
  <1>7. written' = [written EXCEPT ![p] = credits]
    <2>1. written \in Seq(SUBSET Credit)
      BY DEF TableInv, Tables
    <2>2. written = [written EXCEPT ![p] = written[p]]
      BY <2>1
    <2> QED
      BY <1>1, <2>2
  <1>8. credits \in SUBSET Credit
    BY <1>2, <1>3
  <1>9. row.tags \subseteq CategoryIds
    BY <1>2, <1>4, <1>5 DEF Kept
  <1>10. CASE r.list = None
    <2>1. Kept(row, credits, Len(inventor), InventorIds, CategoryIds)
      BY <1>2, <1>5, <1>9, <1>10 DEF Kept
    <2> HIDE DEF row, credits
    <2> QED
      BY <1>1, <1>5, <1>6, <1>7, <1>8, <2>1, RowReplaced
  <1>11. CASE r.list # None
    <2>1. credits = LinksOf(r.list) /\ row.credits = LinksOf(r.list)
      BY <1>5, <1>11
    <2> HIDE DEF row, credits
    <2>2. Kept(row, credits, Len(inventor), InventorIds, CategoryIds)
      BY <1>1, <1>5, <1>9, <2>1, LinksAreKept
    <2> QED
      BY <1>1, <1>5, <1>6, <1>7, <1>8, <2>2, RowReplaced
  <1> QED
    BY <1>10, <1>11

LEMMA ReviewKeeps ==
  ASSUME TableInv, NEW p \in DOMAIN patent, Review(p)
  PROVE  TableInv'
  <1>1. PICK t \in Transitions : patent' = [patent EXCEPT ![p].status = t[2]]
    BY DEF Review
  <1> DEFINE row == [patent[p] EXCEPT !.status = t[2]]
  <1>2. t[2] \in Statuses
    BY <1>1 DEF Transitions, Statuses
  <1>3. /\ p \in 1..Len(patent) /\ patent[p] \in Row /\ written[p] \in SUBSET Credit
        /\ Kept(patent[p], written[p], Len(inventor), InventorIds, CategoryIds)
    BY IdsAreRows DEF TableInv, CreditsAreKept
  <1>4. row \in Row /\ row.credits = patent[p].credits /\ row.tags = patent[p].tags
    BY <1>2, <1>3 DEF Row
  <1>5. patent' = [patent EXCEPT ![p] = row]
    BY <1>1
  <1>6. written' = [written EXCEPT ![p] = written[p]]
    <2>1. written \in Seq(SUBSET Credit) /\ written' = written
      BY DEF TableInv, Tables, Review
    <2> QED
      BY <2>1
  <1>7. Kept(row, written[p], Len(inventor), InventorIds, CategoryIds)
    BY <1>3, <1>4 DEF Kept
  <1>8. UNCHANGED <<inventor, category>>
    BY DEF Review
  <1> HIDE DEF row
  <1> QED
    BY <1>3, <1>4, <1>5, <1>6, <1>7, <1>8, RowReplaced

LEMMA DeleteKeeps ==
  ASSUME TableInv, NEW p \in DOMAIN patent, DeletePatent(p)
  PROVE  TableInv'
  <1> DEFINE row == [status |-> "gone", credits |-> {}, tags |-> {}]
  <1>1. p \in 1..Len(patent)
    BY IdsAreRows DEF TableInv
  <1>2. row \in Row /\ {} \in SUBSET Credit /\ row.credits = {} /\ row.tags = {}
    BY DEF Row, Statuses
  <1>3. Numbered({})
    <2>1. IsFiniteSet({}) /\ Cardinality({}) = 0
      BY FS_EmptySet
    <2> QED
      BY <2>1 DEF Numbered
  <1>4. patent' = [patent EXCEPT ![p] = row] /\ written' = [written EXCEPT ![p] = {}]
        /\ UNCHANGED <<inventor, category>>
    BY DEF DeletePatent
  <1> HIDE DEF row
  <1>5. Kept(row, {}, Len(inventor), InventorIds, CategoryIds)
    BY <1>2, <1>3 DEF Kept
  <1> QED
    BY <1>1, <1>2, <1>4, <1>5, RowReplaced

LEMMA TablesKept == TableInv /\ Effect => TableInv'
  <1> SUFFICES ASSUME TableInv, Effect PROVE TableInv'
    OBVIOUS
  <1>1. CASE KeepTables
    <2>1. inventor' = inventor /\ category' = category /\ patent' = patent /\ written' = written
      BY <1>1 DEF KeepTables
    <2>2. InventorIds' = InventorIds /\ CategoryIds' = CategoryIds
      BY <2>1 DEF InventorIds, CategoryIds
    <2> QED
      BY <2>1, <2>2 DEF TableInv, Tables, OneProfilePerAccount, CreditsAreKept
  <1> QED
    BY <1>1, AddedKeeps, MovedKeeps, DroppedKeeps, CategoryKeeps, CategoryDroppedKeeps,
       PatentAddedKeeps, PatentLinkedKeeps, ReviewKeeps, DeleteKeeps DEF Effect

-----------------------------------------------------------------------------
(* The invariant *)

LEMMA PatentsStay ==
  ASSUME TableInv, Effect
  PROVE  Len(patent) \in Nat /\ 1..Len(patent) \subseteq 1..Len(patent')
  <1>1. patent \in Seq(Row) /\ Len(patent) \in Nat
    BY DEF TableInv, Tables
  <1>2. CASE UNCHANGED patent
    BY <1>2
  <1>3. CASE InventorDropped \/ CategoryDropped
    <2>1. DOMAIN patent' = DOMAIN patent
      BY <1>3 DEF InventorDropped, CategoryDropped
    <2>2. patent' \in Seq(Row)
      BY TablesKept DEF TableInv, Tables
    <2> QED
      BY <1>1, <2>1, <2>2
  <1>4. CASE PatentAdded
    <2>1. PICK row : patent' = Append(patent, row)
      BY <1>4 DEF PatentAdded
    <2>2. patent' \in Seq(Row)
      BY TablesKept DEF TableInv, Tables
    <2>3. DOMAIN patent \subseteq DOMAIN patent'
      BY <1>1, <2>1
    <2> QED
      BY <1>1, <2>2, <2>3
  <1>5. CASE PatentLinked \/ \E p \in DOMAIN patent : Review(p) \/ DeletePatent(p)
    <2>1. DOMAIN patent' = DOMAIN patent
      BY <1>5 DEF PatentLinked, Review, DeletePatent
    <2>2. patent' \in Seq(Row)
      BY TablesKept DEF TableInv, Tables
    <2> QED
      BY <1>1, <2>1, <2>2
  <1> QED
    BY <1>2, <1>3, <1>4, <1>5
       DEF Effect, KeepTables, InventorAdded, InventorMoved, CategoryAdded, CategoryRenamed

LEMMA InvInit == Init => Inv
  <1> SUFFICES ASSUME Init PROVE Inv
    OBVIOUS
  <1>1. /\ inventor = <<>> /\ category = <<>> /\ patent = <<>> /\ written = <<>>
        /\ req = [s \in Sessions |-> NoRequest]
    BY DEF Init
  <1>2. Tables
    BY <1>1 DEF Tables
  <1>3. InventorIds = {}
    BY <1>1 DEF InventorIds
  <1>4. OneProfilePerAccount /\ CreditsAreKept
    BY <1>1, <1>3 DEF OneProfilePerAccount, CreditsAreKept
  <1>5. req \in [Sessions -> Request] /\ HeldIsSound
    <2> HIDE DEF NoRequest
    <2> QED
      BY <1>1, NothingHeld DEF HeldIsSound
  <1> QED
    BY <1>2, <1>4, <1>5 DEF Inv

LEMMA InvStep == Inv /\ [Next]_vars => Inv'
  <1> SUFFICES ASSUME Inv, [Next]_vars PROVE Inv'
    OBVIOUS
  <1>1. Effect /\ HeldMoves
    BY StepHasEffect
  <1>2. TableInv
    BY DEF Inv, TableInv
  <1>3. TableInv'
    BY <1>1, <1>2, TablesKept
  <1>4. 1..Len(patent) \subseteq 1..Len(patent')
    BY <1>1, <1>2, PatentsStay
  <1>5. ASSUME NEW h, Sound(h) PROVE Sound(h)'
    BY <1>4, <1>5 DEF Sound
  <1>6. req' \in [Sessions -> Request] /\ \A s \in Sessions : Sound(req'[s])
    <2>1. req \in [Sessions -> Request] /\ \A s \in Sessions : Sound(req[s])
      BY DEF Inv, HeldIsSound
    <2>2. CASE UNCHANGED req
      BY <2>1, <2>2
    <2>3. ASSUME NEW s \in Sessions, NEW h \in Request, Sound(h), req' = [req EXCEPT ![s] = h]
          PROVE  req' \in [Sessions -> Request] /\ \A t \in Sessions : Sound(req'[t])
      <3>1. \A t \in Sessions : req'[t] = IF t = s THEN h ELSE req[t]
        BY <2>1, <2>3
      <3>2. ASSUME NEW t \in Sessions PROVE Sound(req'[t])
        BY <2>1, <2>3, <3>1
      <3> QED
        BY <2>1, <2>3, <3>2
    <2> QED
      BY <1>1, <2>2, <2>3 DEF HeldMoves
  <1>7. HeldIsSound'
    BY <1>4, <1>6 DEF HeldIsSound, Sound
  <1> QED
    BY <1>3, <1>6, <1>7 DEF Inv, TableInv

LEMMA Invariant == Spec => []Inv
  BY InvInit, InvStep, PTL DEF Spec

\* Whatever interleaves, the tables and the handlers hold what they can hold.
THEOREM TypeCorrect == Spec => []TypeOK
  <1>1. Inv => TypeOK
    <2> SUFFICES ASSUME Inv PROVE TypeOK
      OBVIOUS
    <2>1. Tables /\ req \in [Sessions -> Request]
      BY DEF Inv
    <2>2. DOMAIN written = DOMAIN patent
      BY <2>1, IdsAreRows
    <2> QED
      BY <2>1, <2>2 DEF TypeOK, Tables
  <1> QED
    BY <1>1, Invariant, PTL

\* However many look an address or an account up at once, it becomes one inventor.
THEOREM ProfilesAreUnique == Spec => []OneProfilePerAccount
  <1>1. Inv => OneProfilePerAccount
    BY DEF Inv
  <1> QED
    BY <1>1, Invariant, PTL

\* However edits and deletions interleave, the credits of a patent are those of one
\* request, in an order from 1 to N, less the inventors that are gone.
THEOREM CreditsAreOfOneRequest == Spec => []CreditsComeFromOneRequest
  <1>1. Inv => CreditsComeFromOneRequest
    <2> SUFFICES ASSUME Inv PROVE CreditsComeFromOneRequest
      OBVIOUS
    <2>1. DOMAIN patent = 1..Len(patent)
      BY IdsAreRows DEF Inv
    <2> QED
      BY <2>1 DEF Inv, CreditsAreKept, Kept, Numbered, CreditsComeFromOneRequest
  <1> QED
    BY <1>1, Invariant, PTL

\* No link outlives the inventor or the category it leads to.
THEOREM LinksLeadSomewhere == Spec => []LinksReferToRows
  <1>1. Inv => LinksReferToRows
    <2> SUFFICES ASSUME Inv PROVE LinksReferToRows
      OBVIOUS
    <2>1. DOMAIN patent = 1..Len(patent)
      BY IdsAreRows DEF Inv
    <2> QED
      BY <2>1 DEF Inv, CreditsAreKept, Kept, LinksReferToRows
  <1> QED
    BY <1>1, Invariant, PTL

\* No request sets the links of a patent that is submitted: they go with the inventor
\* or the category they name, and not otherwise.
THEOREM SubmittedLinksShrink == Spec => SubmittedLinksOnlyShrink
  <1> DEFINE Shrinks ==
        \A p \in DOMAIN patent :
          patent[p].status \in {"pending_admin", "approved"} =>
              /\ patent'[p].credits = {c \in patent[p].credits : inventor'[c.inventor] # Gone}
              /\ patent'[p].tags = {t \in patent[p].tags : category'[t] # None}
  <1>1. Inv /\ [Next]_vars => [Shrinks]_vars
    <2> SUFFICES ASSUME Inv, [Next]_vars, NEW p \in DOMAIN patent,
                        patent[p].status \in {"pending_admin", "approved"}
                 PROVE  /\ patent'[p].credits =
                             {c \in patent[p].credits : inventor'[c.inventor] # Gone}
                        /\ patent'[p].tags = {t \in patent[p].tags : category'[t] # None}
      OBVIOUS
    <2>1. Effect /\ Tables /\ TableInv
      BY StepHasEffect DEF Inv, TableInv
    <2>2. /\ p \in 1..Len(patent) /\ patent \in Seq(Row) /\ patent[p] \in Row
          /\ \A c \in patent[p].credits : c.inventor \in InventorIds
          /\ patent[p].tags \subseteq CategoryIds
          /\ inventor \in Seq(Profile \cup {Gone}) /\ category \in Seq(Names \cup {None})
      BY <2>1, IdsAreRows DEF TableInv, CreditsAreKept, Kept, Tables
    <2>3. /\ \A c \in patent[p].credits : inventor[c.inventor] # Gone
          /\ \A t \in patent[p].tags : category[t] # None
      BY <2>2 DEF InventorIds, CategoryIds
    <2>4. CASE InventorIds \subseteq InventorIds' /\ UNCHANGED <<category, patent>>
      BY <2>2, <2>3, <2>4 DEF InventorIds
    <2>5. CASE KeepTables \/ InventorAdded \/ InventorMoved
      <3>1. UNCHANGED <<category, patent>>
        BY <2>5 DEF KeepTables, InventorAdded, InventorMoved
      <3>2. CASE KeepTables
        BY <3>1, <3>2, <2>4 DEF KeepTables, InventorIds
      <3>3. CASE InventorAdded
        BY <3>1, <3>3, <2>1, <2>4, AfterInventorAdded DEF InventorAdded
      <3>4. CASE InventorMoved
        BY <3>1, <3>4, <2>1, <2>4, AfterInventorMoved DEF InventorMoved
      <3> QED
        BY <2>5, <3>2, <3>3, <3>4
    <2>6. CASE InventorDropped
      <3>1. PICK i \in InventorIds :
               /\ inventor' = [inventor EXCEPT ![i] = Gone]
               /\ patent' = [q \in DOMAIN patent |-> WithoutInventor(patent[q], i)]
               /\ UNCHANGED <<category, written>>
        BY <2>6 DEF InventorDropped
      <3>2. /\ patent'[p].credits = {c \in patent[p].credits : c.inventor # i}
            /\ patent'[p].tags = patent[p].tags
        BY <3>1, <2>2 DEF WithoutInventor, Row
      <3>3. \A j \in InventorIds : inventor'[j] # Gone <=> j # i
        BY <3>1 DEF InventorIds
      <3> QED
        BY <2>2, <2>3, <3>1, <3>2, <3>3
    <2>7. CASE CategoryAdded \/ CategoryRenamed
      <3>1. CategoryIds \subseteq CategoryIds' /\ UNCHANGED <<inventor, patent>>
        BY <2>1, <2>7, AfterCategoryAdded, AfterCategoryRenamed DEF CategoryAdded, CategoryRenamed
      <3>2. \A t \in patent[p].tags : category'[t] # None
        BY <2>2, <3>1 DEF CategoryIds
      <3> QED
        BY <2>3, <3>1, <3>2
    <2>8. CASE CategoryDropped
      <3>1. PICK c \in CategoryIds :
               /\ category' = [category EXCEPT ![c] = None]
               /\ patent' = [q \in DOMAIN patent |-> [patent[q] EXCEPT !.tags = @ \ {c}]]
               /\ UNCHANGED <<inventor, written>>
        BY <2>8 DEF CategoryDropped
      <3>2. /\ patent'[p].credits = patent[p].credits
            /\ patent'[p].tags = patent[p].tags \ {c}
        BY <3>1, <2>2 DEF Row
      <3>3. \A t \in CategoryIds : category'[t] # None <=> t # c
        BY <3>1 DEF CategoryIds
      <3> QED
        BY <2>2, <2>3, <3>1, <3>2, <3>3
    <2>9. CASE PatentAdded
      <3>1. PICK row : patent' = Append(patent, row) /\ UNCHANGED <<inventor, category>>
        BY <2>9 DEF PatentAdded
      <3>2. patent'[p] = patent[p]
        BY <2>2, <3>1
      <3> QED
        BY <2>3, <3>1, <3>2
    <2>10. CASE PatentLinked
      <3>1. PICK r \in Request :
               /\ r.id \in 1..Len(patent) /\ Writable(r.id)
               /\ patent' = [patent EXCEPT ![r.id] = SetLinks(@, r)]
               /\ UNCHANGED <<inventor, category>>
        BY <2>10 DEF PatentLinked
      <3>2. r.id # p
        BY <3>1 DEF Writable, Editable
      <3>3. patent'[p] = patent[p]
        BY <2>2, <3>1, <3>2
      <3> QED
        BY <2>3, <3>1, <3>3
    <2>11. ASSUME NEW q \in DOMAIN patent, Review(q) \/ DeletePatent(q)
           PROVE  /\ patent'[p].credits =
                       {c \in patent[p].credits : inventor'[c.inventor] # Gone}
                  /\ patent'[p].tags = {t \in patent[p].tags : category'[t] # None}
      <3>1. UNCHANGED <<inventor, category>>
        BY <2>11 DEF Review, DeletePatent
      <3>2. CASE q # p
        <4>1. patent'[p] = patent[p]
          BY <2>2, <2>11, <3>2 DEF Review, DeletePatent
        <4> QED
          BY <2>3, <3>1, <4>1
      <3>3. CASE q = p
        <4>1. PICK st : patent' = [patent EXCEPT ![p].status = st]
          BY <2>11, <3>3 DEF Review, DeletePatent
        <4>2. patent'[p].credits = patent[p].credits /\ patent'[p].tags = patent[p].tags
          BY <2>2, <4>1 DEF Row
        <4> QED
          BY <2>3, <3>1, <4>2
      <3> QED
        BY <3>2, <3>3
    <2> QED
      BY <2>1, <2>5, <2>6, <2>7, <2>8, <2>9, <2>10, <2>11 DEF Effect
  <1> QED
    BY <1>1, Invariant, PTL DEF Spec, SubmittedLinksOnlyShrink

=============================================================================
