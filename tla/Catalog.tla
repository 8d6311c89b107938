------------------------------- MODULE Catalog -------------------------------
(***************************************************************************)
(* Inventors, categories and the links that patents keep to both           *)
(* (services/inventorService.js, services/categoryService.js,              *)
(* services/patents/relations.js and the link-setting half of              *)
(* services/patentService.js).                                             *)
(*                                                                         *)
(* Every handler looks something up, awaits, and writes what the lookup    *)
(* allowed.  Handlers interleave at their awaits; one statement, or one    *)
(* transaction that starts by locking its patent, is one step.  What the   *)
(* lookups miss is left to the constraints of the tables: unique columns,  *)
(* foreign keys with ON DELETE CASCADE, the WHERE of an update.            *)
(***************************************************************************)
EXTENDS Naturals, Sequences, FiniteSets

CONSTANTS
    Sessions,       \* clients of the API; each has at most one request in flight
    Users,          \* user accounts
    Admins,         \* the users whose role is admin
    UserOf,         \* the user each session is logged in as
    Does,           \* the operations each session uses in this instance
    Emails,         \* addresses of inventors
    Names,          \* names of categories, as typed
    Folded,         \* what each name is when its case is ignored
    Lists,          \* the inventor lists that clients send
    None,           \* NULL in a column, a deleted name, a field that is left out
    MaxInventors,   \* bound: inventors ever created
    MaxCategories,  \* bound: categories ever created
    MaxPatents      \* bound: patents ever created

Ops == {"createInventor", "updateInventor", "deleteInventor", "createCategory",
        "updateCategory", "deleteCategory", "createPatent", "updatePatent"}

ASSUME CatalogAssumption ==
    /\ Admins \subseteq Users
    /\ UserOf \in [Sessions -> Users]
    /\ Does \in [Sessions -> SUBSET Ops]
    /\ None \notin Users \cup Emails \cup Names \cup Lists \cup Nat
    /\ Lists \subseteq Seq([inventor: Nat, order: Nat \cup {None}])
    /\ MaxInventors \in Nat /\ MaxCategories \in Nat /\ MaxPatents \in Nat

VARIABLES
    inventor,  \* INVENTOR: inventor[i] is the row with id i, or Gone
    category,  \* CATEGORY: category[c] is the name of the row with id c, or None
    patent,    \* PATENT with its PATENT_INVENTOR and PATENT_CATEGORY rows
    written,   \* history: the credits that the last request to set them gave
    req        \* what each session's handler holds between two awaits

vars == <<inventor, category, patent, written, req>>

-----------------------------------------------------------------------------
(* Rows and requests *)

Profile == [email: Emails, userId: Users \cup {None}]

Gone == [email |-> None, userId |-> None]

Credit == [inventor: Nat, order: Nat]

Statuses == {"draft", "pending_admin", "approved", "declined", "gone"}

Row == [status: Statuses, credits: SUBSET Credit, tags: SUBSET Nat]

\* pc is the await a handler is at, id the row it is about; the rest is what
\* the request carries.
Request == [pc: {"idle", "linked", "clash", "inventors", "categories", "write"},
            op: Ops \cup {"none"}, id: Nat, email: Emails \cup {None}, link: BOOLEAN,
            name: Names \cup {None}, list: Lists \cup {None},
            tags: (SUBSET Nat) \cup {None}]

NoRequest == [pc |-> "idle", op |-> "none", id |-> 0, email |-> None, link |-> FALSE,
              name |-> None, list |-> None, tags |-> None]

IsAdmin(s) == UserOf[s] \in Admins

InventorIds == {i \in DOMAIN inventor : inventor[i] # Gone}

CategoryIds == {c \in DOMAIN category : category[c] # None}

Starts(s, op) == req[s].pc = "idle" /\ op \in Does[s]

At(s, pc, op) == req[s].pc = pc /\ req[s].op = op

Begin(s, op, pc, r) == req' = [req EXCEPT ![s] = [r EXCEPT !.op = op, !.pc = pc]]

Goto(s, pc) == req' = [req EXCEPT ![s].pc = pc]

Finish(s) == req' = [req EXCEPT ![s] = NoRequest]

\* A read that finds nothing in the way goes on; otherwise the request is refused.
Unless(s, refused, pc) == IF refused THEN Finish(s) ELSE Goto(s, pc)

KeepTables == UNCHANGED <<inventor, category, patent, written>>

-----------------------------------------------------------------------------
(* createInventor *)

EmailTaken(e, i) == \E j \in InventorIds \ {i} : inventor[j].email = e

Linked(u) == \E j \in InventorIds : inventor[j].userId = u

\* Mutant: the unique indexes are missing and the earlier reads are all there is.
NoIndex(e, u, i) == FALSE

\* The unique indexes on email and user_id: P2002, answered as 409.
UniqueViolation(e, u, i) == EmailTaken(e, i) \/ (u # None /\ Linked(u))

CreateInventorRead(s, e, link) ==
    /\ Starts(s, "createInventor")
    /\ ~EmailTaken(e, 0)
    /\ Begin(s, "createInventor", IF link THEN "linked" ELSE "write",
             [NoRequest EXCEPT !.email = e, !.link = link])
    /\ KeepTables

\* linkToMe: the account may have a profile already.
CreateInventorLinked(s) ==
    /\ At(s, "linked", "createInventor")
    /\ Unless(s, Linked(UserOf[s]), "write")
    /\ KeepTables

CreateInventorWrite(s) ==
    LET r == req[s]
        u == IF r.link THEN UserOf[s] ELSE None
    IN
    /\ At(s, "write", "createInventor")
    /\ \/ UniqueViolation(r.email, u, 0) /\ UNCHANGED inventor
       \/ /\ ~UniqueViolation(r.email, u, 0)
          /\ Len(inventor) < MaxInventors
          /\ inventor' = Append(inventor, [email |-> r.email, userId |-> u])
    /\ Finish(s)
    /\ UNCHANGED <<category, patent, written>>

(* updateInventor *)

MayEdit(s, i) == IsAdmin(s) \/ inventor[i].userId = UserOf[s]

\* The row, the rights to it, and whether the address would change at all.
UpdateInventorRead(s, i, e) ==
    /\ Starts(s, "updateInventor")
    /\ i \in InventorIds
    /\ MayEdit(s, i)
    /\ Begin(s, "updateInventor", IF e = inventor[i].email THEN "write" ELSE "clash",
             [NoRequest EXCEPT !.id = i, !.email = e])
    /\ KeepTables

UpdateInventorClash(s) ==
    /\ At(s, "clash", "updateInventor")
    /\ Unless(s, EmailTaken(req[s].email, 0), "write")
    /\ KeepTables

\* A row deleted meanwhile is P2025, answered as 404.
UpdateInventorWrite(s) ==
    LET r == req[s] IN
    /\ At(s, "write", "updateInventor")
    /\ IF r.id \notin InventorIds \/ UniqueViolation(r.email, None, r.id)
          THEN UNCHANGED inventor
          ELSE inventor' = [inventor EXCEPT ![r.id].email = r.email]
    /\ Finish(s)
    /\ UNCHANGED <<category, patent, written>>

(* deleteInventor *)

Credited(i) == \E p \in DOMAIN patent : \E c \in patent[p].credits : c.inventor = i

\* requireAdmin, the row, and the count of its credits.
DeleteInventorRead(s, i) ==
    /\ Starts(s, "deleteInventor")
    /\ IsAdmin(s)
    /\ i \in InventorIds
    /\ Begin(s, "deleteInventor", "clash", [NoRequest EXCEPT !.id = i])
    /\ KeepTables

DeleteInventorCount(s) ==
    /\ At(s, "clash", "deleteInventor")
    /\ Unless(s, Credited(req[s].id), "write")
    /\ KeepTables

\* ON DELETE CASCADE of PATENT_INVENTOR.
WithoutInventor(row, i) ==
    [row EXCEPT !.credits = {c \in @ : c.inventor # i}]

DeleteInventorWrite(s) ==
    LET i == req[s].id IN
    /\ At(s, "write", "deleteInventor")
    /\ \/ i \notin InventorIds /\ UNCHANGED <<inventor, patent>>
       \/ /\ i \in InventorIds
          /\ inventor' = [inventor EXCEPT ![i] = Gone]
          /\ patent' = [p \in DOMAIN patent |-> WithoutInventor(patent[p], i)]
    /\ Finish(s)
    /\ UNCHANGED <<category, written>>

-----------------------------------------------------------------------------
(* Categories: all three handlers are behind requireAdmin *)

\* Mutant: the names are compared as typed, which is what the index does.
SameAsTyped(n, except) == \E c \in CategoryIds \ {except} : category[c] = n

\* findByName, which ignores case.
FindByName(n, except) ==
    \E c \in CategoryIds \ {except} : Folded[category[c]] = Folded[n]

\* The unique index on name, which does not: P2002.
NameViolation(n, c) == \E d \in CategoryIds \ {c} : category[d] = n

CreateCategoryRead(s, n) ==
    /\ Starts(s, "createCategory")
    /\ IsAdmin(s)
    /\ ~FindByName(n, 0)
    /\ Begin(s, "createCategory", "write", [NoRequest EXCEPT !.name = n])
    /\ KeepTables

CreateCategoryWrite(s) ==
    LET n == req[s].name IN
    /\ At(s, "write", "createCategory")
    /\ \/ NameViolation(n, 0) /\ UNCHANGED category
       \/ /\ ~NameViolation(n, 0)
          /\ Len(category) < MaxCategories
          /\ category' = Append(category, n)
    /\ Finish(s)
    /\ UNCHANGED <<inventor, patent, written>>

UpdateCategoryRead(s, c, n) ==
    /\ Starts(s, "updateCategory")
    /\ IsAdmin(s)
    /\ c \in CategoryIds
    /\ Begin(s, "updateCategory", "clash", [NoRequest EXCEPT !.id = c, !.name = n])
    /\ KeepTables

UpdateCategoryClash(s) ==
    /\ At(s, "clash", "updateCategory")
    /\ Unless(s, FindByName(req[s].name, req[s].id), "write")
    /\ KeepTables

UpdateCategoryWrite(s) ==
    LET r == req[s] IN
    /\ At(s, "write", "updateCategory")
    /\ IF r.id \notin CategoryIds \/ NameViolation(r.name, r.id)
          THEN UNCHANGED category
          ELSE category' = [category EXCEPT ![r.id] = r.name]
    /\ Finish(s)
    /\ UNCHANGED <<inventor, patent, written>>

DeleteCategoryRead(s, c) ==
    /\ Starts(s, "deleteCategory")
    /\ IsAdmin(s)
    /\ c \in CategoryIds
    /\ Begin(s, "deleteCategory", "write", [NoRequest EXCEPT !.id = c])
    /\ KeepTables

\* The name goes, and with it its tags on every patent.
DeleteCategoryWrite(s) ==
    LET c == req[s].id IN
    /\ At(s, "write", "deleteCategory")
    /\ \/ c \notin CategoryIds /\ UNCHANGED <<category, patent>>
       \/ /\ c \in CategoryIds
          /\ category' = [category EXCEPT ![c] = None]
          /\ patent' = [p \in DOMAIN patent |-> [patent[p] EXCEPT !.tags = @ \ {c}]]
    /\ Finish(s)
    /\ UNCHANGED <<inventor, written>>

-----------------------------------------------------------------------------
(* The links of a patent *)

\* An entry without an order is credited by its place in the list.
OrderAt(list, n) == IF list[n].order = None THEN n ELSE list[n].order

\* No inventor twice; every order explicit or none; the orders are 1..N.
WellFormed(list) ==
    /\ \A m, n \in DOMAIN list : m # n => list[m].inventor # list[n].inventor
    /\ \/ \A n \in DOMAIN list : list[n].order = None
       \/ \A n \in DOMAIN list : list[n].order # None
    /\ {OrderAt(list, n) : n \in DOMAIN list} = 1..Len(list)

\* Mutant: the order that was sent is stored, also when none was.
LinksAsSent(list) ==
    IF list = None THEN {}
    ELSE {[inventor |-> list[n].inventor, order |-> list[n].order] : n \in DOMAIN list}

\* What resolveInventorLinks returns; no list gives no links.
LinksOf(list) ==
    IF list = None THEN {}
    ELSE {[inventor |-> list[n].inventor, order |-> OrderAt(list, n)] : n \in DOMAIN list}

AllKnown(list) == \A c \in LinksOf(list) : c.inventor \in InventorIds

\* createPatent and updatePatent, past the checks of documents and rights that
\* PatentWorkflow models.  A repeated category id is refused before anything is
\* read, so the tags of a request are a set.
CreatePatentStart(s, list, tags) ==
    /\ Starts(s, "createPatent")
    /\ Begin(s, "createPatent", "inventors", [NoRequest EXCEPT !.list = list, !.tags = tags])
    /\ KeepTables

Editable == {"draft", "declined"}

UpdatePatentRead(s, p, list, tags) ==
    /\ Starts(s, "updatePatent")
    /\ patent[p].status \in Editable
    /\ Begin(s, "updatePatent", "inventors",
             [NoRequest EXCEPT !.id = p, !.list = list, !.tags = tags])
    /\ KeepTables

\* resolveInventorLinks reads which of the inventors exist.
ResolveInventors(s) ==
    LET list == req[s].list IN
    /\ req[s].pc = "inventors"
    /\ Unless(s, list # None /\ ~(WellFormed(list) /\ AllKnown(list)), "categories")
    /\ KeepTables

\* resolveCategoryIds does the same for the categories.
ResolveCategories(s) ==
    LET tags == req[s].tags IN
    /\ req[s].pc = "categories"
    /\ Unless(s, tags # None /\ ~(tags \subseteq CategoryIds), "write")
    /\ KeepTables

\* Mutant: the link tables have no foreign keys.
NoForeignKeys(r) == TRUE

\* The foreign keys of the link tables; P2003 is answered as 409 and rolls back.
KeysHold(r) == AllKnown(r.list) /\ (r.tags # None => r.tags \subseteq CategoryIds)

\* The row and its links are one nested INSERT.
CreatePatentWrite(s) ==
    LET r == req[s] IN
    /\ At(s, "write", "createPatent")
    /\ \/ ~KeysHold(r) /\ UNCHANGED <<patent, written>>
       \/ /\ KeysHold(r)
          /\ Len(patent) < MaxPatents
          /\ patent' = Append(patent, [status |-> "draft", credits |-> LinksOf(r.list),
                                       tags |-> IF r.tags = None THEN {} ELSE r.tags])
          /\ written' = Append(written, LinksOf(r.list))
    /\ Finish(s)
    /\ UNCHANGED <<inventor, category>>

\* Mutant: new links are added to the old ones.
AddLinks(row, r) ==
    [row EXCEPT !.credits = @ \cup LinksOf(r.list),
                !.tags = IF r.tags = None THEN @ ELSE @ \cup r.tags]

\* deleteMany and createMany of each list that the request has.
SetLinks(row, r) ==
    [row EXCEPT !.credits = IF r.list = None THEN @ ELSE LinksOf(r.list),
                !.tags = IF r.tags = None THEN @ ELSE r.tags]

\* Mutant: the UPDATE names the id only.
WritableWhenever(p) == patent[p].status # "gone"

\* The WHERE of the UPDATE that opens the transaction and locks the row.
Writable(p) == patent[p].status \in Editable

UpdatePatentWrite(s) ==
    LET r == req[s] IN
    /\ At(s, "write", "updatePatent")
    /\ \/ ~(Writable(r.id) /\ KeysHold(r)) /\ UNCHANGED <<patent, written>>
       \/ /\ Writable(r.id) /\ KeysHold(r)
          /\ patent' = [patent EXCEPT ![r.id] = SetLinks(@, r)]
          /\ written' = IF r.list = None THEN written
                        ELSE [written EXCEPT ![r.id] = LinksOf(r.list)]
    /\ Finish(s)
    /\ UNCHANGED <<inventor, category>>

-----------------------------------------------------------------------------
(* What the rest of the workflow does to the rows, one transition at a time *)

Transitions ==
    {<<"draft", "pending_admin">>, <<"declined", "pending_admin">>,
     <<"pending_admin", "approved">>, <<"pending_admin", "declined">>,
     <<"approved", "declined">>}

Review(p) ==
    /\ \E t \in Transitions :
          t[1] = patent[p].status /\ patent' = [patent EXCEPT ![p].status = t[2]]
    /\ UNCHANGED <<inventor, category, written, req>>

\* A draft is deleted, and its links with it.
DeletePatent(p) ==
    /\ patent[p].status = "draft"
    /\ patent' = [patent EXCEPT ![p] = [status |-> "gone", credits |-> {}, tags |-> {}]]
    /\ written' = [written EXCEPT ![p] = {}]
    /\ UNCHANGED <<inventor, category, req>>

\* The handler dies at any of its awaits.
Abort(s) ==
    /\ req[s].pc # "idle"
    /\ Finish(s)
    /\ KeepTables

-----------------------------------------------------------------------------

Init ==
    /\ inventor = <<>>
    /\ category = <<>>
    /\ patent = <<>>
    /\ written = <<>>
    /\ req = [s \in Sessions |-> NoRequest]

\* Tags name categories that exist, or the one whose id comes next.
TagSets == {None} \cup SUBSET (1..MaxCategories)

InventorStep(s) ==
    \/ \E e \in Emails, link \in BOOLEAN : CreateInventorRead(s, e, link)
    \/ \E i \in DOMAIN inventor, e \in Emails : UpdateInventorRead(s, i, e)
    \/ \E i \in DOMAIN inventor : DeleteInventorRead(s, i)
    \/ CreateInventorLinked(s) \/ CreateInventorWrite(s)
    \/ UpdateInventorClash(s) \/ UpdateInventorWrite(s)
    \/ DeleteInventorCount(s) \/ DeleteInventorWrite(s)

CategoryStep(s) ==
    \/ \E n \in Names : CreateCategoryRead(s, n)
    \/ \E c \in DOMAIN category, n \in Names : UpdateCategoryRead(s, c, n)
    \/ \E c \in DOMAIN category : DeleteCategoryRead(s, c)
    \/ CreateCategoryWrite(s)
    \/ UpdateCategoryClash(s) \/ UpdateCategoryWrite(s)
    \/ DeleteCategoryWrite(s)

LinkStep(s) ==
    \/ \E list \in Lists \cup {None}, tags \in TagSets : CreatePatentStart(s, list, tags)
    \/ \E p \in DOMAIN patent, list \in Lists \cup {None}, tags \in TagSets :
          UpdatePatentRead(s, p, list, tags)
    \/ ResolveInventors(s) \/ ResolveCategories(s)
    \/ CreatePatentWrite(s) \/ UpdatePatentWrite(s)

Next ==
    \/ \E s \in Sessions : InventorStep(s) \/ CategoryStep(s) \/ LinkStep(s) \/ Abort(s)
    \/ \E p \in DOMAIN patent : Review(p) \/ DeletePatent(p)

Spec == Init /\ [][Next]_vars

-----------------------------------------------------------------------------
(* Properties *)

\* Every table and every handler holds what it can hold.
TypeOK ==
    /\ inventor \in Seq(Profile \cup {Gone})
    /\ category \in Seq(Names \cup {None})
    /\ patent \in Seq(Row)
    /\ written \in Seq(SUBSET Credit) /\ DOMAIN written = DOMAIN patent
    /\ req \in [Sessions -> Request]

\* One address is one inventor, and one account at most one inventor, whatever
\* is created and edited at the same time ("one account maps to at most one
\* inventor identity"; createInventor and updateInventor look before they write).
OneProfilePerAccount ==
    \A i, j \in InventorIds : i # j =>
        /\ inventor[i].email # inventor[j].email
        /\ inventor[i].userId # None => inventor[i].userId # inventor[j].userId

\* The credits of a patent are those of one request: no inventor twice, in an
\* order from 1 to N, and never a mixture of two edits.  Only the deletion of an
\* inventor takes a credit out (resolveInventorLinks, updatePatent).
CreditsComeFromOneRequest ==
    \A p \in DOMAIN patent :
        /\ patent[p].credits = {c \in written[p] : c.inventor \in InventorIds}
        /\ {c.order : c \in written[p]} = 1..Cardinality(written[p])
        /\ \A c, d \in written[p] : c.inventor = d.inventor => c = d

\* Links lead somewhere: an inventor or a category deleted between the check of
\* the ids and the write is in no link table afterwards.
LinksReferToRows ==
    \A p \in DOMAIN patent :
        /\ \A c \in patent[p].credits : c.inventor \in InventorIds
        /\ patent[p].tags \subseteq CategoryIds

\* Once a patent is submitted no request sets its links: credits and tags only
\* disappear, with the inventor or the category they name (updatePatent
\* re-asserts editability in its transaction).
SubmittedLinksOnlyShrink ==
    [][\A p \in DOMAIN patent :
          patent[p].status \in {"pending_admin", "approved"} =>
              /\ patent'[p].credits = {c \in patent[p].credits : inventor'[c.inventor] # Gone}
              /\ patent'[p].tags = {t \in patent[p].tags : category'[t] # None}]_vars

\* With one session at work on the categories, no two names differ in their case
\* only (categoryService.js: "This check closes that gap").
NamesDifferIgnoringCase ==
    \A c, d \in CategoryIds : c # d => Folded[category[c]] # Folded[category[d]]

\* "Refused while the inventor is credited on any patent": the deletion of an
\* inventor never rewrites the authorship of a published patent.
NoCreditIsLost ==
    \A p \in DOMAIN patent :
        patent[p].status = "approved" => patent[p].credits = written[p]

=============================================================================
