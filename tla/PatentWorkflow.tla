--------------------------- MODULE PatentWorkflow ---------------------------
(***************************************************************************)
(* The patent workflow of the API (services/patentService.js and the       *)
(* modules under services/patents/): drafting, editing, submission, review *)
(* and deletion of patents, the object store that holds their documents,   *)
(* and the outbox rows that announce corpus membership.                    *)
(*                                                                         *)
(* A handler is a sequence of steps separated by its awaits; any number of *)
(* handlers interleave between the steps.  PostgreSQL runs at READ         *)
(* COMMITTED: a plain read sees the rows committed at that moment, and a   *)
(* transaction that begins with a conditional UPDATE or DELETE of the      *)
(* patent row holds that row's lock until it commits, so everything from   *)
(* that statement to the commit is one step.  A read made inside a         *)
(* transaction BEFORE that statement takes no lock and is a step of its    *)
(* own.                                                                    *)
(***************************************************************************)
EXTENDS Naturals, Sequences

CONSTANTS
    Sessions,     \* clients of the API; each has at most one request in flight
    Users,        \* user accounts
    Admins,       \* the users whose role is admin
    UserOf,       \* the user each session is logged in as
    Does,         \* the operations each session uses in this instance
    Keys,         \* document keys issued by POST /patents/uploads
    KeyOwner,     \* the user each key was issued to
    Contents,     \* values of title, abstract and specification together
    None,         \* NULL in a column; a field that a request leaves out
    MaxPatents,   \* bound: ids ever given out
    MaxVersion,   \* bound: highest version of a patent
    MaxReviews    \* bound: review decisions ever recorded

Ops == {"create", "update", "submit", "approve", "decline", "delete"}

ASSUME ActorsAssumption ==
    /\ Admins \subseteq Users
    /\ UserOf \in [Sessions -> Users]
    /\ Does \in [Sessions -> SUBSET Ops]
    /\ KeyOwner \in [Keys -> Users]

ASSUME NoneAssumption == None \notin Users \cup Keys \cup Contents

ASSUME BoundsAssumption ==
    /\ MaxPatents \in Nat
    /\ MaxVersion \in Nat
    /\ MaxReviews \in Nat

VARIABLES
    patent,   \* the PATENT table
    nextId,   \* the id the next INSERT into it receives
    object,   \* the object stored under each key
    reviews,  \* the PATENT_REVIEW table, oldest row first
    outbox,   \* the OUTBOX_EVENT table, in id order
    req       \* what each session's request handler holds between two awaits

vars == <<patent, nextId, object, reviews, outbox, req>>

-----------------------------------------------------------------------------
(* Rows, events and requests *)

Ids == 1..MaxPatents

\* "absent" stands for there being no row; pending_ai is reached by nothing.
Statuses == {"draft", "pending_admin", "approved", "declined", "absent"}

Row == [status: Statuses, version: Nat, content: Contents \cup {None},
        documentKey: Keys \cup {None}, submittedBy: Users \cup {None}]

NoRow == [status |-> "absent", version |-> 0, content |-> None,
          documentKey |-> None, submittedBy |-> None]

Review == [patent: Ids, decision: {"pass", "fail"}]

Event == [type: {"Upserted", "Withdrawn"}, patent: Ids, version: Nat,
          content: Contents \cup {None}, documentKey: Keys \cup {None}]

\* pc names the await the handler is at; seen is the row it read first; before
\* is the status a review re-reads; content and key are the request's fields.
Request == [pc: {"idle", "attached", "head", "write", "before", "discard"},
            op: Ops \cup {"none"}, id: Ids \cup {0}, seen: Row, before: Statuses,
            content: Contents \cup {None}, key: Keys \cup {None}]

NoRequest == [pc |-> "idle", op |-> "none", id |-> 0, seen |-> NoRow,
              before |-> "absent", content |-> None, key |-> None]

\* Mutant: approved patents can be corrected in place.
EditableWhenApproved == {"draft", "declined", "approved"}

Editable == {"draft", "declined"}

\* Mutant: a declined patent can be approved without being submitted again.
FromLoose == [submit  |-> {"draft", "declined"},
              approve |-> {"pending_admin", "declined"},
              decline |-> {"pending_admin", "approved"}]

From == [submit  |-> {"draft", "declined"},
         approve |-> {"pending_admin"},
         decline |-> {"pending_admin", "approved"}]

To == [submit |-> "pending_admin", approve |-> "approved", decline |-> "declined"]

Exists(p) == patent[p].status # "absent"

\* Everything that a version counts.
TextOf(row) == [content |-> row.content, documentKey |-> row.documentKey]

\* findOwnedPatent: the submitter or any admin.
MayModify(s, p) ==
    Exists(p) /\ (patent[p].submittedBy = UserOf[s] \/ UserOf[s] \in Admins)

\* A row other than p's holds document key k.
KeyTaken(k, p) == \E q \in Ids \ {p} : Exists(q) /\ patent[q].documentKey = k

\* Mutant: document_key is not unique and the earlier read is all there is.
NoUniqueIndex(k, p) == FALSE

\* The unique index on document_key rejects the write.
UniqueViolation(k, p) == KeyTaken(k, p)

Goto(s, step) == req' = [req EXCEPT ![s].pc = step]

Finish(s) == req' = [req EXCEPT ![s] = NoRequest]

At(s, step, ops) == req[s].pc = step /\ req[s].op \in ops

Starts(s, op) == req[s].pc = "idle" /\ op \in Does[s]

Begin(s, r) == req' = [req EXCEPT ![s] = r]

-----------------------------------------------------------------------------
(* Uploads: until its presigned URL expires the client PUTs to it as often as it *)
(* likes, also to a key that is verified, attached or discarded by then.  The    *)
(* API sees none of it.                                                          *)

Upload(k) ==
    /\ \E size \in {"ok", "big"} : object' = [object EXCEPT ![k] = size]
    /\ UNCHANGED <<patent, nextId, reviews, outbox, req>>

(* verifyDocument, shared by create and update *)

\* The read of the row that holds the key.
VerifyAttached(s) ==
    /\ At(s, "attached", {"create", "update"})
    /\ IF KeyTaken(req[s].key, req[s].id) THEN Finish(s) ELSE Goto(s, "head")
    /\ UNCHANGED <<patent, nextId, object, reviews, outbox>>

\* HEAD on the object; one that is over the size limit is deleted.
VerifyHead(s) ==
    LET k == req[s].key IN
    /\ At(s, "head", {"create", "update"})
    /\ \/ object[k] = "ok" /\ Goto(s, "write") /\ UNCHANGED object
       \/ object[k] = "big" /\ Finish(s) /\ object' = [object EXCEPT ![k] = "gone"]
       \/ object[k] \in {"none", "gone"} /\ Finish(s) /\ UNCHANGED object
    /\ UNCHANGED <<patent, nextId, reviews, outbox>>

\* discardObject: the last step of an update that replaced the document and of
\* a delete.  When storage fails, the failure is logged and ignored: see Abort.
Discard(s) ==
    /\ At(s, "discard", {"update", "delete"})
    /\ object' = [object EXCEPT ![req[s].seen.documentKey] = "gone"]
    /\ Finish(s)
    /\ UNCHANGED <<patent, nextId, reviews, outbox>>

-----------------------------------------------------------------------------
(* createPatent *)

CreateStart(s, c, k) ==
    /\ Starts(s, "create")
    /\ KeyOwner[k] = UserOf[s]
    /\ Begin(s, [NoRequest EXCEPT !.pc = "attached", !.op = "create",
                                  !.content = c, !.key = k])
    /\ UNCHANGED <<patent, nextId, object, reviews, outbox>>

\* The INSERT.  It takes the next id of the sequence also when the unique index
\* on document_key rejects a key that another request attached since it was
\* verified.
CreateWrite(s) ==
    /\ At(s, "write", {"create"})
    /\ nextId \in Ids
    /\ \/ UniqueViolation(req[s].key, 0) /\ UNCHANGED patent
       \/ /\ ~UniqueViolation(req[s].key, 0)
          /\ patent' = [patent EXCEPT ![nextId] =
                 [status |-> "draft", version |-> 1, content |-> req[s].content,
                  documentKey |-> req[s].key, submittedBy |-> UserOf[s]]]
    /\ nextId' = nextId + 1
    /\ Finish(s)
    /\ UNCHANGED <<object, reviews, outbox>>

-----------------------------------------------------------------------------
(* updatePatent *)

\* Mutant: any key that is sent counts as a new document.
ReplacesWheneverSent(row, k) == k # None

\* k replaces the document of the row that was read.
Replaces(row, k) == k # None /\ k # row.documentKey

\* c and k are the fields of the PATCH.  A key equal to the one just read is
\* not a replacement and is not verified, but it is still written.
UpdateRead(s, p, c, k) ==
    LET replacing == Replaces(patent[p], k) IN
    /\ Starts(s, "update")
    /\ MayModify(s, p)
    /\ patent[p].status \in Editable
    /\ replacing => KeyOwner[k] = UserOf[s]
    /\ Begin(s, [NoRequest EXCEPT !.pc = IF replacing THEN "attached" ELSE "write",
                                  !.op = "update", !.id = p, !.seen = patent[p],
                                  !.content = c, !.key = k])
    /\ UNCHANGED <<patent, nextId, object, reviews, outbox>>

\* Mutant: a correction after a decline still counts as the version that was
\* declined.
OnlyDraftsChange(r) ==
    /\ r.seen.status = "draft"
    /\ \/ r.content # None /\ r.content # r.seen.content
       \/ r.key # None /\ r.key # r.seen.documentKey

\* The comparison is with the row read at the start, not with the row as it is.
ContentChanged(r) ==
    \/ r.content # None /\ r.content # r.seen.content
    \/ r.key # None /\ r.key # r.seen.documentKey

\* Mutant: a field that the PATCH leaves out is written as NULL.
EditedWithNulls(row, r) ==
    [row EXCEPT !.version = IF ContentChanged(r) THEN @ + 1 ELSE @,
                !.content = r.content, !.documentKey = r.key]

Edited(row, r) ==
    [status      |-> row.status,
     version     |-> IF ContentChanged(r) THEN row.version + 1 ELSE row.version,
     content     |-> IF r.content = None THEN row.content ELSE r.content,
     documentKey |-> IF r.key = None THEN row.documentKey ELSE r.key,
     submittedBy |-> row.submittedBy]

\* Mutant: the UPDATE names the id only.
UpdateUnconditional(p) == Exists(p)

\* The WHERE clause of the UPDATE.
UpdateWritable(p) == patent[p].status \in Editable

UpdateWrite(s) ==
    LET r == req[s] IN
    /\ At(s, "write", {"update"})
    /\ \/ /\ ~UpdateWritable(r.id) \/ (r.key # None /\ UniqueViolation(r.key, r.id))
          /\ UNCHANGED patent
          /\ Finish(s)
       \/ /\ UpdateWritable(r.id)
          /\ r.key # None => ~UniqueViolation(r.key, r.id)
          /\ ContentChanged(r) => patent[r.id].version < MaxVersion
          /\ patent' = [patent EXCEPT ![r.id] = Edited(patent[r.id], r)]
          /\ IF Replaces(r.seen, r.key) THEN Goto(s, "discard") ELSE Finish(s)
    /\ UNCHANGED <<nextId, object, reviews, outbox>>

-----------------------------------------------------------------------------
(* lifecycle.applyTransition: the UPDATE whose WHERE names the legal statuses *)

\* Mutant: the UPDATE names the id only.
AlwaysApplies(p, op) == Exists(p)

CanApply(p, op) == patent[p].status \in From[op]

Apply(p, op) == patent' = [patent EXCEPT ![p].status = To[op]]

(* submitForReview *)

SubmitRead(s, p) ==
    /\ Starts(s, "submit")
    /\ MayModify(s, p)
    /\ patent[p].status \in From["submit"]
    /\ patent[p].documentKey # None
    /\ Begin(s, [NoRequest EXCEPT !.pc = "write", !.op = "submit", !.id = p])
    /\ UNCHANGED <<patent, nextId, object, reviews, outbox>>

SubmitWrite(s) ==
    /\ At(s, "write", {"submit"})
    /\ IF CanApply(req[s].id, "submit")
          THEN Apply(req[s].id, "submit") ELSE UNCHANGED patent
    /\ Finish(s)
    /\ UNCHANGED <<nextId, object, reviews, outbox>>

-----------------------------------------------------------------------------
(* review: approvePatent and declinePatent, behind requireAdmin *)

ReviewRead(s, p, op) ==
    /\ Starts(s, op)
    /\ UserOf[s] \in Admins
    /\ patent[p].status \in From[op]
    /\ Begin(s, [NoRequest EXCEPT !.pc = "before", !.op = op, !.id = p])
    /\ UNCHANGED <<patent, nextId, object, reviews, outbox>>

\* The re-read inside the transaction, which locks nothing.
ReviewBefore(s) ==
    /\ At(s, "before", {"approve", "decline"})
    /\ req' = [req EXCEPT ![s].pc = "write", ![s].before = patent[req[s].id].status]
    /\ UNCHANGED <<patent, nextId, object, reviews, outbox>>

Upserted(p) ==
    [type |-> "Upserted", patent |-> p, version |-> patent[p].version,
     content |-> patent[p].content, documentKey |-> patent[p].documentKey]

Withdrawn(p) ==
    [type |-> "Withdrawn", patent |-> p, version |-> patent[p].version,
     content |-> None, documentKey |-> None]

\* Mutant: a decline is taken to concern only pending patents.
AnnounceApprovals(r) ==
    \/ r.op = "approve" /\ outbox' = Append(outbox, Upserted(r.id))
    \/ r.op = "decline" /\ UNCHANGED outbox

\* buildEvent and enqueue: an approval always announces the patent; a decline
\* withdraws it when the status re-read was approved.
Announce(r) ==
    \/ r.op = "approve" /\ outbox' = Append(outbox, Upserted(r.id))
    \/ r.op = "decline" /\ r.before = "approved" /\ outbox' = Append(outbox, Withdrawn(r.id))
    \/ r.op = "decline" /\ r.before # "approved" /\ UNCHANGED outbox

\* applyTransition, the review row, the outbox row and the commit.
ReviewWrite(s) ==
    LET r == req[s] IN
    /\ At(s, "write", {"approve", "decline"})
    /\ \/ /\ ~CanApply(r.id, r.op)
          /\ UNCHANGED <<patent, reviews, outbox>>
       \/ /\ CanApply(r.id, r.op)
          /\ Len(reviews) < MaxReviews
          /\ Apply(r.id, r.op)
          /\ reviews' = Append(reviews,
                [patent |-> r.id, decision |-> IF r.op = "approve" THEN "pass" ELSE "fail"])
          /\ Announce(r)
    /\ Finish(s)
    /\ UNCHANGED <<nextId, object>>

-----------------------------------------------------------------------------
(* deletePatent *)

DeleteRead(s, p) ==
    /\ Starts(s, "delete")
    /\ MayModify(s, p)
    /\ patent[p].status = "draft"
    /\ Begin(s, [NoRequest EXCEPT !.pc = "write", !.op = "delete", !.id = p,
                                  !.seen = patent[p]])
    /\ UNCHANGED <<patent, nextId, object, reviews, outbox>>

\* Mutant: the DELETE names the id only.
DeleteUnconditional(p) == Exists(p)

\* The WHERE clause of the DELETE.
Deletable(p) == patent[p].status = "draft"

DeleteWrite(s) ==
    /\ At(s, "write", {"delete"})
    /\ IF Deletable(req[s].id)
          THEN patent' = [patent EXCEPT ![req[s].id] = NoRow] /\ Goto(s, "discard")
          ELSE UNCHANGED patent /\ Finish(s)
    /\ UNCHANGED <<nextId, object, reviews, outbox>>

-----------------------------------------------------------------------------
(* The handler dies between two awaits (crash, lost connection, transaction  *)
(* timeout, storage failure): an open transaction rolls back, what was       *)
(* committed stays, and the remaining steps never run.                       *)

Abort(s) ==
    /\ req[s].pc # "idle"
    /\ Finish(s)
    /\ UNCHANGED <<patent, nextId, object, reviews, outbox>>

Init ==
    /\ patent = [p \in Ids |-> NoRow]
    /\ nextId = 1
    /\ object = [k \in Keys |-> "none"]
    /\ reviews = <<>>
    /\ outbox = <<>>
    /\ req = [s \in Sessions |-> NoRequest]

SessionStep(s) ==
    \/ \E c \in Contents, k \in Keys : CreateStart(s, c, k)
    \/ \E p \in Ids, c \in Contents \cup {None}, k \in Keys \cup {None} :
          UpdateRead(s, p, c, k)
    \/ \E p \in Ids : SubmitRead(s, p) \/ DeleteRead(s, p)
    \/ \E p \in Ids, op \in {"approve", "decline"} : ReviewRead(s, p, op)
    \/ VerifyAttached(s) \/ VerifyHead(s) \/ Discard(s)
    \/ CreateWrite(s) \/ UpdateWrite(s) \/ SubmitWrite(s)
    \/ ReviewBefore(s) \/ ReviewWrite(s) \/ DeleteWrite(s)
    \/ Abort(s)

Next ==
    \/ \E k \in Keys : Upload(k)
    \/ \E s \in Sessions : SessionStep(s)

Spec == Init /\ [][Next]_vars

-----------------------------------------------------------------------------
(* Properties *)

\* Every variable holds values of the columns and fields declared above, and a
\* patent has a text and a document from the moment it is created.
TypeOK ==
    /\ patent \in [Ids -> Row]
    /\ \A p \in Ids : Exists(p) =>
          patent[p].content \in Contents /\ patent[p].documentKey \in Keys
    /\ nextId \in 1..(MaxPatents + 1)
    /\ object \in [Keys -> {"none", "ok", "big", "gone"}]
    /\ reviews \in Seq(Review)
    /\ outbox \in Seq(Event)
    /\ req \in [Sessions -> Request]

\* Position i of q holds the last entry about patent p.
IsLast(q, i, p) ==
    /\ i \in 1..Len(q)
    /\ q[i].patent = p
    /\ \A j \in (i + 1)..Len(q) : q[j].patent # p

\* What consumers were last told of an approved patent is exactly the row as it
\* stands: approval announces the row that its UPDATE landed on, nothing edits
\* it afterwards, and no withdrawal slips in behind (patentService.review,
\* updatePatent's WHERE on status).
ApprovedIsAnnounced ==
    \A p \in Ids : patent[p].status = "approved" =>
        \E i \in 1..Len(outbox) : IsLast(outbox, i, p) /\ outbox[i] = Upserted(p)

\* The review trail explains the status: the last decision on an approved patent
\* is a pass and on a declined one a fail, and a patent that is a draft, was
\* deleted or does not exist has neither decisions nor events, so a delete can
\* never erase the subject of a review (deletePatent).
TrailExplainsStatus ==
    \A p \in Ids :
        /\ patent[p].status = "approved" =>
              \E i \in 1..Len(reviews) : IsLast(reviews, i, p) /\ reviews[i].decision = "pass"
        /\ patent[p].status = "declined" =>
              \E i \in 1..Len(reviews) : IsLast(reviews, i, p) /\ reviews[i].decision = "fail"
        /\ patent[p].status \in {"draft", "absent"} =>
              /\ \A i \in 1..Len(reviews) : reviews[i].patent # p
              /\ \A i \in 1..Len(outbox) : outbox[i].patent # p

\* Two admins never both approve one submission: between two approvals of a
\* patent there is a decline (the race lifecycle.applyTransition is written for).
ApprovalsAlternate ==
    \A i, j \in 1..Len(reviews) :
        /\ i < j
        /\ reviews[i].patent = reviews[j].patent
        /\ reviews[i].decision = "pass" /\ reviews[j].decision = "pass"
        => \E l \in (i + 1)..(j - 1) :
              reviews[l].patent = reviews[i].patent /\ reviews[l].decision = "fail"

\* One document, one patent: concurrent creates and edits that all verified the
\* same key never leave it attached to two rows (documents.verifyDocument).
OneDocumentOnePatent ==
    \A p, q \in Ids :
        p # q /\ Exists(p) /\ Exists(q) => patent[p].documentKey # patent[q].documentKey

\* Nothing edits or deletes a patent while it is under review or approved, even
\* when the edit or delete read it before it was submitted (the WHERE clauses
\* of updatePatent and deletePatent).
FrozenUnderReview ==
    [][\A p \in Ids : patent[p].status \in {"pending_admin", "approved"} =>
          /\ patent'[p].status # "absent"
          /\ patent'[p].content = patent[p].content
          /\ patent'[p].documentKey = patent[p].documentKey
          /\ patent'[p].version = patent[p].version]_vars

CorpusMatches(p) ==
    (\E i \in 1..Len(outbox) : IsLast(outbox, i, p) /\ outbox[i].type = "Upserted")
        <=> patent[p].status = "approved"

\* The outbox agrees with the status: what consumers were last told is that the
\* patent is in the corpus exactly when it is approved ("the event can never
\* diverge from the status that produced it").
CorpusMatchesStatus == \A p \in Ids : CorpusMatches(p)

\* A decline that re-read the patent while it was pending, and whose UPDATE finds it
\* approved by another admin since.
MissesApproval(s) ==
    /\ At(s, "write", {"decline"})
    /\ req[s].before # "approved"
    /\ patent[req[s].id].status = "approved"

\* However many admins decide at once, nothing but the commit of such a decline
\* parts the corpus from the status of a patent: every other step of every handler
\* that ends an approval withdraws the patent, and none withdraws or announces
\* another (patentService.review and the outbox row of its transaction).
CorpusFollowsStatus ==
    [][\A p \in Ids :
          CorpusMatches(p) =>
              \/ CorpusMatches(p)'
              \/ \E s \in Sessions : MissesApproval(s) /\ req[s].id = p /\ req'[s] # req[s]]_vars

\* What was announced of a patent is not newer than the patent, and says of its
\* present version what the row says.
Labelled(p) ==
    \A i \in 1..Len(outbox) :
        outbox[i].type = "Upserted" /\ outbox[i].patent = p =>
            /\ outbox[i].version <= patent[p].version
            /\ outbox[i].version = patent[p].version =>
                  TextOf(outbox[i]) = TextOf(patent[p])

\* An edit that read the patent before another edit changed it.
OverlapsEdit(s) ==
    At(s, "write", {"update"}) /\ TextOf(req[s].seen) # TextOf(patent[req[s].id])

\* (patent, version) identifies content downstream: however many requests edit,
\* submit, review and delete at once, an announced version comes to stand for
\* another text or document only when an edit that overlapped another edit of the
\* patent is written (updatePatent compares with the row it read at the start).
VersionsIdentifyText ==
    [][\A p \in Ids :
          Labelled(p) =>
              \/ Labelled(p)'
              \/ \E s \in Sessions : OverlapsEdit(s) /\ req[s].id = p /\ req'[s] # req[s]]_vars

\* Every patent's document is in storage: no create, replacement, rejected upload,
\* discard or deletion of one editing session, cut short anywhere, takes away the
\* object of a key that a row holds (documents.js, updatePatent, deletePatent).
NoDanglingDocument ==
    \A p \in Ids : Exists(p) => object[patent[p].documentKey] \in {"ok", "big"}

Referenced(k) == \E p \in Ids : Exists(p) /\ patent[p].documentKey = k

\* A document about to be discarded, because an update replaced it or its patent
\* was deleted, belongs to no patent ("nothing else points at this object").
DiscardedIsUnreferenced ==
    \A s \in Sessions :
        At(s, "discard", {"update", "delete"}) => ~Referenced(req[s].seen.documentKey)

(* The abstract specification this one implements: each handler, however its *)
(* steps interleave with the others', takes effect at its one write.         *)

AllTexts == [content : Contents \cup {None}, documentKey : Keys \cup {None}]

StatusOf == [p \in Ids |-> patent[p].status]
TextsOf == [p \in Ids |-> TextOf(patent[p])]
VersionOf == [p \in Ids |-> patent[p].version]
Retired == {p \in Ids : p < nextId /\ ~Exists(p)}

Promise == INSTANCE Lifecycle WITH
    Texts <- AllTexts,
    status <- StatusOf, text <- TextsOf, version <- VersionOf, retired <- Retired

\* Every interleaving of the handlers is a behaviour of the lifecycle: no status
\* changes but along its edges, nothing is edited outside draft and declined,
\* only drafts are deleted (lifecycle.applyTransition and every WHERE clause).
ImplementsLifecycle == Promise!Spec

=============================================================================
