# Formal verification of the smart patents storage system

TLA+ models of the patents API, its accounts and catalog, its outbox relay and the
consumers of its events, and the browser application on top of it; the TLC
instances that check them, and proofs about them that TLAPS checks. Every definition
is translated from the source; `PROJECT.json` lists, for each one, the lines it stands
for. Paths below are relative to the repository
root (`src/...` is the backend, `frontend/src/...` the browser application).

## 1. The system

| Part | State | Operations | Hard behaviour | What makes it correct |
|---|---|---|---|---|
| Patent workflow: `services/patentService.js`, `services/patents/{lifecycle,access,documents}.js`, `events/patentEvents.js` | tables PATENT, PATENT_REVIEW, OUTBOX_EVENT | create, update, submit, approve, decline, delete; get, list, document URL | every handler reads, awaits, and writes later; two admins, or an editor and an admin, work on one patent; a handler dies between its write and the removal of a document | the status moves along its edges only; nothing under review changes; the outbox says what the status says; `version` identifies content; no patent without its document; a listing shows exactly what can be opened |
| Object storage: `services/storageService.js` | objects by key | presign, head, delete | the client uploads without the API; deletes fail | a document belongs to one patent, a discarded one to none |
| Outbox: `services/outboxService.js` | OUTBOX_EVENT: published_at, claimed_at, attempts | enqueue, claimBatch, markPublished, markFailed | ids are drawn before commits; claims time out under a slow relay | rows become visible with their transaction; claims exclude each other |
| Relay: `workers/outboxRelay.js`, `relay.js` | the batch in hand | poll, publish, mark; stop | crash between send and mark, failures in the middle of a batch, two relays | at least once, in order per patent, nothing blocks the queue for ever |
| Search Service (external) | projection of the events | consume | duplicates, reordering, redelivery | it ends up agreeing with the last committed event |
| Accounts and sessions: `services/userService.js`, `middlewares/auth.js` | tables USER, REFRESH_TOKEN | sign-up, login, refresh, logout, change of password, admin creation | rotation racing logout, a change of password or another rotation | one login has one live token; ending a session ends it |
| Idempotency: `middlewares/idempotency.js` | table IDEMPOTENCY_KEY | reserve, settle, replay | a retry concurrent with the original, a crash before the settlement | one key, one effect; a failed request stays retryable |
| Inventors, categories, links: `services/inventorService.js`, `services/categoryService.js`, `services/patents/relations.js` | tables INVENTOR, CATEGORY and two link tables | create, update, delete; link | every operation looks something up and writes later; deletions cascade | one profile per account and address, names unique, credits of one request in a contiguous order, links that refer to rows, no credit lost |
| Browser session: `frontend/src/services/{apiClient,tokenStore,authService}.ts`, `frontend/src/context/AuthContext.tsx` | localStorage, one promise per tab, auth status | request with refresh and retry, login, logout, hydration | tabs share the tokens and not the promise; late answers | one refresh at a time, shared by all requests of the tab; nobody is shown as signed in without tokens |
| Pages: `frontend/src/{pages,routes,hooks}`, `frontend/src/context/AuthContext.tsx` | route, filters and page of the directory, what each hook shows, the form, the requests under way | navigate, filter, turn pages, open, retry, fill, submit, sign out | answers out of order, to a page that is gone, to another user; an account created while the list is read | what is shown answers what is asked; the page fits who is signed in; every spinner ends |
| HTTP shell, configuration, rate limits, Kafka Connect, deployment | none of consequence | | | not modelled (section 7) |

How they interact: the browser calls the API over HTTP and uploads documents
straight to object storage; the workflow writes outbox rows in its own
transactions; the relay polls the outbox table and sends to Kafka; the Search
Service reads the topic and never calls back. The handlers share state through
PostgreSQL and the bucket only.

## 2. Modules

| Module | What it is |
|---|---|
| `PatentWorkflow` | the handlers of the workflow, await by await, with the bucket and the outbox rows |
| `Listing` | extends `PatentWorkflow` with what its reads return: one patent, and a listing page by page |
| `Catalog` | inventors, categories and the links of patents to both |
| `Lifecycle` | what the workflow promises: one atomic operation at a time on each patent |
| `PatentWorkflow_proofs` | theorems about `PatentWorkflow`, including that it implements `Lifecycle` |
| `OutboxRelay` | outbox table, relays, topic, and their faults |
| `Idempotency` | extends `PatentWorkflow` with the Idempotency-Key middleware around the create handler |
| `Idempotency_proofs` | theorems about `Idempotency`, including that the middleware adds no behaviour to the handlers |
| `OutboxRelay_proofs` | theorems about `OutboxRelay` and `SearchIndex` |
| `Listing_proofs` | a theorem about the pages of a listing |
| `Catalog_proofs` | theorems about `Catalog` |
| `SearchIndex` | extends `OutboxRelay` with the consumer |
| `Accounts` | the handlers of accounts and refresh tokens, await by await |
| `Accounts_proofs` | theorems about `Accounts` |
| `BrowserSession` | extends `Accounts` with the browser: tabs, stored tokens, requests that refresh and retry |
| `BrowserSession_proofs` | theorems about `BrowserSession`, including that it adds no behaviour to `Accounts` |
| `Console` | the pages of one tab in front of the user endpoints |
| `Console_proofs` | theorems about `Console` |
| `MCPatentWorkflow`, `MCListing`, `MCIdempotency`, `MCSearchIndex`, `MCAccounts`, `MCCatalog`, `MCBrowserSession`, `MCConsole` | instances for TLC: the actors, who they are and what they do |

### PatentWorkflow

`patent`, `reviews` and `outbox` are the tables, `nextId` the sequence of PATENT,
`object` the bucket, and `req[s]` what the handler of session `s` holds between two
awaits: where it is (`pc`), the row it read (`seen`), the status `review()` re-read
(`before`) and the fields of the request. Each action is what a handler does
between two awaits:

| Handler | Actions, in order |
|---|---|
| `createPatent` | `CreateStart`, `VerifyAttached`, `VerifyHead`, `CreateWrite` |
| `updatePatent` | `UpdateRead`, (`VerifyAttached`, `VerifyHead`,) `UpdateWrite`, (`Discard`) |
| `submitForReview` | `SubmitRead`, `SubmitWrite` |
| `approvePatent`, `declinePatent` | `ReviewRead`, `ReviewBefore`, `ReviewWrite` |
| `deletePatent` | `DeleteRead`, `DeleteWrite`, `Discard` |
| any | `Abort`: the handler dies; an open transaction rolls back, the rest never runs |

*Transactions.* PostgreSQL runs them at READ COMMITTED, the default that nothing in
the code changes. A transaction that starts with a conditional UPDATE or DELETE of
the patent row holds the row's lock until it commits, so that statement and
everything up to the commit is one step: another writer of the row waits and then
re-evaluates its WHERE clause on the committed row, which is what the guard of the
later step does. The one read that `review()` makes before its UPDATE
(`patentService.js:215`) locks nothing, and is a step of its own. A Prisma
`updateMany` is taken to be one UPDATE.

*Data.* Title, abstract and specification are one value of `Contents`. An object is
missing, acceptable, over the size limit, or gone. A presigned URL can be used any number
of times until it expires (`storageService.js:91-95`), so `Upload` may put an object of
either size under any key at any time, also after the HEAD of `verifyDocument`, after
the key was attached, and after it was discarded. The content type is signed into the
URL; the API itself checks existence and size only. An INSERT takes an id from the
sequence also when the unique index rejects it. The links to categories and inventors
are in `Catalog`; `publicationNumber` is left out. `pending_ai` is in the schema and reached by no code.

### Lifecycle

Status, text, version and the set of retired ids, with one action per operation:
create, edit, submit, approve, decline, delete; `Skip` is an id that a rejected INSERT
used up. `PatentWorkflow` implements it under
a mapping that reads the columns and forgets the requests: each handler takes
effect at its one write, or not at all.

### Listing

The reads change nothing, so `Listing` adds operators and no variables: `Visible(u)` is
`visibilityWhere`, `Opens(u, p)` the check in front of one patent and of the URL of its
document, `ListFilter(u, f)` the AND of visibility and of every filter that was sent,
and `Page` the rows that `skip` and `take` leave in the order of `createdAt` and then
`id`. A text that is searched for stands for the fields that contain it. `time` ranges
over all assignments of `createdAt`, equal ones included, as nothing makes them differ.

### Catalog

`inventor` and `category` are the two tables, `patent` the rows with their two kinds of
links, and `req[s]` what a handler holds between two awaits. Each lookup and each write
is a step: `CreateInventorRead`, `CreateInventorLinked` (`linkToMe`), `CreateInventorWrite`;
`UpdateInventorRead`, `UpdateInventorClash`, `UpdateInventorWrite`; `DeleteInventorRead`,
`DeleteInventorCount`, `DeleteInventorWrite`; and the same for categories. A patent is
created by `CreatePatentStart`, `ResolveInventors`, `ResolveCategories`,
`CreatePatentWrite` and edited likewise, the document checks between them being
`PatentWorkflow`'s. What the lookups miss is left to the tables: unique indexes
(`UniqueViolation`, `NameViolation`, answered as 409), foreign keys (`KeysHold`, which
roll the transaction back) and the cascades of the deletions. A lock on the patent row
opens the edit's transaction, so it is one step. `Review` and `DeletePatent` are what the
rest of the workflow does to the rows meanwhile. `written` is a history variable: the
credits as the last request that set them gave them. A list is one a client may
send: in any order, with an inventor repeated, with a gap, or mixing explicit orders
and none; a well-formed one is `WellFormed`, and `LinksOf` what is stored of it.

### Idempotency

`idem` is the table IDEMPOTENCY_KEY by user and header (the endpoint of the key is
always POST /patents, the hash of the body is the body, the stored response is the
patent it names), `call[s]` the request of session `s` on its way through the
middleware. `Post` is the request reaching it, `Reserve` the INSERT that wins or
loses, `Lookup` the read after a lost one (run unreserved when the row is gone,
refuse another body or one in flight, replay), `Handle` one step of the create handler of
`PatentWorkflow`, `Settle` the statement of `res.json` that stores a 2xx or releases the
key, or fails, and `Respond` the answer that is sent when it is over, failed or not; the
process can die between the two. `Die` is the process dying; `Other` is
every request that does not carry the header. A retry is a request of another
session of the same user, at any moment of the first. `answered` and `lost` are
history variables: the 201s given by requests that owned their key or were
replayed from it, and the keys whose reservation nobody was left to settle. A
request that found the row gone and ran unreserved (`idempotency.js:61`) gives
an answer no key records, which is what the code means by "treat it as unreserved";
only `OneDocumentOnePatent` constrains it.

### OutboxRelay

`row[i]` is the outbox row with id `i`, drawn at the INSERT (`Insert`) and visible from
the COMMIT (`End`). Ids of one patent's events are drawn under the patent's row lock,
`applyTransition` being the first statement of the transaction, so at most one
transaction per patent is open. `claims` are the unexpired claims, oldest first: the
rows of one claim share a `claimed_at`. `relay[r]` is the step and the rest of the batch
of a relay, `log` the topic. `publishBatch` is `Claim`, then per event `Send` (or
`Oversized`) and `MarkPublished`, or the failure path `SendFails`/`MarkFails` and
`MarkFailed`, which ends the batch. The faults are a failed send (the broker may have
appended the record), a failed mark (the row may have been updated), a failed
`markFailed`, a crash or stop, and a relay slower than the claim timeout; `Faults` says
which ones an instance has and `MaxFaults` how many. `ReturnsInIdOrder` says whether
`UPDATE ... RETURNING` yields rows in id order, which PostgreSQL does not promise.

### SearchIndex

The consumer is not in this repository. It is modelled from the rules the
repository gives it ("Consuming these events" in the README): ignore an event whose
sequence is below the last one applied to that patent. Its projection is a function
of what it read, so it adds operators and no variables: `IndexAfter` folds the rule over
a reading of the topic, and `Readings` are all the ways to read it whole with one
restart from an older offset.

### Accounts

`user` and `token` are the tables USER and REFRESH_TOKEN, `req[r]` what the handler of
a request holds between its read and its write. Sign-up is `SignupRead`, `SignupWrite`,
`Issue`; login `LoginRead`, `Issue`; refresh `RefreshRead` and then `RevokeAll` (the token
was rotated before) or `Rotate`; a change of the profile, a change of password and the
creation of an admin are a read and a write each; logout is one statement. `Rotate`
is the whole transaction: its conditional UPDATE locks the token until the INSERT of
the successor commits. A revocation that runs at the same time either sees the token
before or waits for it and then finds it revoked, and never sees the successor, which
is the same as the revocation coming first, since the rotation tests `rotatedAt` only.
`Expire` is time passing for the access token and then for the refresh token. A token
is `over` when it is revoked or past its expiry (no handler treats the two differently),
and carries the `login` it descends from. `requireAuth` is `Authenticated`: the access
token is checked by its expiry and not against the table. Passwords are not modelled:
a wrong one ends the request.

### BrowserSession

`store` is what localStorage holds, shared by the tabs: the pair of tokens, always
set and removed together. `status` is the AuthContext of each tab, `refreshInFlight` its
promise, named by the call that runs it, and `call[c]` a `request()`: its headers and
body as they were built, where it is, and the answer. `Send` builds them; `Serve`,
`ServeForm`, `ServeRefresh` and `Work` are the handlers of `Accounts` at the other end;
`Receive` and `Lose` an answer and a broken connection; `Refresh` the 401 that runs a
refresh or joins the one in flight; `ReceiveRefresh` and `LoseRefresh` its end, which stores or
clears the tokens and lets every waiting call go on in the same tick. `Reload` forgets
the tab's calls, not what is stored, and not what the server is doing. `Ask` has the
guards of the routes: pages and logout for a signed-in tab, the forms for a guest.
`Elsewhere` is another device of the same users that logs out everywhere or changes
the password. `ReloadInterrupts` says whether a page is reloaded while it refreshes.

### Console

`users` are the accounts in the order of their `createdAt`; `owner` whose tokens are
stored; `status` and `me` the AuthContext; `route` the page and `view` its state; `shown`
the state of each `useAsync` of the page; `fetches` their requests, those they aborted
included; `form` and `posts` the page's form and the requests it sent. An event handler,
with what React does in response to it (effects, redirects, unmounting), is one step:
`GoTo`, `Type`, `Debounce`, `PickRole`, `ClearFilters`, `Turn`, `Retry`, `Fill`,
`OpenModal`, `CloseModal`, `SwitchTab`, `Submit`, `PressSignOut`. `GoTo` is every way to an
address: links, the sidebar, a row of the directory, the history. `Navigate` mounts the
page of the address afresh behind its guard (`Mount`, `Guarded`), which aborts the fetches
of the page before and forgets its form, whose answer still comes; or, when that
page is the one shown (`Stays`), keeps it and changes what its hook depends on (`Turned`:
from one user's page to another's). At the other end `Read` answers a fetch, `Serve` is a
handler that refuses or does its work, `Elsewhere` what others do and what lost requests
of this tab did all the same. `Receive`, `Fail` and `SessionEnds` are the answers to
fetches; `LoggedIn`, `SignedUp`, `ProfileSaved`, `PasswordSaved`, `SignedOut`,
`AdminCreated`, `Refused`, `Lose` and `Expelled` those to forms. Which tokens a request
carries, and its refresh, is `BrowserSession`'s; here a session is its account, and any
request of it, a page's (aborted or not) or a form's, can be answered with its end
(`SessionEnds`, `Expelled`: a 401 whose refresh fails clears the tokens, and `SessionOver`
is what the subscriber of `AuthContext` makes of that).

Names and addresses are not in the model, since their owners change them at any
time: how many accounts a text finds is chosen afresh whenever it is searched
(`Totals`), from none to all of the role. The rows of a list are left out, and so is the
gap between the two statements that read the count and the rows. A failed fetch keeps
the data it had (`Old`): the page of an account shows it below the error, the directory
and the dashboard do not show it, and forget it in the model. `LeftForms` are the
kinds of form that the user of an instance may leave before the answer.

## 3. What the runs show

Passing runs:

| Run | Instance | Shows |
|---|---|---|
| `one_each` | one author, one admin and a stranger who only reads, 2 patents, 2 documents, 2 versions, 2 reviews, pages of 1 row, 2 values of `createdAt` (242,970 states) | `NoDanglingDocument`: with one session that creates and edits, no patent loses its document, whatever dies at whatever await and whatever its URLs are used for again; `ListingIsExact` in every state, for each reader, filter and page |
| `review_board` | an author and two admins, one of whom edits and deletes too; 1 patent, 3 versions, 3 reviews (912,701 states) | `ApprovedIsAnnounced`, `TrailExplainsStatus`, `ApprovalsAlternate`, `FrozenUnderReview`, `ImplementsLifecycle`: what holds under any concurrency; `CorpusFollowsStatus`, `VersionsIdentifyText`: the corpus falls behind the status, and a version repeats for another text, by one race each and by nothing else |
| `retries` | two tabs of one author, 2 patents, 2 documents, one Idempotency-Key | `TypeOK`, `OneDocumentOnePatent`, `OneAnswerPerKey`, `InFlightIsOwned`, `AnsweredIsRecorded`: the index decides what the earlier check of a document cannot, a key has one answer whatever the retry overlaps with and whichever process dies, and it is settled before its client hears (920,182 states) |
| `two_relays` | two relays and a consumer, 2 patents, 3 events, 2 faults of any kind, 2 attempts | `OutboxIsTruthful`, `ClaimsAreExclusive`, `DuplicatesAreBounded`, `IndexAgrees` (and the relay's `TypeOK`) |
| `relay_drains` | one relay, 3 events of any size, 2 faults including crashes, 3 attempts | `EveryEventSettles` under fairness |
| `accounts` | two requests of any kind, 2 users, 2 addresses, 3 tokens | `EmailsAreUnique`, `OneLiveTokenPerLogin`, `OverStaysOver` (and `TypeOK`) |
| `one_tab` | one tab with two calls, another device, 2 users, 3 tokens, reloads except during a refresh (2,863,677 states) | `NeverReplays`, `RefreshesAreShared`, `SignedInHasTokens` (and `BrowserTypeOK`) |
| `catalog` | an author and an admin who also registers inventors, 2 inventors, 2 addresses, 2 categories whose names differ in case, 1 patent | `OneProfilePerAccount`, `CreditsComeFromOneRequest`, `LinksReferToRows`, `NamesDifferIgnoringCase`, `SubmittedLinksOnlyShrink` (and `TypeOK`) |
| `console` | one tab whose user leaves the dialog while it saves, 2 accounts, pages of 1 row, 2 fetches and 2 forms unanswered (237,328 states) | `ShownAnswersView`, `ListShowsCreated`, `PageFitsUser`, `OneSaveAtATime`, `PageSettles` under fairness (and `ConsoleTypeOK`) |

Runs that must find a counterexample, each a disagreement between the code and
what the repository says of it:

| Run | Property | What happens |
|---|---|---|
| `race_decline` | `CorpusMatchesStatus` | An approval commits between the re-read of a decline and its UPDATE. The decline lands on an approved patent, believes it was pending, and emits no withdrawal. |
| `race_discard` | `DiscardedIsUnreferenced` | A draft is deleted; before its document is discarded a create attaches the same key; the discard removes the document of a live patent. An edit that re-sends the old key while another replaces it meets the same fate at `patentService.js:180`. |
| `credit_lost` | `NoCreditIsLost` | A deletion counts no credits of an inventor; the author credits him on a patent, which is submitted and approved; the deletion then takes the credit of the published patent with it. |

`CorpusFollowsStatus` and `VersionsIdentifyText` are the exact form of two promises that
the code gives and does not quite keep. The corpus agrees with the status until
a decline is written over an approval that it did not see (`MissesApproval`, the step of
`race_decline`), and no other step of any handler parts them. The version identifies the
text of a patent until an edit is written over another edit that came after
its read (`OverlapsEdit`): `patentService.js:143` compares with the row that was read,
so the second edit changes the text under an unchanged version. Both hold for any
number of authors and admins and are theorems.

What fails outside the passing instances, by the same models with other constants or
another property:

* With two sessions of one author a document of a live patent can be removed in more
  ways than `race_discard`'s: both verify one key as unattached, one of them
  attaches it, its URL is used again for an object over the limit, and the other's
  HEAD deletes that object (`documents.js:54`). So `NoDanglingDocument` is checked with
  one session that creates and edits.
* With two sessions that create categories, both find a name free and insert it in
  different cases (`categoryService.js:26`): `NamesDifferIgnoringCase` fails.
* One relay whose send fails in the middle of a batch publishes newer rows of a patent
  before older ones: the rest of the batch stays claimed until the timeout.
* With `ReloadInterrupts = TRUE` a page reloaded during its refresh presents the token
  that the server has rotated (`NeverReplays`), and every session of the user is revoked.
* The directory can be on a page that its list does not have, where the pagination offers
  no way back: a page that is turned while the text is debounced stays when the text
  takes effect (`UsersPage.tsx:53` resets the page on the key stroke only), and
  whoever renames himself elsewhere can shrink a result under its last page. No property
  of the project says otherwise.
* That the tab shows the account whose tokens it has fails too: a profile saved after a
  logout and another login puts the earlier user into the context (`ProfilePage.tsx:50`),
  and a late refresh can store another session's tokens (below). `PageFitsUser` is
  what is left, and holds with every form left at any time: the page is one for
  the user that the context has.
* A dialog that was left announces its admin over whatever page is shown by then
  (`CreateAdminModal.tsx:57`), and a directory mounted before the answer is not read again:
  `onCreated` belongs to a page that is gone. `ListShowsCreated` is about the announcements
  of the page's own dialog and about those made before it was mounted.
* A user page reached from another one's address that fails to load shows the account
  before it below its error (`useAsync.ts:41`, `UserDetailPage.tsx:44` and `:65`), which is
  why `ShownAnswersView` speaks of what is shown without an error.

The order is kept by one relay that claims one row at a time and sees only failures
that `markFailed` records. Larger batches, a `RETURNING` clause in another order, a second
relay, a crash, or a failed `markFailed` all leave an earlier row claimed while later
ones go out. The consumer rule is what repairs this, and `two_relays` checks that it
does with all of these happening.

Three more things the relay's model makes visible without a run of their own: an
oversized payload is retried `OUTBOX_MAX_ATTEMPTS` times although `outboxRelay.js:25`
says it is dead-lettered at once; an event that was sent but could not be marked can be
dead-lettered, although `outboxService.js:100` takes dead-lettered events to be missing
downstream; and sequence numbers are not monotonic across the log, as
`outboxRelay.js:47` has it, since they are drawn before the commit.

The promises of the browser have the same shape: `one_tab` says when they hold, and
the model shows what breaks them; `RefreshesAreShared` alone holds for any tabs and reloads. Two tabs have one store and two promises, so the
second refresh presents the token that the first one rotated; and a tab hears of the
tokens being cleared only if it cleared them itself (`tokenStore.ts:35` and
`AuthContext.tsx:53` say "another tab"), so `SignedInHasTokens` fails with two tabs. A
logout whose own request needs a refresh still sends the token it read before
(`authService.ts:23`): the successor stays live, so that a property saying the login is
over after a logout would fail. A refresh that answers after a
logout and a login stores the tokens of the old session, or clears those of the new
one (`apiClient.ts:60-64`), so that one saying the stored tokens belong to whom the tab
shows would fail too. These two hazards are listed without a property for that reason.
A change of password during a login has none either: passwords are not in `Accounts`,
and a login that verified the old one while it was being replaced gets its session
after all others were revoked.

Smaller things met while reading the code for the models, none with a run of its own:
the lists of users and inventors lack the `id` tie-breaker that the list of patents
has, and every list takes its count and its rows from two statements; the dashboard
subtracts two totals read at different times; a password that was changed while the
logout that follows is lost is reported as not changed; the creation of an admin whose
answer is lost is answered with 409 when it is retried; the dialog's effect depends on
an `onClose` that each render creates anew; and the DTO of a patent carries the
addresses of its inventors, which the comment above `canSeeEmailOf` reserves to admins
and the person. Renaming or deleting a category or an inventor after an approval is
announced to no consumer.

**Bounds.** Two sessions are enough for every race between two handlers, which is what
the code's conditional writes are about; the third of `review_board` lets a race of two
admins meet an edit. Three reviews give approve, decline, approve again; three versions
an edit before and after; two patents the sharing of a document and the confusion of
ids. Three tokens are a login, its rotation and another of either; two calls are enough
for one to join the refresh of the other. Two faults are one failure and one during its
repair; attempts exceed faults where the property is about delivery, so only oversized
rows die. Two inventors, addresses and categories are one to clash with another; one
patent is enough for all that is said about links, each property being about one patent;
one session curates the categories. Pages of one row put every listing of two rows on
two pages, and equal values of `createdAt` are among those tried. In `console` two
accounts make the directory longer than a page, and two fetches and two forms are an
answer and the one it competes with; the dialog is the form that the user leaves, being
the one whose late answer the directory could miss, and the proofs have every form left. Every bound is a CONSTANT used in a guard. They
only stop the model from growing, so a state where nothing is enabled is one where a
bound is reached, and the configurations switch the deadlock check off.

**Symmetry.** Texts, addresses, names of categories, the two tabs of one author,
requests and the calls of a tab are interchangeable in the instances that use symmetry,
and so are patents and relays in `two_relays` (no definition compares them by name); the
run with a liveness property uses none.

**Fairness.** `PatentWorkflow` has none: its properties are about safety, and a client may
go away at any time. In `OutboxRelay`, a relay that can take a step eventually does
(`start` polls for ever, an error in a pass is caught and the loop goes on, and the
container restarts unless stopped), and a claim nobody works on expires, as time
passes. Faults have no fairness: they may happen, up to their bound. In `Console`
requests are answered or fail (`WF` of `Answers`: `fetch` settles one
way or the other), and nothing is assumed of the user, so `PageSettles` says that the
spinners end unless the user keeps acting.

## 4. What is proved

In `PatentWorkflow_proofs`, for any number of sessions, users, admins, keys and texts,
any assignment of operations to sessions and any bounds:

* `TypeCorrect`: `Spec => []TypeOK`.
* `ApprovedStaysAnnounced`: `Spec => []ApprovedIsAnnounced`. The last event about an
  approved patent announces exactly the row as it stands.
* `TrailAlwaysExplains`: `Spec => []TrailExplainsStatus`.
* `ReviewedIsFrozen`: `Spec => FrozenUnderReview`.
* `WorkflowImplementsLifecycle`: `Spec => ImplementsLifecycle`.
* `ApprovalsAlwaysAlternate`: `Spec => []ApprovalsAlternate`.
* `DocumentsAreNotShared`: `Spec => []OneDocumentOnePatent`.
* `CorpusFollowsReview`: `Spec => CorpusFollowsStatus`.
* `VersionsKeepTheirText`: `Spec => VersionsIdentifyText`.

The assumptions are those of the module (`ActorsAssumption`, `NoneAssumption`,
`BoundsAssumption`): well-typed constants and a NULL that is no user, key or text.

The argument: `StepHasEffect` shows that each of the handlers' steps leaves the tables
alone or has one of six effects (create, edit, submit, approve, decline, delete) on
one patent, each with the condition of its WHERE clause. Everything else is about
those six. `ApprovedIsAnnounced` is not inductive by itself: a new patent must not
inherit old events, so the invariant `TableInv` adds that ids not yet drawn are absent
(`FreshIsAbsent`) and that drafts and absent patents have neither reviews nor events
(part of `TrailExplainsStatus`). An approval appends exactly the row it leaves; an
edit, a submission or a delete cannot touch an approved row because of its WHERE
clause; a decline makes it no longer approved. The refinement needs no more than the
type invariant and the same six effects. `ApprovalsAlternate` needs that an
approval on record stands until a decline of the same patent is recorded
(`ApprovalsStand`), so that a new approval, which finds the patent not approved, comes
after one; `OneDocumentOnePatent` the condition of the unique index, which
the two effects that attach a document carry. `CorpusFollowsStatus` is about one step:
only a review's write changes whether a patent is approved (`ApprovedByReview`), and a
decline that finds it approved appends a withdrawal unless what it re-read was
something else (`WithdrawStep`). So is `VersionsIdentifyText`: the text of a row changes
by an UPDATE only (`TextByUpdate`), versions never go down (`VersionsOnlyGrow`), and an
UPDATE whose handler read the text that it finds either leaves it or counts one up.

In `Accounts_proofs`, for any number of requests, addresses, users and tokens, from
`AccountsAssumption` (the bounds are numbers, NULL is no address):

* `TypeCorrect`: `Spec => []TypeOK`.
* `AddressesAreUnique`: `Spec => []EmailsAreUnique`.
* `LoginsDoNotFork`: `Spec => []OneLiveTokenPerLogin`.
* `EndedLoginsStayOver`: `Spec => OverStaysOver`.

Here `StepHasEffect` reduces the steps to what they do to each table: tokens are marked,
minted for a new login, or one is rotated and its successor minted; a user is added
or changes address; one handler holds something else. `OneLiveTokenPerLogin` needs
`ChainsAreSound`: a login is named after its first token, a rotated token is over, and of
all tokens of a login one at most is not rotated. Rotation keeps that because its
condition is evaluated on the row it locks. `HeldIsSound` says that what a handler holds
between two awaits still refers to rows that exist, which is what types need.
`OverStaysOver` adds the last piece: only a refresh that saw its token live ever comes
to rotate it.

In `OutboxRelay_proofs`, for any number of relays, events, faults and attempts,
`OutboxNeverLies`: `Spec => []OutboxIsTruthful`. The invariant adds that what a relay has in
hand was visible when it was claimed, hence committed, and that a relay about to mark
a row has sent it (`HandsAreClean`); the rest is that rows once committed stay so and
that the topic only grows. Furthermore:

* `TypeCorrect`: `Spec => []TypeOK`, and `ClaimsStayExclusive`: `Spec => []ClaimsAreExclusive`.
  The two go together: a claim takes rows that no claim holds, and what
  releases one (`Unclaim`, `Without`) takes a row out of the claim that holds it, or the
  claim out of the list when nothing is left of it.
* `DuplicatesStayBounded`: `Spec => []DuplicatesAreBounded`. How long the topic is depends
  on what is still in hand, so `DebtInv` says more: a batch has distinct rows, a claim
  at most `BatchSize` of them, and what was sent, what the relays have yet to send
  and what is left to claim (`Loose`: unsettled rows that no relay works on under a
  claim) come together to no more than the rows in any of these plus a batch for
  each fault (`Paid`). A claim moves rows from there to a hand, a send from a hand to the
  topic, and only a fault lets a row be counted twice.
* `IndexCatchesUp`: `Spec => []IndexAgrees`, about the consumer of `SearchIndex`. After any
  messages the projection is at the highest of them about each patent (`IndexIsHighest`,
  `ApplyRaises`); a reading, restarted anywhere, holds what is in the topic and nothing
  else (`ReadingsAreWhole`); and `OutboxIsTruthful` says that nothing in the topic is
  above the last committed event. `IndexIsHighest` is an induction over the messages, made as
  a minimal counterexample (`Least`), since an induction principle that takes a predicate
  is one the provers cannot instantiate.

In `Listing_proofs`, for any page lengths, filters and values of `createdAt`,
`ListingsAreExact`: `Spec => []ListingIsExact`. The rank of a row, which is how many the
ORDER BY puts in front of it, is below the number of rows and differs from that of any
other (`RankBounded`, `RanksDiffer`; this is where the tie-breaker `id` is needed). A page
is a window of `limit` ranks (`PageByRank`, `PageIsShort`), two windows do not meet
(`WindowsApart`), and each rank is in one of the `TotalPages` windows (`RankHasPage`).

In `Idempotency_proofs`, for any sessions, users, headers, keys and texts:

* `MiddlewareAddsNothing`: `IdemSpec => Spec`. Every step of the middleware is a step of the
  handlers or changes none of their tables, so all that is proved of `PatentWorkflow`
  holds behind it.
* `KeysHaveOneAnswer`: `IdemSpec => []OneAnswerPerKey`.
* `KeysInFlightAreOwned`: `IdemSpec => []InFlightIsOwned`.
* `AnswersAreOnRecord`: `IdemSpec => []AnsweredIsRecorded`.

The invariant `KeyInv` says that a key has at most one owner, whose body is on its
record, that a key in flight has an owner or has lost it and a lost one never gets
another, and that whoever was answered was answered what is on record or under a
lost key.

In `Catalog_proofs`, for any sessions, users, addresses, names, lists and bounds, from
`CatalogAssumption`:

* `TypeCorrect`: `Spec => []TypeOK`.
* `ProfilesAreUnique`: `Spec => []OneProfilePerAccount`.
* `CreditsAreOfOneRequest`: `Spec => []CreditsComeFromOneRequest`.
* `LinksLeadSomewhere`: `Spec => []LinksReferToRows`.
* `SubmittedLinksShrink`: `Spec => SubmittedLinksOnlyShrink`.

`StepHasEffect` reduces the handlers' steps to ten effects on the tables, as above.
`Kept` is the invariant of one patent: its credits are those that were written, less
the ones whose inventor is gone, and what was written is numbered from 1 (which is
`LinksAreCredits`, about the resolver, and uses that a well-formed list is in
bijection with its credits) and names inventors that existed, so that a later
inventor never inherits a credit. `HeldIsSound` carries to the write that the list was
found well formed. What the resolvers saw of inventors and categories is not in the
invariant: it may be stale, and the foreign keys decide.

In `BrowserSession_proofs`, for any tabs, calls, users and tokens, from
`AccountsAssumption` and `BrowserAssumption`:

* `BrowserTypeCorrect`: `BrowserSpec => []BrowserTypeOK`.
* `AccountsBehindBrowser`: `BrowserSpec => Spec`. Every step of a tab or of an answer is a
  step of the handlers or none, so that what is proved of `Accounts` holds behind it.
* `RefreshesStayShared`: `BrowserSpec => []RefreshesAreShared`, with any number of tabs and with
  reloads during a refresh.

`BrowserInv` adds to `Accounts`' invariant that whatever token the store or a call names
was minted (`HoldsMinted`), which no later step undoes. `SharedInv` ties the promise of a
tab to its calls: it names the one call of the tab that refreshes, and there is none
waiting or refreshing when it names nobody.

In `Console_proofs`, for any page sizes, numbers of users, fetches and forms, from
`ConsoleAssumption` (`MaxUsers` is not 0: the seeded admin is there from the start):

* `ConsoleTypeCorrect`: `Spec => []ConsoleTypeOK`; the invariant, `TabInv`, adds that the tab
  and its forms name no account that does not exist.
* `PagesFitTheirUser`: `Spec => []PageFitsUser`, whatever forms are left and whenever they are
  answered. `PageInv` adds that the form, and every answer it still waits for, is the
  page's (`FormFits`), and that a fetch which can still be shown is one of the page's
  hooks. Every step that changes who is signed in goes through `Navigate` or `Mount`,
  or finds that the page stays as it is for the new user (`Stays`).
* `PagesAnswerTheirQuestion`: `Spec => []ShownAnswersView`, and `AnnouncedAdminsAreListed`:
  `Spec => []ListShowsCreated`. What is shown was an answer on its way, so `FetchInv` says
  of the fetches not aborted what the properties say of what is shown: they ask what
  their hook asks now (`FetchesAnswerView`), and those answered were read after
  the announcement (`ListsFollowNews`).
* `FormsSaveOnce`: `Spec => []OneSaveAtATime`, from `SavingInv`: a form that saves has one
  request still mounted, one that does not has none.

No theorem assumes who acts, how many there are or what the user does.

## 5. What is only model-checked

Liveness under fairness (`EveryEventSettles`, `PageSettles`) is beyond the prover. Four more
properties of passing runs hold in their instances and not of the code in general, so
that they are no theorems: `NoDanglingDocument` (one session that creates and edits),
`NamesDifferIgnoringCase` (one curator), `SignedInHasTokens` and `NeverReplays` (one tab,
and no reload during a refresh). Section 3 says what happens outside. Every other property
of a passing run is a theorem, for any constants. That the properties can fail is
TLC's part: for each of them a plausible mistake in one definition makes it fail.

## 6. Plan

1. Done: `PatentWorkflow`, `Lifecycle`, `Listing`, `Idempotency`, `OutboxRelay`, `SearchIndex`,
   `Accounts`, `Catalog`, `BrowserSession` and `Console` with their proofs.
2. Passwords in `Accounts`: a session that outlives the password it was opened with
   comes from a request that was under way.
3. Abstract specifications of the relay (each committed event on the topic at least once)
   and of the accounts (logins that begin and end), and proofs that the models
   implement them, as `PatentWorkflow` does `Lifecycle`.
4. Proofs of what one relay that claims one row at a time adds: the order of the topic.

## 7. What is not modelled, and why

The HTTP shell (Express wiring, routes, controllers, error mapping, API documentation)
wraps the handlers; who may call what is in their guards. Of request validation what
a request may carry is in the types of the models; lengths, formats and wording are
functions of one request, and DTOs of one row. Rate limits are per-process counters of
a library; configuration and deployment fix constants the models take as parameters;
the Kafka Connect script registers a connector that is not in the repository. In the
pages, the theme, the toasts and their timers, the focus of the dialog, the page that
shows the design system and rendering itself are left out. Kafka, PostgreSQL and the
object store are modelled as far as this code relies on them.
