----------------------------- MODULE Idempotency -----------------------------
(***************************************************************************)
(* POST /patents behind the Idempotency-Key middleware                     *)
(* (middlewares/idempotency.js): the key is reserved with one INSERT, the  *)
(* create handler of PatentWorkflow runs, and its outcome is settled on    *)
(* the key before the answer is sent.  A retry is a request of another     *)
(* session of the same user, concurrent with the first.                    *)
(***************************************************************************)
EXTENDS PatentWorkflow

CONSTANT
    Tags   \* values of the Idempotency-Key header

VARIABLES
    idem,      \* the IDEMPOTENCY_KEY table, by user and header
    call,      \* each session's POST /patents, between two awaits
    answered,  \* history: the 201 answers of requests that reserved their key
               \* or were replayed from it
    lost       \* history: keys whose reservation nobody was left to settle

idemVars == <<idem, call, answered, lost>>

AllIds == Users \X Tags

Body == [content: Contents, key: Keys]

NoBody == [content |-> None, key |-> None]

\* The hash of the body stands for the body; the stored response is the patent.
Record == [state: {"absent", "in flight", "done"}, body: Body \cup {NoBody},
           patent: Ids \cup {0}]

Absent == [state |-> "absent", body |-> NoBody, patent |-> 0]

NoCall == [pc |-> "idle", id |-> <<None, None>>, body |-> NoBody,
           reserved |-> FALSE, patent |-> 0]

Answer(s, p) ==
    answered' = answered \cup {[id |-> call[s].id, body |-> call[s].body, patent |-> p]}

Step(s, pc) == call' = [call EXCEPT ![s].pc = pc]

Hangup(s) == call' = [call EXCEPT ![s] = NoCall]

\* requireUser and the validation let the request through to idempotency().
Post(s, tag, c, k) ==
    /\ call[s].pc = "idle"
    /\ Starts(s, "create")
    /\ KeyOwner[k] = UserOf[s]
    /\ call' = [call EXCEPT ![s] = [NoCall EXCEPT
                  !.pc = "reserve", !.id = <<UserOf[s], tag>>,
                  !.body = [content |-> c, key |-> k]]]
    /\ UNCHANGED <<vars, idem, answered, lost>>

\* Mutant: look first and insert later, whatever has been inserted meanwhile.
NeverTaken(id) == TRUE

\* The primary key decides which of two concurrent INSERTs reserves the key.
Free(id) == idem[id].state = "absent"

Reserve(s) ==
    LET id == call[s].id IN
    /\ call[s].pc = "reserve"
    /\ \/ /\ Free(id)
          /\ idem' = [idem EXCEPT ![id] =
                [state |-> "in flight", body |-> call[s].body, patent |-> 0]]
          /\ call' = [call EXCEPT ![s].pc = "handler", ![s].reserved = TRUE]
       \/ ~Free(id) /\ Step(s, "lookup") /\ UNCHANGED idem
    /\ UNCHANGED <<vars, answered, lost>>

\* The read after a lost INSERT: run unreserved when the row is gone, refuse a
\* different body or one still in flight, replay the stored answer otherwise.
Lookup(s) ==
    LET stored == idem[call[s].id] IN
    /\ call[s].pc = "lookup"
    /\ \/ stored.state = "absent" /\ Step(s, "handler") /\ UNCHANGED answered
       \/ /\ stored.state # "absent"
          /\ stored.body # call[s].body \/ stored.state = "in flight"
          /\ Hangup(s)
          /\ UNCHANGED answered
       \/ /\ stored.state = "done"
          /\ stored.body = call[s].body
          /\ Answer(s, stored.patent)
          /\ Hangup(s)
    /\ UNCHANGED <<vars, idem, lost>>

\* One step of the create handler.  When it ends, a reserved request goes on to
\* settle its key with the outcome; an unreserved one has answered.
Handle(s) ==
    /\ call[s].pc = "handler"
    /\ \/ CreateStart(s, call[s].body.content, call[s].body.key)
       \/ VerifyAttached(s) \/ VerifyHead(s) \/ CreateWrite(s)
    /\ IF req'[s].pc # "idle"
          THEN UNCHANGED call
          ELSE call' = [call EXCEPT
                 ![s] = IF @.reserved
                           THEN [@ EXCEPT !.pc = "settle",
                                          !.patent = IF patent' # patent THEN nextId ELSE 0]
                           ELSE NoCall]
    /\ UNCHANGED <<idem, answered, lost>>

\* Mutant: a failed request keeps its key.
KeepsFailures(s) ==
    IF call[s].patent = 0 THEN idem[call[s].id]
    ELSE [idem[call[s].id] EXCEPT !.state = "done", !.patent = call[s].patent]

\* A 2xx is stored; anything else releases the key.
Settled(s) ==
    IF call[s].patent = 0 THEN Absent
    ELSE [idem[call[s].id] EXCEPT !.state = "done", !.patent = call[s].patent]

\* Mutant: the answer does not wait for the settlement.
SettleUnawaited(s) ==
    /\ call[s].pc = "settle"
    /\ \/ /\ idem' = [idem EXCEPT ![call[s].id] = Settled(s)]
          /\ call' = [call EXCEPT ![s].pc = "answer", ![s].reserved = FALSE]
          /\ UNCHANGED answered
       \/ /\ call[s].patent # 0
          /\ Answer(s, call[s].patent)
          /\ UNCHANGED <<call, idem>>
    /\ UNCHANGED <<vars, lost>>

\* res.json: one statement settles the key; when it fails, that is logged.
Settle(s) ==
    /\ call[s].pc = "settle"
    /\ \/ idem' = [idem EXCEPT ![call[s].id] = Settled(s)] /\ UNCHANGED lost
       \/ lost' = lost \cup {call[s].id} /\ UNCHANGED idem
    /\ call' = [call EXCEPT ![s].pc = "answer", ![s].reserved = FALSE]
    /\ UNCHANGED <<vars, answered>>

\* finally: the answer is sent when the settlement is over, whether or not it worked.
Respond(s) ==
    /\ call[s].pc = "answer"
    /\ IF call[s].patent # 0 THEN Answer(s, call[s].patent) ELSE UNCHANGED answered
    /\ Hangup(s)
    /\ UNCHANGED <<vars, idem, lost>>

\* The process dies: what it had reserved stays in flight, what it had settled stays
\* settled though nobody was told.
Die(s) ==
    /\ call[s].pc # "idle"
    /\ lost' = IF call[s].reserved THEN lost \cup {call[s].id} ELSE lost
    /\ Finish(s)
    /\ Hangup(s)
    /\ UNCHANGED <<patent, nextId, object, reviews, outbox, idem, answered>>

\* The session's other requests, a create without the header among them.
Other(s) ==
    /\ call[s].pc = "idle"
    /\ \/ \E c \in Contents, k \in Keys : CreateStart(s, c, k)
       \/ \E p \in Ids, c \in Contents \cup {None}, k \in Keys \cup {None} :
             UpdateRead(s, p, c, k)
       \/ \E p \in Ids : DeleteRead(s, p)
       \/ VerifyAttached(s) \/ VerifyHead(s) \/ Discard(s)
       \/ CreateWrite(s) \/ UpdateWrite(s) \/ DeleteWrite(s)
       \/ Abort(s)
    /\ UNCHANGED idemVars

IdemInit ==
    /\ Init
    /\ idem = [id \in AllIds |-> Absent]
    /\ call = [s \in Sessions |-> NoCall]
    /\ answered = {}
    /\ lost = {}

IdemNext ==
    \/ \E k \in Keys : Upload(k) /\ UNCHANGED idemVars
    \/ \E s \in Sessions :
          \/ \E tag \in Tags, c \in Contents, k \in Keys : Post(s, tag, c, k)
          \/ Reserve(s) \/ Lookup(s) \/ Handle(s) \/ Settle(s) \/ Respond(s) \/ Die(s)
          \/ Other(s)

IdemSpec == IdemInit /\ [][IdemNext]_<<vars, idemVars>>

-----------------------------------------------------------------------------
(* Properties *)

\* One key, one effect: every 201 given under a key while its record stands is
\* the answer on record, for the body on record, so a retry never learns of a
\* second patent, nor of the patent of another body (the reserving INSERT and
\* the checks of the replay).
OneAnswerPerKey ==
    \A a \in answered :
        idem[a.id].state = "done" => a.body = idem[a.id].body /\ a.patent = idem[a.id].patent

\* A key is in flight only while one request that reserved it is at work, unless
\* that request died or could not settle it: a failed request releases its key
\* and stays retryable ("caching a 500 would pin the caller to it forever").
InFlightIsOwned ==
    \A id \in AllIds :
        LET owners == {s \in Sessions : call[s].reserved /\ call[s].id = id} IN
        /\ \A s, t \in owners : s = t
        /\ idem[id].state = "in flight" <=> owners # {} \/ id \in lost

\* Who was told of a patent under a key finds the key taken when retrying, for good:
\* by the record of that answer, or in flight when the settlement failed, and never
\* free to create a second one ("a client that retries the instant it sees the
\* response always finds the record already written").
AnsweredIsRecorded ==
    \A a \in answered :
        \/ idem[a.id].state = "done" /\ idem[a.id].patent = a.patent
        \/ idem[a.id].state = "in flight" /\ a.id \in lost

=============================================================================
