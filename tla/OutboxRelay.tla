----------------------------- MODULE OutboxRelay -----------------------------
(***************************************************************************)
(* The transactional outbox and the relay that moves it to Kafka           *)
(* (services/outboxService.js, workers/outboxRelay.js, relay.js).          *)
(*                                                                         *)
(* Review transactions insert outbox rows; the id, which the relay         *)
(* publishes as `sequence`, is drawn at the INSERT and the row becomes     *)
(* visible at the COMMIT.  A relay claims a batch, sends its rows one by   *)
(* one, marks each published or failed, and stops the batch at the first   *)
(* failure.  Any step of a relay can fail or be its last before a restart. *)
(***************************************************************************)
EXTENDS Naturals, Sequences, FiniteSets

CONSTANTS
    Relays,            \* relay processes
    Patents,           \* aggregate ids: the keys of the Kafka messages
    Sizes,             \* subset of BOOLEAN: whether payloads over the limit occur
    BatchSize,         \* OUTBOX_BATCH_SIZE
    MaxAttempts,       \* OUTBOX_MAX_ATTEMPTS
    ReturnsInIdOrder,  \* whether UPDATE ... RETURNING yields rows by id
    Faults,            \* the kinds of fault that occur in this instance
    MaxFaults,         \* bound: faults that ever occur
    MaxRows            \* bound: events ever inserted

AllFaults == {"send", "mark", "fail", "crash", "slow"}

ASSUME RelayAssumption ==
    /\ BatchSize \in Nat \ {0}
    /\ MaxAttempts \in Nat \ {0}
    /\ ReturnsInIdOrder \in BOOLEAN
    /\ Sizes \subseteq BOOLEAN
    /\ Faults \subseteq AllFaults
    /\ MaxFaults \in Nat
    /\ MaxRows \in Nat

VARIABLES
    row,     \* OUTBOX_EVENT: row[i] is the row with id i
    claims,  \* unexpired claims, oldest first: the ids each claim still holds
    relay,   \* each relay's step and what is left of its batch
    log,     \* the topic: ids in the order the broker appended them
    faults   \* how many faults have occurred

vars == <<row, claims, relay, log, faults>>

Row == [patent: Patents, big: BOOLEAN,
        tx: {"open", "committed", "aborted"}, published: BOOLEAN, attempts: Nat]

Ids == 1..Len(row)

\* Mutant: enqueue is given the plain client instead of the transaction.
VisibleAtOnce(i) == row[i].tx # "aborted"

\* READ COMMITTED: a relay sees a row when the transaction that wrote it commits.
Visible(i) == row[i].tx = "committed"

Dead(i) == row[i].attempts >= MaxAttempts

Claimed(i) == \E j \in 1..Len(claims) : i \in claims[j]

InLog(i) == \E n \in 1..Len(log) : log[n] = i

-----------------------------------------------------------------------------
(* Review transactions.  The id is drawn while the transaction holds the     *)
(* patent's row lock (applyTransition comes first), so no two open           *)
(* transactions have events of one patent.                                   *)

Insert(p, big) ==
    /\ Len(row) < MaxRows
    /\ \A i \in Ids : row[i].tx = "open" => row[i].patent # p
    /\ row' = Append(row, [patent |-> p, big |-> big, tx |-> "open",
                           published |-> FALSE, attempts |-> 0])
    /\ UNCHANGED <<claims, relay, log, faults>>

End(i, outcome) ==
    /\ row[i].tx = "open"
    /\ row' = [row EXCEPT ![i].tx = outcome]
    /\ UNCHANGED <<claims, relay, log, faults>>

-----------------------------------------------------------------------------
(* claimBatch *)

\* Mutant: published rows are taken again.
EligibleWhenPublished == {i \in Ids : Visible(i) /\ ~Dead(i) /\ ~Claimed(i)}

\* A claim older than the timeout is as good as none.
Eligible == {i \in Ids : Visible(i) /\ ~row[i].published /\ ~Dead(i) /\ ~Claimed(i)}

\* Mutant: ORDER BY id DESC LIMIT n
LastIds(S, n) == {i \in S : Cardinality({j \in S : j > i}) < n}

\* ORDER BY id LIMIT n
First(S, n) == {i \in S : Cardinality({j \in S : j < i}) < n}

\* The orders in which the claimed rows can come back.
Returned(S) ==
    {b \in [1..Cardinality(S) -> S] :
        \A m, n \in DOMAIN b :
            m < n => b[m] # b[n] /\ (ReturnsInIdOrder => b[m] < b[n])}

Claim(r) ==
    LET batch == First(Eligible, BatchSize) IN
    /\ relay[r].pc = "idle"
    /\ batch # {}
    /\ claims' = Append(claims, batch)
    /\ \E b \in Returned(batch) : relay' = [relay EXCEPT ![r] = [pc |-> "send", batch |-> b]]
    /\ UNCHANGED <<row, log, faults>>

Without(q, j) == [n \in 1..(Len(q) - 1) |-> IF n < j THEN q[n] ELSE q[n + 1]]

\* claimed_at := NULL for one row: a claim that held no other row is gone.
Unclaim(i) ==
    LET rest == [j \in 1..Len(claims) |-> claims[j] \ {i}]
        emptied == {j \in 1..Len(claims) : rest[j] = {}}
    IN  \/ emptied = {} /\ claims' = rest
        \/ \E j \in emptied : claims' = Without(rest, j)

\* The rows of one claim share a claimed_at: the oldest claim times out first.
\* A relay that is still at work on it was slow.
Held(r) == relay[r].batch # <<>> /\ \E n \in 1..Len(relay[r].batch) : relay[r].batch[n] \in Head(claims)

Fault(kind) ==
    /\ kind \in Faults
    /\ faults < MaxFaults
    /\ faults' = faults + 1

Expire ==
    /\ claims # <<>>
    /\ ~\E r \in Relays : Held(r)
    /\ claims' = Tail(claims)
    /\ UNCHANGED <<row, relay, log, faults>>

ExpireEarly ==
    /\ claims # <<>>
    /\ \E r \in Relays : Held(r)
    /\ Fault("slow")
    /\ claims' = Tail(claims)
    /\ UNCHANGED <<row, relay, log>>

-----------------------------------------------------------------------------
(* publishBatch *)

At(r, pc) == relay[r].pc = pc

Event(r) == Head(relay[r].batch)

Goto(r, pc) == relay' = [relay EXCEPT ![r].pc = pc]

StopBatch(r) == relay' = [relay EXCEPT ![r] = [pc |-> "idle", batch |-> <<>>]]

\* Mutant: the batch is not over when its last event is done.
NextEventPastEnd(r) ==
    relay' = [relay EXCEPT ![r] = [pc |-> "send", batch |-> Tail(@.batch)]]

NextEvent(r) ==
    relay' = [relay EXCEPT ![r] =
        [pc |-> IF Len(@.batch) = 1 THEN "idle" ELSE "send", batch |-> Tail(@.batch)]]

\* A payload over MAX_PAYLOAD_BYTES throws before it is sent.
Oversized(r) ==
    /\ At(r, "send")
    /\ row[Event(r)].big
    /\ Goto(r, "fail")
    /\ UNCHANGED <<row, claims, log, faults>>

Send(r) ==
    /\ At(r, "send")
    /\ ~row[Event(r)].big
    /\ log' = Append(log, Event(r))
    /\ Goto(r, "mark")
    /\ UNCHANGED <<row, claims, faults>>

\* send rejects; the broker may have appended the record all the same.
SendFails(r) ==
    /\ At(r, "send")
    /\ ~row[Event(r)].big
    /\ Fault("send")
    /\ log' \in {log, Append(log, Event(r))}
    /\ Goto(r, "fail")
    /\ UNCHANGED <<row, claims>>

\* Mutant: claimed_at is left alone.
PublishKeepsClaim(i) == row' = [row EXCEPT ![i].published = TRUE] /\ UNCHANGED claims

\* UPDATE: published_at is set, the claim is cleared.
Publish(i) == row' = [row EXCEPT ![i].published = TRUE] /\ Unclaim(i)

MarkPublished(r) ==
    /\ At(r, "mark")
    /\ Publish(Event(r))
    /\ NextEvent(r)
    /\ UNCHANGED <<log, faults>>

\* The write, or only its reply, is lost: the row that was sent counts as failed.
MarkFails(r) ==
    /\ At(r, "mark")
    /\ Fault("mark")
    /\ Publish(Event(r)) \/ UNCHANGED <<row, claims>>
    /\ Goto(r, "fail")
    /\ UNCHANGED log

\* Mutant: the attempt is not counted.
MarkFailedUncounted(r) ==
    /\ At(r, "fail")
    /\ Unclaim(Event(r))
    /\ StopBatch(r)
    /\ UNCHANGED <<row, log, faults>>

MarkFailed(r) ==
    /\ At(r, "fail")
    /\ row' = [row EXCEPT ![Event(r)].attempts = @ + 1]
    /\ Unclaim(Event(r))
    /\ StopBatch(r)
    /\ UNCHANGED <<log, faults>>

\* markFailed throws out of publishBatch; the loop catches it and polls again.
MarkFailedFails(r) ==
    /\ At(r, "fail")
    /\ Fault("fail")
    /\ StopBatch(r)
    /\ UNCHANGED <<row, claims, log>>

\* The process dies or is told to stop in the middle of a batch, and restarts.
Crash(r) ==
    /\ relay[r].pc # "idle"
    /\ Fault("crash")
    /\ StopBatch(r)
    /\ UNCHANGED <<row, claims, log>>

RelayStep(r) == Claim(r) \/ Oversized(r) \/ Send(r) \/ MarkPublished(r) \/ MarkFailed(r)

Init ==
    /\ row = <<>>
    /\ claims = <<>>
    /\ relay = [r \in Relays |-> [pc |-> "idle", batch |-> <<>>]]
    /\ log = <<>>
    /\ faults = 0

Next ==
    \/ \E p \in Patents, big \in Sizes : Insert(p, big)
    \/ \E i \in Ids : End(i, "committed") \/ End(i, "aborted")
    \/ Expire \/ ExpireEarly
    \/ \E r \in Relays :
          \/ RelayStep(r)
          \/ SendFails(r) \/ MarkFails(r) \/ MarkFailedFails(r) \/ Crash(r)

\* The loop polls for ever and the container restarts unless stopped, so a relay
\* keeps taking steps; time passes, so a claim nobody works on runs out.
Fairness == WF_vars(Expire) /\ \A r \in Relays : WF_vars(RelayStep(r))

Spec == Init /\ [][Next]_vars /\ Fairness

-----------------------------------------------------------------------------
(* Properties *)

\* Every variable holds what the table, the topic and the relays can hold.
TypeOK ==
    /\ row \in Seq(Row)
    /\ claims \in Seq((SUBSET Ids) \ {{}})
    /\ relay \in [Relays -> [pc: {"idle", "send", "mark", "fail"}, batch: Seq(Ids)]]
    /\ \A r \in Relays : relay[r].pc = "idle" <=> relay[r].batch = <<>>
    /\ log \in Seq(Ids)
    /\ faults \in 0..MaxFaults

\* The outbox never lies: a row marked published is in the topic, and nothing in
\* the topic comes from a transaction that did not commit (publishBatch marks
\* after it sends; enqueue shares the review's transaction).
OutboxIsTruthful ==
    \A i \in Ids : (row[i].published => InLog(i)) /\ (InLog(i) => row[i].tx = "committed")

\* Two claims never hold one row, and a row that is settled holds no claim: no
\* claim outlives the work it was taken for (claimBatch, markPublished,
\* markFailed clear claimed_at).
ClaimsAreExclusive ==
    /\ \A m, n \in 1..Len(claims) : m # n => claims[m] \cap claims[n] = {}
    /\ \A i \in Ids : Claimed(i) => Visible(i) /\ ~Dead(i) /\ ~row[i].published

\* Duplicates are noise that faults pay for, never a loop: each fault re-sends
\* at most one batch (claimBatch's note on unbounded duplicates).
DuplicatesAreBounded ==
    Len(log) <= Cardinality({i \in Ids : InLog(i)}) + BatchSize * faults

\* Every committed event of sendable size is published in the end, whatever sits
\* in front of it, as long as there are fewer faults than attempts; and every
\* oversized one ends up dead-lettered, not retried for ever.
EveryEventSettles ==
    \A i \in 1..MaxRows :
        (i \in Ids /\ Visible(i))
            ~> (i \in Ids /\ IF row[i].big THEN Dead(i) ELSE row[i].published)

=============================================================================
