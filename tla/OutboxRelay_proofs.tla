------------------------- MODULE OutboxRelay_proofs -------------------------
(***************************************************************************)
(* Proofs about OutboxRelay, and about SearchIndex, which extends it, for  *)
(* any relays, patents, faults and bounds.                                 *)
(***************************************************************************)
EXTENDS SearchIndex, FiniteSetTheorems, SequenceTheorems, WellFoundedInduction, TLAPS

\* The part of TypeOK that the topic depends on: claims decide who sends, and
\* nothing below depends on that.
Typed ==
    /\ row \in Seq(Row)
    /\ relay \in [Relays -> [pc: {"idle", "send", "mark", "fail"}, batch: Seq(Ids)]]
    /\ \A r \in Relays : relay[r].pc # "idle" => relay[r].batch # <<>>
    /\ log \in Seq(Ids)

\* What a relay has in hand was committed, and what it is about to mark published
\* was sent.
HandsAreClean ==
    \A r \in Relays :
        /\ \A n \in 1..Len(relay[r].batch) : Visible(relay[r].batch[n])
        /\ relay[r].pc = "mark" => InLog(Event(r))

TruthInv == Typed /\ HandsAreClean /\ OutboxIsTruthful

-----------------------------------------------------------------------------
(* Batches *)

\* A batch that is claimed holds committed rows, some, and in a sequence.
LEMMA ClaimedBatch ==
  ASSUME Typed, First(Eligible, BatchSize) # {}, NEW b \in Returned(First(Eligible, BatchSize))
  PROVE  b \in Seq(Ids) /\ b # <<>> /\ \A n \in 1..Len(b) : Visible(b[n])
  <1> DEFINE S == First(Eligible, BatchSize)
  <1>1. S \subseteq Ids /\ \A i \in S : Visible(i)
    BY DEF First, Eligible
  <1>2. Len(row) \in Nat
    BY DEF Typed
  <1>3. IsFiniteSet(Ids)
    BY <1>2, FS_Interval DEF Ids
  <1>4. IsFiniteSet(S)
    BY <1>1, <1>3, FS_Subset
  <1>5. Cardinality(S) \in Nat /\ Cardinality(S) # 0
    BY <1>4, FS_CardinalityType, FS_EmptySet
  <1>6. b \in [1..Cardinality(S) -> S]
    BY DEF Returned
  <1> HIDE DEF S
  <1>7. b \in Seq(S) /\ Len(b) = Cardinality(S)
    BY <1>5, <1>6
  <1>8. b \in Seq(Ids)
    BY <1>1, <1>7
  <1> QED
    BY <1>1, <1>5, <1>6, <1>7, <1>8

LEMMA RestOfBatch ==
  ASSUME NEW S, NEW q \in Seq(S), q # <<>>
  PROVE  /\ Tail(q) \in Seq(S)
         /\ Len(q) # 1 => Tail(q) # <<>>
         /\ \A n \in 1..Len(Tail(q)) : n + 1 \in 1..Len(q) /\ Tail(q)[n] = q[n + 1]
  <1>1. Len(q) \in Nat \ {0}
    BY EmptySeq
  <1>2. /\ Tail(q) \in Seq(S)
        /\ Len(Tail(q)) = Len(q) - 1
        /\ \A n \in 1..Len(Tail(q)) : Tail(q)[n] = q[n + 1]
    BY HeadTailProperties
  <1>3. Len(q) # 1 => Tail(q) # <<>>
    BY <1>1, <1>2, EmptySeq
  <1> QED
    BY <1>1, <1>2, <1>3

\* The batch moves on in one of three ways.
LEMMA BatchStep ==
  ASSUME Typed, NEW r \in Relays
  PROVE  /\ \A pc \in {"mark", "fail"} : Goto(r, pc) /\ relay[r].pc # "idle" =>
               /\ relay' \in [Relays -> [pc: {"idle", "send", "mark", "fail"}, batch: Seq(Ids)]]
               /\ relay'[r].pc = pc /\ relay'[r].batch = relay[r].batch
               /\ \A q \in Relays \ {r} : relay'[q] = relay[q]
         /\ StopBatch(r) =>
               /\ relay' \in [Relays -> [pc: {"idle", "send", "mark", "fail"}, batch: Seq(Ids)]]
               /\ relay'[r].pc = "idle" /\ relay'[r].batch = <<>>
               /\ \A q \in Relays \ {r} : relay'[q] = relay[q]
         /\ NextEvent(r) /\ relay[r].pc # "idle" =>
               /\ relay' \in [Relays -> [pc: {"idle", "send", "mark", "fail"}, batch: Seq(Ids)]]
               /\ relay'[r].pc \in {"idle", "send"}
               /\ relay'[r].pc = "send" => relay'[r].batch # <<>>
               /\ relay'[r].batch = Tail(relay[r].batch)
               /\ \A q \in Relays \ {r} : relay'[q] = relay[q]
  <1> DEFINE B == [pc: {"idle", "send", "mark", "fail"}, batch: Seq(Ids)]
  <1>1. relay \in [Relays -> B] /\ relay[r] \in B
    BY DEF Typed
  <1>2. ASSUME NEW pc \in {"mark", "fail"}, Goto(r, pc)
        PROVE  /\ relay' \in [Relays -> B]
               /\ relay'[r].pc = pc /\ relay'[r].batch = relay[r].batch
               /\ \A q \in Relays \ {r} : relay'[q] = relay[q]
    BY <1>1, <1>2 DEF Goto
  <1>3. ASSUME StopBatch(r)
        PROVE  /\ relay' \in [Relays -> B]
               /\ relay'[r].pc = "idle" /\ relay'[r].batch = <<>>
               /\ \A q \in Relays \ {r} : relay'[q] = relay[q]
    BY <1>1, <1>3 DEF StopBatch
  <1>4. ASSUME NextEvent(r), relay[r].pc # "idle"
        PROVE  /\ relay' \in [Relays -> B]
               /\ relay'[r].pc \in {"idle", "send"}
               /\ relay'[r].pc = "send" => relay'[r].batch # <<>>
               /\ relay'[r].batch = Tail(relay[r].batch)
               /\ \A q \in Relays \ {r} : relay'[q] = relay[q]
    <2>1. relay[r].batch \in Seq(Ids) /\ relay[r].batch # <<>>
      BY <1>1, <1>4 DEF Typed
    <2>2. /\ Tail(relay[r].batch) \in Seq(Ids)
          /\ Len(relay[r].batch) # 1 => Tail(relay[r].batch) # <<>>
      BY <2>1, RestOfBatch
    <2> DEFINE next == [pc |-> IF Len(relay[r].batch) = 1 THEN "idle" ELSE "send",
                        batch |-> Tail(relay[r].batch)]
    <2>3. next \in B /\ next.pc \in {"idle", "send"} /\ next.batch = Tail(relay[r].batch)
          /\ (next.pc = "send" => next.batch # <<>>)
      BY <2>2
    <2>4. relay' = [relay EXCEPT ![r] = next]
      BY <1>4 DEF NextEvent
    <2> HIDE DEF next, B
    <2> QED
      BY <1>1, <2>3, <2>4
  <1> QED
    BY <1>2, <1>3, <1>4

-----------------------------------------------------------------------------
(* The steps *)

LEMMA MoreIds ==
  ASSUME NEW S, NEW T, S \subseteq T, NEW q \in Seq(S)
  PROVE  q \in Seq(T)
  OBVIOUS

\* A row is inserted, or its transaction ends: what is in hand or in the topic was
\* committed before.
LEMMA TableStep ==
  ASSUME TruthInv, UNCHANGED <<relay, log>>,
         row' \in Seq(Row), Len(row) <= Len(row'),
         \A i \in Ids : /\ row'[i].published = row[i].published
                        /\ row[i].tx = "committed" => row'[i].tx = "committed",
         \A i \in Ids' \ Ids : ~row'[i].published
  PROVE  TruthInv'
  <1>1. Len(row) \in Nat /\ Len(row') \in Nat
    BY DEF TruthInv, Typed
  <1>2. Ids \subseteq Ids'
    BY <1>1 DEF Ids
  <1>3. /\ log \in Seq(Ids) /\ log \in Seq(Ids')
        /\ \A r \in Relays : /\ relay[r].batch \in Seq(Ids) /\ relay[r].batch \in Seq(Ids')
                              /\ relay[r] \in [pc: {"idle", "send", "mark", "fail"}, batch: Seq(Ids)]
    BY <1>2, MoreIds DEF TruthInv, Typed
  <1>4. \A r \in Relays : relay[r] \in [pc: {"idle", "send", "mark", "fail"}, batch: Seq(Ids')]
    BY <1>3
  <1>5. Typed'
    BY <1>3, <1>4 DEF TruthInv, Typed
  <1>6. \A i \in Ids : /\ InLog(i)' <=> InLog(i)
                       /\ Visible(i) => Visible(i)'
    BY DEF InLog, Visible
  <1>7. HandsAreClean'
    <2> SUFFICES ASSUME NEW r \in Relays
                 PROVE  /\ \A n \in 1..Len(relay[r].batch) : Visible(relay[r].batch[n])'
                        /\ relay[r].pc = "mark" => InLog(Event(r))'
      BY DEF HandsAreClean
    <2>1. \A n \in 1..Len(relay[r].batch) : relay[r].batch[n] \in Ids /\ Visible(relay[r].batch[n])
      BY <1>3 DEF TruthInv, HandsAreClean
    <2> QED
      BY <1>6, <2>1 DEF TruthInv, HandsAreClean, InLog, Event, Visible
  <1>8. OutboxIsTruthful'
    <2> SUFFICES ASSUME NEW i \in Ids'
                 PROVE  (row'[i].published => InLog(i)') /\ (InLog(i)' => row'[i].tx = "committed")
      BY DEF OutboxIsTruthful
    <2>1. CASE i \in Ids
      BY <1>6, <2>1 DEF TruthInv, OutboxIsTruthful, InLog
    <2>2. CASE i \notin Ids
      <3>1. ~InLog(i)'
        BY <1>3, <2>2 DEF InLog
      <3> QED
        BY <2>2, <3>1
    <2> QED
      BY <2>1, <2>2
  <1> QED
    BY <1>5, <1>7, <1>8 DEF TruthInv

\* A relay moves: it may send the event it has in hand, mark it published once it
\* was sent, or count an attempt.
LEMMA HandStep ==
  ASSUME TruthInv, NEW r \in Relays,
         relay' \in [Relays -> [pc: {"idle", "send", "mark", "fail"}, batch: Seq(Ids)]],
         \A q \in Relays \ {r} : relay'[q] = relay[q],
         relay'[r].pc # "idle" => relay'[r].batch # <<>>,
         \A n \in 1..Len(relay'[r].batch) : Visible(relay'[r].batch[n]),
         relay'[r].pc = "mark" => \E n \in 1..Len(log') : log'[n] = Head(relay'[r].batch),
         log' = log \/ \E e \in Ids : Visible(e) /\ log' = Append(log, e),
         row' \in Seq(Row), Len(row') = Len(row),
         \A i \in Ids : /\ row'[i].tx = row[i].tx
                        /\ row'[i].published => row[i].published \/ InLog(i)
  PROVE  TruthInv'
  <1> DEFINE Sent(i) == \E n \in 1..Len(log') : log'[n] = i
  <1>1. Ids' = Ids
    BY DEF Ids
  <1>2. log \in Seq(Ids)
    BY DEF TruthInv, Typed
  <1>3. log' \in Seq(Ids) /\ \A i \in Ids : (InLog(i) => Sent(i)) /\ (Sent(i) => InLog(i) \/ Visible(i))
    <2>1. CASE log' = log
      BY <1>2, <2>1 DEF InLog
    <2>2. ASSUME NEW e \in Ids, Visible(e), log' = Append(log, e)
          PROVE  /\ log' \in Seq(Ids)
                 /\ \A i \in Ids : (InLog(i) => Sent(i)) /\ (Sent(i) => InLog(i) \/ Visible(i))
      <3>1. /\ log' \in Seq(Ids) /\ Len(log) \in Nat /\ Len(log') = Len(log) + 1
            /\ \A n \in 1..Len(log) : log'[n] = log[n]
            /\ log'[Len(log) + 1] = e
        BY <1>2, <2>2
      <3> QED
        BY <2>2, <3>1 DEF InLog
    <2> QED
      BY <2>1, <2>2
  <1>4. \A i \in Ids : (Visible(i)' <=> Visible(i)) /\ (InLog(i)' <=> Sent(i))
    BY DEF Visible, InLog
  <1> HIDE DEF Sent
  <1>5. Typed'
    BY <1>1, <1>3 DEF TruthInv, Typed
  <1>6. HandsAreClean'
    <2>1. ASSUME NEW q \in Relays
          PROVE  /\ \A n \in 1..Len(relay'[q].batch) : Visible(relay'[q].batch[n])
                 /\ relay'[q].pc = "mark" =>
                       Head(relay'[q].batch) \in Ids /\ Sent(Head(relay'[q].batch))
      <3>1. relay'[q].pc = "mark" => relay'[q].batch # <<>>
        BY DEF TruthInv, Typed
      <3>2. relay'[q].batch # <<>> => Head(relay'[q].batch) \in Ids
        <4>1. relay'[q].batch \in Seq(Ids)
          OBVIOUS
        <4> QED
          BY <4>1, HeadTailProperties
      <3>3. CASE q = r
        BY <3>1, <3>2, <3>3 DEF Sent
      <3>4. CASE q # r
        <4>1. relay'[q] = relay[q]
          BY <3>4
        <4>2. /\ \A n \in 1..Len(relay[q].batch) : Visible(relay[q].batch[n])
              /\ relay[q].pc = "mark" => InLog(Head(relay[q].batch))
          BY DEF TruthInv, HandsAreClean, Event
        <4> QED
          BY <1>3, <3>1, <3>2, <4>1, <4>2
      <3> QED
        BY <3>3, <3>4
    <2>2. ASSUME NEW q \in Relays PROVE \A n \in 1..Len(relay'[q].batch) : relay'[q].batch[n] \in Ids
      <3>1. relay'[q].batch \in Seq(Ids)
        OBVIOUS
      <3> QED
        BY <3>1
    <2>3. ASSUME NEW q \in Relays
          PROVE  \A n \in 1..Len(relay'[q].batch) : row'[relay'[q].batch[n]].tx = "committed"
      BY <1>4, <2>1, <2>2 DEF Visible
    <2>4. ASSUME NEW q \in Relays, relay'[q].pc = "mark" PROVE InLog(Event(q))'
      BY <2>1, <2>4 DEF Sent, InLog, Event
    <2> QED
      BY <2>3, <2>4 DEF HandsAreClean, Visible
  <1>7. OutboxIsTruthful'
    BY <1>1, <1>3, <1>4 DEF TruthInv, OutboxIsTruthful, Visible
  <1> QED
    BY <1>5, <1>6, <1>7 DEF TruthInv

LEMMA TruthInit == Init => TruthInv
  <1> SUFFICES ASSUME Init PROVE TruthInv
    OBVIOUS
  <1>1. /\ row = <<>> /\ log = <<>> /\ Ids = {}
        /\ \A r \in Relays : relay[r] = [pc |-> "idle", batch |-> <<>>]
        /\ relay \in [Relays -> [pc: {"idle", "send", "mark", "fail"}, batch: Seq(Ids)]]
    BY DEF Init, Ids
  <1> QED
    BY <1>1 DEF TruthInv, Typed, HandsAreClean, OutboxIsTruthful, Visible

LEMMA TruthStep == TruthInv /\ [Next]_vars => TruthInv'
  <1> SUFFICES ASSUME TruthInv, [Next]_vars PROVE TruthInv'
    OBVIOUS
  <1>t. /\ row \in Seq(Row) /\ Len(row) \in Nat
        /\ \A i \in Ids : row[i] \in Row
    BY DEF TruthInv, Typed, Ids
  <1>h. ASSUME NEW r \in Relays, relay[r].pc # "idle"
        PROVE  /\ Event(r) \in Ids /\ Visible(Event(r))
               /\ relay[r].batch \in Seq(Ids) /\ relay[r].batch # <<>>
               /\ \A n \in 1..Len(relay[r].batch) : Visible(relay[r].batch[n])
    <2>1. relay[r].batch \in Seq(Ids) /\ relay[r].batch # <<>>
      BY <1>h DEF TruthInv, Typed
    <2>2. \A n \in 1..Len(relay[r].batch) : Visible(relay[r].batch[n])
      BY DEF TruthInv, HandsAreClean
    <2>3. Event(r) \in Ids /\ Event(r) = relay[r].batch[1] /\ 1 \in 1..Len(relay[r].batch)
      BY <2>1, HeadTailProperties, EmptySeq DEF Event
    <2> QED
      BY <2>1, <2>2, <2>3
  <1>1. CASE UNCHANGED <<row, relay, log>>
    BY <1>1 DEF TruthInv, Typed, HandsAreClean, OutboxIsTruthful, Ids, Visible, InLog, Event
  <1>2. ASSUME NEW p \in Patents, NEW big \in Sizes, Insert(p, big) PROVE TruthInv'
    <2> DEFINE new == [patent |-> p, big |-> big, tx |-> "open", published |-> FALSE, attempts |-> 0]
    <2>1. new \in Row /\ ~new.published
      BY RelayAssumption DEF Row
    <2>2. row' = Append(row, new) /\ UNCHANGED <<relay, log>>
      BY <1>2 DEF Insert
    <2> HIDE DEF new
    <2>3. /\ row' \in Seq(Row) /\ Len(row') = Len(row) + 1
          /\ \A i \in Ids : row'[i] = row[i]
          /\ \A i \in Ids' \ Ids : row'[i] = new
      BY <1>t, <2>1, <2>2 DEF Ids
    <2>4. \A i \in Ids' \ Ids : ~row'[i].published
      BY <2>1, <2>3
    <2>5. \A i \in Ids : /\ row'[i].published = row[i].published
                         /\ row[i].tx = "committed" => row'[i].tx = "committed"
      BY <2>3
    <2>6. row' \in Seq(Row) /\ Len(row) <= Len(row')
      BY <1>t, <2>3
    <2> QED
      BY <2>2, <2>4, <2>5, <2>6, TableStep
  <1>3. ASSUME NEW i \in Ids, NEW outcome \in {"committed", "aborted"}, End(i, outcome)
        PROVE  TruthInv'
    <2>1. /\ row[i].tx = "open"
          /\ row' = [row EXCEPT ![i] = [row[i] EXCEPT !.tx = outcome]]
          /\ UNCHANGED <<relay, log>>
      BY <1>3 DEF End
    <2>2. [row[i] EXCEPT !.tx = outcome] \in Row
          /\ [row[i] EXCEPT !.tx = outcome].published = row[i].published
      BY <1>t DEF Row
    <2>3. /\ row' \in Seq(Row) /\ Len(row') = Len(row) /\ Ids' = Ids
          /\ \A j \in Ids : j # i => row'[j] = row[j]
          /\ row'[i].published = row[i].published
      BY <1>t, <2>1, <2>2 DEF Ids
    <2> QED
      BY <1>t, <2>1, <2>3, TableStep
  <1>4. ASSUME NEW r \in Relays,
               RelayStep(r) \/ SendFails(r) \/ MarkFails(r) \/ MarkFailedFails(r) \/ Crash(r)
        PROVE  TruthInv'
    <2> DEFINE B == [pc: {"idle", "send", "mark", "fail"}, batch: Seq(Ids)]
    <2>r. relay \in [Relays -> B]
      BY DEF TruthInv, Typed
    <2>u. UNCHANGED row => /\ row' \in Seq(Row) /\ Len(row') = Len(row)
                           /\ \A i \in Ids : /\ row'[i].tx = row[i].tx
                                             /\ row'[i].published => row[i].published
      BY <1>t
    <2>p. ASSUME Publish(Event(r)), At(r, "mark")
          PROVE  /\ row' \in Seq(Row) /\ Len(row') = Len(row)
                 /\ \A i \in Ids : /\ row'[i].tx = row[i].tx
                                   /\ row'[i].published => row[i].published \/ InLog(i)
      <3> DEFINE e == Event(r)
                 new == [row[e] EXCEPT !.published = TRUE]
      <3>1. e \in Ids /\ InLog(e) /\ row' = [row EXCEPT ![e] = new]
        BY <1>h, <2>p DEF At, Publish, TruthInv, HandsAreClean
      <3>2. new \in Row /\ new.tx = row[e].tx
        BY <1>t, <3>1 DEF Row
      <3> HIDE DEF e, new
      <3> QED
        BY <1>t, <3>1, <3>2 DEF Ids
    <2>1. CASE Claim(r)
      <3> DEFINE S == First(Eligible, BatchSize)
      <3>1. PICK b \in Returned(S) : relay' = [relay EXCEPT ![r] = [pc |-> "send", batch |-> b]]
        BY <2>1 DEF Claim
      <3>2. S # {} /\ UNCHANGED <<row, log>>
        BY <2>1 DEF Claim
      <3>3. b \in Seq(Ids) /\ b # <<>> /\ \A n \in 1..Len(b) : Visible(b[n])
        BY <3>1, <3>2, ClaimedBatch DEF TruthInv
      <3>4. /\ relay' \in [Relays -> B]
            /\ relay'[r].pc = "send" /\ relay'[r].batch = b
            /\ \A q \in Relays \ {r} : relay'[q] = relay[q]
        BY <2>r, <3>1, <3>3
      <3> HIDE DEF S
      <3> QED
        BY <2>u, <3>2, <3>3, <3>4, HandStep
    <2>2. CASE Oversized(r)
      <3>1. UNCHANGED <<row, log>> /\ Goto(r, "fail") /\ relay[r].pc = "send"
        BY <2>2 DEF Oversized, At
      <3> QED
        BY <1>h, <2>u, <3>1, BatchStep, HandStep DEF TruthInv
    <2>3. CASE Send(r)
      <3>1. /\ UNCHANGED row /\ log' = Append(log, Event(r))
            /\ Goto(r, "mark") /\ relay[r].pc = "send"
        BY <2>3 DEF Send, At
      <3>2. \E n \in 1..Len(log') : log'[n] = Event(r)
        <4>1. log \in Seq(Ids) /\ Event(r) \in Ids
          BY <1>h, <3>1 DEF TruthInv, Typed
        <4>2. Len(log) + 1 \in 1..Len(log') /\ log'[Len(log) + 1] = Event(r)
          BY <3>1, <4>1
        <4> QED
          BY <4>2
      <3>3. /\ relay'[r].pc = "mark" /\ relay'[r].batch = relay[r].batch
            /\ relay' \in [Relays -> B]
            /\ \A q \in Relays \ {r} : relay'[q] = relay[q]
        BY <3>1, BatchStep DEF TruthInv
      <3> QED
        BY <1>h, <2>u, <3>1, <3>2, <3>3, HandStep DEF Event
    <2>4. CASE SendFails(r)
      <3>1. /\ UNCHANGED row /\ log' \in {log, Append(log, Event(r))}
            /\ Goto(r, "fail") /\ relay[r].pc = "send"
        BY <2>4 DEF SendFails, At
      <3> QED
        BY <1>h, <2>u, <3>1, BatchStep, HandStep DEF TruthInv
    <2>5. CASE MarkPublished(r)
      <3>1. UNCHANGED log /\ Publish(Event(r)) /\ NextEvent(r) /\ At(r, "mark")
        BY <2>5 DEF MarkPublished
      <3>2. /\ relay' \in [Relays -> B]
            /\ relay'[r].pc \in {"idle", "send"}
            /\ relay'[r].pc = "send" => relay'[r].batch # <<>>
            /\ relay'[r].batch = Tail(relay[r].batch)
            /\ \A q \in Relays \ {r} : relay'[q] = relay[q]
        BY <3>1, BatchStep DEF TruthInv, At
      <3>3. \A n \in 1..Len(relay'[r].batch) : Visible(relay'[r].batch[n])
        <4>1. /\ relay[r].batch \in Seq(Ids) /\ relay[r].batch # <<>>
              /\ \A n \in 1..Len(relay[r].batch) : Visible(relay[r].batch[n])
          BY <1>h, <3>1 DEF At
        <4> QED
          BY <3>2, <4>1, RestOfBatch
      <3> QED
        BY <2>p, <3>1, <3>2, <3>3, HandStep
    <2>6. CASE MarkFails(r)
      <3>1. /\ UNCHANGED log /\ Goto(r, "fail") /\ relay[r].pc = "mark" /\ At(r, "mark")
            /\ Publish(Event(r)) \/ UNCHANGED row
        BY <2>6 DEF MarkFails, At
      <3>2. /\ relay'[r].pc = "fail" /\ relay'[r].batch = relay[r].batch
            /\ relay' \in [Relays -> B]
            /\ \A q \in Relays \ {r} : relay'[q] = relay[q]
        BY <3>1, BatchStep DEF TruthInv
      <3> QED
        BY <1>h, <2>u, <2>p, <3>1, <3>2, HandStep
    <2>7. ASSUME StopBatch(r), UNCHANGED log,
                 row' \in Seq(Row), Len(row') = Len(row),
                 \A i \in Ids : row'[i].tx = row[i].tx /\ (row'[i].published => row[i].published)
          PROVE  TruthInv'
      <3>1. /\ relay' \in [Relays -> B]
            /\ relay'[r].pc = "idle" /\ relay'[r].batch = <<>>
            /\ \A q \in Relays \ {r} : relay'[q] = relay[q]
        BY <2>7, BatchStep DEF TruthInv
      <3>2. \A n \in 1..Len(relay'[r].batch) : Visible(relay'[r].batch[n])
        BY <3>1
      <3> QED
        BY <2>7, <3>1, <3>2, HandStep
    <2>8. CASE MarkFailed(r)
      <3> DEFINE e == Event(r)
                 new == [row[e] EXCEPT !.attempts = @ + 1]
      <3>1. e \in Ids /\ row' = [row EXCEPT ![e] = new] /\ StopBatch(r) /\ UNCHANGED log
        BY <1>h, <2>8 DEF MarkFailed, At
      <3>2. new \in Row /\ new.tx = row[e].tx /\ new.published = row[e].published
        <4>1. row[e] \in Row
          BY <1>t, <3>1
        <4>2. row[e].attempts \in Nat
          BY <4>1 DEF Row
        <4> HIDE DEF e
        <4> QED
          BY <4>1, <4>2 DEF Row
      <3> HIDE DEF e, new
      <3>3. /\ row' \in Seq(Row) /\ Len(row') = Len(row)
            /\ \A i \in Ids : row'[i].tx = row[i].tx /\ (row'[i].published => row[i].published)
        BY <1>t, <3>1, <3>2 DEF Ids
      <3> QED
        BY <2>7, <3>1, <3>3
    <2>9. CASE MarkFailedFails(r) \/ Crash(r)
      <3>1. StopBatch(r) /\ UNCHANGED <<row, log>>
        BY <2>9 DEF MarkFailedFails, Crash
      <3> QED
        BY <2>u, <2>7, <3>1
    <2> QED
      BY <1>4, <2>1, <2>2, <2>3, <2>4, <2>5, <2>6, <2>8, <2>9 DEF RelayStep
  <1> QED
    BY <1>1, <1>2, <1>3, <1>4 DEF Next, Expire, ExpireEarly, vars

\* However relays fail, race and repeat themselves, what is marked published is in
\* the topic, and what is in the topic was committed.
THEOREM OutboxNeverLies == Spec => []OutboxIsTruthful
  <1>1. TruthInv => OutboxIsTruthful
    BY DEF TruthInv
  <1> QED
    BY <1>1, TruthInit, TruthStep, PTL DEF Spec

-----------------------------------------------------------------------------
(* Claims *)

Exclusive(q) == \A m, n \in 1..Len(q) : m # n => q[m] \cap q[n] = {}

\* What is claimed can be worked on, and is claimed once.
ClaimInv == TypeOK /\ ClaimsAreExclusive

\* A new claim takes rows that no claim holds.
LEMMA ClaimsGrow ==
  ASSUME NEW T, NEW q \in Seq((SUBSET T) \ {{}}), Exclusive(q),
         NEW c \in (SUBSET T) \ {{}}, \A j \in 1..Len(q) : q[j] \cap c = {}
  PROVE  Append(q, c) \in Seq((SUBSET T) \ {{}}) /\ Exclusive(Append(q, c))
  <1> DEFINE a == Append(q, c)
  <1>1. /\ a \in Seq((SUBSET T) \ {{}}) /\ Len(q) \in Nat /\ Len(a) = Len(q) + 1
        /\ \A n \in 1..Len(q) : a[n] = q[n]
        /\ a[Len(q) + 1] = c
    OBVIOUS
  <1> HIDE DEF a
  <1>2. \A n \in 1..Len(a) : (n \in 1..Len(q) /\ a[n] = q[n]) \/ (n = Len(q) + 1 /\ a[n] = c)
    BY <1>1
  <1>3. Exclusive(a)
    BY <1>1, <1>2 DEF Exclusive
  <1> QED
    BY <1>1, <1>2, <1>3 DEF a

\* When the oldest claim runs out, the others stay.
LEMMA ClaimsExpire ==
  ASSUME NEW T, NEW q \in Seq((SUBSET T) \ {{}}), Exclusive(q), q # <<>>
  PROVE  /\ Tail(q) \in Seq((SUBSET T) \ {{}})
         /\ Exclusive(Tail(q))
         /\ \A n \in 1..Len(Tail(q)) : \E m \in 1..Len(q) : Tail(q)[n] = q[m]
  <1>1. /\ Tail(q) \in Seq((SUBSET T) \ {{}})
        /\ \A n \in 1..Len(Tail(q)) : n + 1 \in 1..Len(q) /\ Tail(q)[n] = q[n + 1]
    BY RestOfBatch
  <1>2. Exclusive(Tail(q))
    <2> SUFFICES ASSUME NEW m \in 1..Len(Tail(q)), NEW n \in 1..Len(Tail(q)), m # n
                 PROVE  Tail(q)[m] \cap Tail(q)[n] = {}
      BY DEF Exclusive
    <2>1. m + 1 \in 1..Len(q) /\ n + 1 \in 1..Len(q) /\ m + 1 # n + 1
      BY <1>1
    <2> QED
      BY <1>1, <2>1 DEF Exclusive
  <1> QED
    BY <1>1, <1>2

\* When one row is unclaimed, at most one claim goes: the one that held only it.
LEMMA ClaimsShrink ==
  ASSUME NEW T, claims \in Seq((SUBSET T) \ {{}}), Exclusive(claims), NEW i, Unclaim(i)
  PROVE  /\ claims' \in Seq((SUBSET T) \ {{}})
         /\ Exclusive(claims')
         /\ \A n \in 1..Len(claims') :
               \E m \in 1..Len(claims) : claims'[n] = claims[m] \ {i}
  <1> DEFINE N == Len(claims)
             rest == [j \in 1..N |-> claims[j] \ {i}]
             emptied == {j \in 1..N : rest[j] = {}}
  <1>1. N \in Nat /\ \A j \in 1..N : claims[j] \in (SUBSET T) \ {{}}
    OBVIOUS
  <1>2. Len(rest) = N /\ rest \in Seq(SUBSET T) /\ \A j \in 1..N : rest[j] = claims[j] \ {i}
    BY <1>1
  <1>3. \A m, n \in 1..N : m # n => rest[m] \cap rest[n] = {}
    BY <1>2 DEF Exclusive
  <1>4. \/ emptied = {} /\ claims' = rest
        \/ \E j \in emptied : claims' = Without(rest, j)
    BY DEF Unclaim
  <1> HIDE DEF N, rest
  <1>5. CASE emptied = {} /\ claims' = rest
    <2>1. \A j \in 1..N : rest[j] # {} /\ rest[j] \in SUBSET T
      BY <1>2, <1>5
    <2>2. rest \in Seq((SUBSET T) \ {{}})
      BY <1>1, <1>2, <2>1
    <2> QED
      BY <1>2, <1>3, <1>5, <2>2 DEF Exclusive, N
  <1>6. ASSUME NEW j \in emptied, claims' = Without(rest, j)
        PROVE  /\ claims' \in Seq((SUBSET T) \ {{}})
               /\ Exclusive(claims')
               /\ \A n \in 1..Len(claims') :
                     \E m \in 1..Len(claims) : claims'[n] = claims[m] \ {i}
    <2>1. j \in 1..N /\ claims[j] = {i}
      BY <1>1, <1>2
    <2> DEFINE from(n) == IF n < j THEN n ELSE n + 1
    <2>2. /\ claims' = [n \in 1..(N - 1) |-> rest[from(n)]]
          /\ N - 1 \in Nat
      BY <1>1, <1>2, <1>6, <2>1 DEF Without
    <2>3. \A n \in 1..(N - 1) : from(n) \in 1..N /\ from(n) # j
      BY <1>1, <2>1
    <2>4. \A m, n \in 1..(N - 1) : m # n => from(m) # from(n)
      BY <1>1, <2>1
    <2> HIDE DEF from, emptied
    <2>5. \A n \in 1..(N - 1) : rest[from(n)] \in (SUBSET T) \ {{}}
      <3> SUFFICES ASSUME NEW n \in 1..(N - 1) PROVE rest[from(n)] \in (SUBSET T) \ {{}}
        OBVIOUS
      <3>1. i \notin claims[from(n)]
        BY <2>1, <2>3 DEF Exclusive, N
      <3> QED
        BY <1>1, <1>2, <2>3, <3>1
    <2>6. claims' \in Seq((SUBSET T) \ {{}}) /\ Len(claims') = N - 1
      BY <2>2, <2>5
    <2>7. Exclusive(claims')
      BY <1>3, <2>2, <2>3, <2>4, <2>6 DEF Exclusive
    <2> QED
      BY <1>2, <2>2, <2>3, <2>6, <2>7 DEF N
  <1> QED
    BY <1>4, <1>5, <1>6

\* TypeOK says more of the relays than Typed does.
LEMMA TypedClaims ==
  ASSUME ClaimInv
  PROVE  /\ Typed /\ Exclusive(claims) /\ Len(row) \in Nat /\ Ids = 1..Len(row)
         /\ claims \in Seq((SUBSET Ids) \ {{}})
         /\ \A i \in Ids : row[i] \in Row
         /\ \A r \in Relays : relay[r].pc # "idle" =>
               Event(r) \in Ids /\ relay[r].batch \in Seq(Ids) /\ relay[r].batch # <<>>
  <1>1. Typed /\ row \in Seq(Row) /\ claims \in Seq((SUBSET Ids) \ {{}})
    BY DEF ClaimInv, TypeOK, Typed
  <1>2. Exclusive(claims)
    BY DEF ClaimInv, ClaimsAreExclusive, Exclusive
  <1>3. ASSUME NEW r \in Relays, relay[r].pc # "idle"
        PROVE  Event(r) \in Ids /\ relay[r].batch \in Seq(Ids) /\ relay[r].batch # <<>>
    <2>1. relay[r].batch \in Seq(Ids) /\ relay[r].batch # <<>>
      BY <1>1, <1>3 DEF Typed
    <2> QED
      BY <2>1, HeadTailProperties DEF Event
  <1> QED
    BY <1>1, <1>2, <1>3 DEF Ids

\* Whatever a step does, ClaimInv holds after it if the claims stay exclusive, none
\* is new but of eligible rows, and rows that are claimed stay eligible.
LEMMA ClaimsStand ==
  ASSUME ClaimInv, row' \in Seq(Row), Len(row) <= Len(row'),
         claims' \in Seq((SUBSET Ids) \ {{}}), Exclusive(claims'),
         \A n \in 1..Len(claims') : \A i \in claims'[n] :
             /\ row'[i].tx = "committed" /\ row'[i].attempts < MaxAttempts
             /\ ~row'[i].published,
         relay' \in [Relays -> [pc: {"idle", "send", "mark", "fail"}, batch: Seq(Ids)]],
         \A r \in Relays : relay'[r].pc = "idle" <=> relay'[r].batch = <<>>,
         log' \in Seq(Ids), faults' \in 0..MaxFaults
  PROVE  ClaimInv'
  <1>1. Len(row) \in Nat /\ Len(row') \in Nat
    BY TypedClaims
  <1>2. Ids \subseteq Ids'
    BY <1>1 DEF Ids
  <1>3. log' \in Seq(Ids') /\ \A r \in Relays : relay'[r].batch \in Seq(Ids')
    BY <1>2, MoreIds
  <1>4. relay' \in [Relays -> [pc: {"idle", "send", "mark", "fail"}, batch: Seq(Ids')]]
    BY <1>3
  <1>5. claims' \in Seq((SUBSET Ids') \ {{}})
    <2>1. (SUBSET Ids) \ {{}} \subseteq (SUBSET Ids') \ {{}}
      BY <1>2
    <2> HIDE DEF Ids
    <2> QED
      BY <2>1, MoreIds
  <1>6. TypeOK'
    BY <1>3, <1>4, <1>5 DEF TypeOK
  <1>7. \A i \in Ids' : row'[i].attempts < MaxAttempts => ~(row'[i].attempts >= MaxAttempts)
    <2>1. \A i \in Ids' : row'[i] \in Row
      BY <1>1 DEF Ids
    <2>2. \A i \in Ids' : row'[i].attempts \in Nat
      BY <2>1 DEF Row
    <2> QED
      BY <2>2, RelayAssumption
  <1>8. ClaimsAreExclusive'
    BY <1>7 DEF ClaimsAreExclusive, Exclusive, Claimed, Visible, Dead
  <1> QED
    BY <1>6, <1>8 DEF ClaimInv

\* What is claimed is a row that can be worked on.
LEMMA ClaimedRows ==
  ASSUME ClaimInv
  PROVE  \A n \in 1..Len(claims) : \A i \in claims[n] :
            /\ i \in Ids /\ row[i].tx = "committed" /\ row[i].attempts < MaxAttempts
            /\ ~row[i].published
  <1> SUFFICES ASSUME NEW n \in 1..Len(claims), NEW i \in claims[n]
               PROVE  /\ i \in Ids /\ row[i].tx = "committed"
                      /\ row[i].attempts < MaxAttempts /\ ~row[i].published
    OBVIOUS
  <1>1. claims[n] \in (SUBSET Ids) \ {{}}
    BY TypedClaims
  <1>2. i \in Ids /\ Claimed(i)
    BY <1>1 DEF Claimed
  <1>3. row[i].attempts \in Nat
    BY <1>2, TypedClaims DEF Row
  <1> QED
    BY <1>2, <1>3, RelayAssumption DEF ClaimInv, ClaimsAreExclusive, Visible, Dead

\* A batch is claimed: its rows are eligible, and nobody holds them.
LEMMA ClaimTakes ==
  ASSUME ClaimInv, NEW r \in Relays, Claim(r)
  PROVE  ClaimInv'
  <1> DEFINE S == First(Eligible, BatchSize)
  <1>1. /\ relay[r].pc = "idle" /\ S # {} /\ claims' = Append(claims, S)
        /\ UNCHANGED <<row, log, faults>>
    BY DEF Claim
  <1>2. PICK b \in Returned(S) : relay' = [relay EXCEPT ![r] = [pc |-> "send", batch |-> b]]
    BY DEF Claim
  <1>3. /\ S \subseteq Ids
        /\ \A i \in S : Visible(i) /\ ~row[i].published /\ ~Dead(i) /\ ~Claimed(i)
    BY DEF First, Eligible
  <1>4. b \in Seq(Ids) /\ b # <<>>
    BY <1>1, <1>2, TypedClaims, ClaimedBatch
  <1> HIDE DEF S
  <1>5. \A j \in 1..Len(claims) : claims[j] \cap S = {}
    BY <1>3 DEF Claimed
  <1>6. S \in (SUBSET Ids) \ {{}}
    BY <1>1, <1>3
  <1>7. /\ claims' \in Seq((SUBSET Ids) \ {{}}) /\ Exclusive(claims')
        /\ \A n \in 1..Len(claims') :
              claims'[n] = S \/ \E m \in 1..Len(claims) : claims'[n] = claims[m]
    <2>1. claims \in Seq((SUBSET Ids) \ {{}}) /\ Exclusive(claims)
      BY TypedClaims
    <2>2. /\ Append(claims, S) \in Seq((SUBSET Ids) \ {{}})
          /\ Exclusive(Append(claims, S))
          /\ \A n \in 1..Len(Append(claims, S)) :
                Append(claims, S)[n] = S \/ \E m \in 1..Len(claims) : Append(claims, S)[n] = claims[m]
      <3>1. Append(claims, S) \in Seq((SUBSET Ids) \ {{}}) /\ Exclusive(Append(claims, S))
        BY <1>5, <1>6, <2>1, ClaimsGrow, Zenon
      <3>2. \A n \in 1..Len(Append(claims, S)) :
               Append(claims, S)[n] = S \/ \E m \in 1..Len(claims) : Append(claims, S)[n] = claims[m]
        BY <2>1
      <3> QED
        BY <3>1, <3>2
    <2> QED
      BY <1>1, <2>2
  <1>8. \A i \in S : row[i].tx = "committed" /\ row[i].attempts < MaxAttempts /\ ~row[i].published
    <2>1. \A i \in S : row[i].attempts \in Nat
      BY <1>3, TypedClaims DEF Row
    <2> QED
      BY <1>3, <2>1, RelayAssumption DEF Visible, Dead
  <1>9. \A n \in 1..Len(claims') : \A i \in claims'[n] :
           row[i].tx = "committed" /\ row[i].attempts < MaxAttempts /\ ~row[i].published
    BY <1>7, <1>8, ClaimedRows
  <1>10. /\ relay' \in [Relays -> [pc: {"idle", "send", "mark", "fail"}, batch: Seq(Ids)]]
         /\ \A q \in Relays : relay'[q].pc = "idle" <=> relay'[q].batch = <<>>
    BY <1>2, <1>4 DEF ClaimInv, TypeOK
  <1>11. /\ row' \in Seq(Row) /\ Len(row) <= Len(row')
         /\ log' \in Seq(Ids) /\ faults' \in 0..MaxFaults
         /\ \A n \in 1..Len(claims') : \A i \in claims'[n] :
               /\ row'[i].tx = "committed" /\ row'[i].attempts < MaxAttempts
               /\ ~row'[i].published
    <2>1. row' = row /\ log' = log /\ faults' = faults /\ Len(row) \in Nat
      BY <1>1, TypedClaims
    <2>2. row \in Seq(Row) /\ log \in Seq(Ids) /\ faults \in 0..MaxFaults
      BY DEF ClaimInv, TypeOK
    <2> QED
      BY <1>9, <2>1, <2>2
  <1> QED
    BY <1>7, <1>10, <1>11, ClaimsStand

\* A relay takes its batch a step further, or drops it.
LEMMA BatchGoesOn ==
  ASSUME ClaimInv, NEW r \in Relays, relay[r].pc # "idle",
         \/ \E pc \in {"mark", "fail"} : Goto(r, pc)
         \/ StopBatch(r)
         \/ NextEvent(r)
  PROVE  /\ relay' \in [Relays -> [pc: {"idle", "send", "mark", "fail"}, batch: Seq(Ids)]]
         /\ \A q \in Relays : relay'[q].pc = "idle" <=> relay'[q].batch = <<>>
  <1> DEFINE R == [Relays -> [pc: {"idle", "send", "mark", "fail"}, batch: Seq(Ids)]]
  <1>1. Typed /\ relay[r].batch \in Seq(Ids) /\ relay[r].batch # <<>>
    BY TypedClaims
  <1>2. relay' \in R /\ \A q \in Relays \ {r} : relay'[q] = relay[q]
    BY <1>1, BatchStep
  <1>3. relay'[r].pc = "idle" <=> relay'[r].batch = <<>>
    <2>1. CASE (\E pc \in {"mark", "fail"} : Goto(r, pc)) \/ StopBatch(r)
      BY <1>1, <2>1, BatchStep
    <2>2. CASE NextEvent(r)
      <3>1. relay'[r] = [pc |-> IF Len(relay[r].batch) = 1 THEN "idle" ELSE "send",
                         batch |-> Tail(relay[r].batch)]
        BY <1>2, <2>2 DEF NextEvent, ClaimInv, TypeOK
      <3>2. Len(relay[r].batch) = 1 <=> Tail(relay[r].batch) = <<>>
        <4>1. Len(relay[r].batch) \in Nat \ {0}
          BY <1>1, EmptySeq
        <4>2. /\ Tail(relay[r].batch) \in Seq(Ids)
              /\ Len(Tail(relay[r].batch)) = Len(relay[r].batch) - 1
          BY <1>1, HeadTailProperties
        <4>3. Tail(relay[r].batch) = <<>> <=> Len(Tail(relay[r].batch)) = 0
          BY <4>2, EmptySeq
        <4> QED
          BY <4>1, <4>2, <4>3
      <3> QED
        BY <3>1, <3>2
    <2> QED
      BY <2>1, <2>2
  <1> QED
    BY <1>2, <1>3 DEF ClaimInv, TypeOK

\* The row in hand is settled and unclaimed: the rows that stay claimed are as they
\* were.
LEMMA RowSettles ==
  ASSUME ClaimInv, NEW e \in Ids, NEW new \in Row, row' = [row EXCEPT ![e] = new],
         Unclaim(e)
  PROVE  /\ row' \in Seq(Row) /\ Len(row') = Len(row)
         /\ claims' \in Seq((SUBSET Ids) \ {{}}) /\ Exclusive(claims')
         /\ \A n \in 1..Len(claims') : \A i \in claims'[n] :
               /\ row'[i].tx = "committed" /\ row'[i].attempts < MaxAttempts
               /\ ~row'[i].published
  <1>1. /\ row' \in Seq(Row) /\ Len(row') = Len(row)
        /\ \A i \in Ids : i # e => row'[i] = row[i]
    BY TypedClaims DEF ClaimInv, TypeOK
  <1>2. /\ claims' \in Seq((SUBSET Ids) \ {{}}) /\ Exclusive(claims')
        /\ \A n \in 1..Len(claims') : \E m \in 1..Len(claims) : claims'[n] = claims[m] \ {e}
    BY TypedClaims, ClaimsShrink
  <1> QED
    BY <1>1, <1>2, ClaimedRows

LEMMA SameClaims ==
  ASSUME ClaimInv, UNCHANGED <<row, claims>>
  PROVE  /\ row' \in Seq(Row) /\ Len(row) <= Len(row')
         /\ claims' \in Seq((SUBSET Ids) \ {{}}) /\ Exclusive(claims')
         /\ \A n \in 1..Len(claims') : \A i \in claims'[n] :
               /\ row'[i].tx = "committed" /\ row'[i].attempts < MaxAttempts
               /\ ~row'[i].published
  BY TypedClaims, ClaimedRows DEF ClaimInv, TypeOK

LEMMA ClaimInit == Init => ClaimInv
  <1> SUFFICES ASSUME Init PROVE ClaimInv
    OBVIOUS
  <1>1. /\ row = <<>> /\ claims = <<>> /\ log = <<>> /\ faults = 0 /\ Ids = {}
        /\ \A r \in Relays : relay[r] = [pc |-> "idle", batch |-> <<>>]
        /\ relay \in [Relays -> [pc: {"idle", "send", "mark", "fail"}, batch: Seq(Ids)]]
    BY DEF Init, Ids
  <1> QED
    BY <1>1, RelayAssumption DEF ClaimInv, TypeOK, ClaimsAreExclusive

\* A row is inserted, or its transaction ends: no claim is about it yet.
LEMMA TableKeepsClaims ==
  ASSUME ClaimInv, UNCHANGED <<claims, relay, log, faults>>,
         row' \in Seq(Row), Len(row) <= Len(row'),
         \A i \in Ids : row[i].tx = "committed" => row'[i] = row[i]
  PROVE  ClaimInv'
  <1>1. /\ claims' \in Seq((SUBSET Ids) \ {{}}) /\ Exclusive(claims')
        /\ \A n \in 1..Len(claims') : \A i \in claims'[n] :
              /\ row'[i].tx = "committed" /\ row'[i].attempts < MaxAttempts
              /\ ~row'[i].published
    BY TypedClaims, ClaimedRows
  <1>2. /\ relay' \in [Relays -> [pc: {"idle", "send", "mark", "fail"}, batch: Seq(Ids)]]
        /\ \A r \in Relays : relay'[r].pc = "idle" <=> relay'[r].batch = <<>>
        /\ log' \in Seq(Ids) /\ faults' \in 0..MaxFaults
    BY DEF ClaimInv, TypeOK
  <1> QED
    BY <1>1, <1>2, ClaimsStand

LEMMA ClaimStep == ClaimInv /\ [Next]_vars => ClaimInv'
  <1> SUFFICES ASSUME ClaimInv, [Next]_vars PROVE ClaimInv'
    OBVIOUS
  <1> DEFINE R == [Relays -> [pc: {"idle", "send", "mark", "fail"}, batch: Seq(Ids)]]
  <1>t. /\ row \in Seq(Row) /\ Len(row) \in Nat /\ claims \in Seq((SUBSET Ids) \ {{}})
        /\ relay \in R /\ log \in Seq(Ids) /\ faults \in 0..MaxFaults
        /\ \A r \in Relays : relay[r].pc = "idle" <=> relay[r].batch = <<>>
        /\ \A i \in Ids : row[i] \in Row
    BY TypedClaims DEF ClaimInv, TypeOK
  <1>f. \A kind : Fault(kind) => faults' \in 0..MaxFaults
    BY <1>t, RelayAssumption DEF Fault
  <1>1. CASE UNCHANGED vars
    BY <1>1, <1>t, SameClaims, ClaimsStand DEF vars
  <1>2. ASSUME NEW p \in Patents, NEW big \in Sizes, Insert(p, big) PROVE ClaimInv'
    <2> DEFINE new == [patent |-> p, big |-> big, tx |-> "open", published |-> FALSE, attempts |-> 0]
    <2>1. new \in Row
      BY RelayAssumption DEF Row
    <2>2. row' = Append(row, new) /\ UNCHANGED <<claims, relay, log, faults>>
      BY <1>2 DEF Insert
    <2> HIDE DEF new
    <2>3. /\ row' \in Seq(Row) /\ Len(row') = Len(row) + 1
          /\ \A i \in Ids : row'[i] = row[i]
      BY <1>t, <2>1, <2>2 DEF Ids
    <2>4. Len(row) <= Len(row')
      BY <1>t, <2>3
    <2> QED
      BY <2>2, <2>3, <2>4, TableKeepsClaims
  <1>3. ASSUME NEW i \in Ids, NEW outcome \in {"committed", "aborted"}, End(i, outcome)
        PROVE  ClaimInv'
    <2>1. /\ row[i].tx = "open"
          /\ row' = [row EXCEPT ![i] = [row[i] EXCEPT !.tx = outcome]]
          /\ UNCHANGED <<claims, relay, log, faults>>
      BY <1>3 DEF End
    <2>2. [row[i] EXCEPT !.tx = outcome] \in Row
      BY <1>t DEF Row
    <2>3. /\ row' \in Seq(Row) /\ Len(row') = Len(row)
          /\ \A j \in Ids : j # i => row'[j] = row[j]
      BY <1>t, <2>1, <2>2 DEF Ids
    <2>4. \A j \in Ids : row[j].tx = "committed" => row'[j] = row[j]
      BY <2>1, <2>3
    <2> QED
      BY <1>t, <2>1, <2>3, <2>4, TableKeepsClaims
  <1>4. ASSUME Expire \/ ExpireEarly PROVE ClaimInv'
    <2>1. claims # <<>> /\ claims' = Tail(claims) /\ UNCHANGED <<row, relay, log>>
      BY <1>4 DEF Expire, ExpireEarly
    <2>2. faults' \in 0..MaxFaults
      BY <1>t, <1>f, <1>4 DEF Expire, ExpireEarly
    <2>3. Exclusive(claims)
      BY TypedClaims
    <2>4. /\ Tail(claims) \in Seq((SUBSET Ids) \ {{}}) /\ Exclusive(Tail(claims))
          /\ \A n \in 1..Len(Tail(claims)) : \E m \in 1..Len(claims) : Tail(claims)[n] = claims[m]
      BY <1>t, <2>1, <2>3, ClaimsExpire
    <2>5. \A n \in 1..Len(claims') : \A i \in claims'[n] :
             row[i].tx = "committed" /\ row[i].attempts < MaxAttempts /\ ~row[i].published
      BY <2>1, <2>4, ClaimedRows
    <2>6. /\ row' \in Seq(Row) /\ Len(row) <= Len(row') /\ log' \in Seq(Ids) /\ relay' \in R
          /\ \A r \in Relays : relay'[r].pc = "idle" <=> relay'[r].batch = <<>>
      BY <1>t, <2>1
    <2>7. \A n \in 1..Len(claims') : \A i \in claims'[n] :
             row'[i].tx = "committed" /\ row'[i].attempts < MaxAttempts /\ ~row'[i].published
      BY <2>1, <2>5
    <2>8. claims' \in Seq((SUBSET Ids) \ {{}}) /\ Exclusive(claims')
      BY <2>1, <2>4
    <2> QED
      BY <2>2, <2>6, <2>7, <2>8, ClaimsStand
  <1>5. ASSUME NEW r \in Relays,
               RelayStep(r) \/ SendFails(r) \/ MarkFails(r) \/ MarkFailedFails(r) \/ Crash(r)
        PROVE  ClaimInv'
    <2>a. relay[r].pc # "idle" => Event(r) \in Ids /\ Append(log, Event(r)) \in Seq(Ids)
      BY <1>t, TypedClaims
    <2>b. ASSUME relay[r].pc # "idle", UNCHANGED <<row, claims>>,
                 (\E pc \in {"mark", "fail"} : Goto(r, pc)) \/ StopBatch(r),
                 log' \in Seq(Ids), faults' \in 0..MaxFaults
          PROVE  ClaimInv'
      <3>1. relay' \in R /\ \A q \in Relays : relay'[q].pc = "idle" <=> relay'[q].batch = <<>>
        BY <2>b, BatchGoesOn
      <3> QED
        BY <2>b, <3>1, SameClaims, ClaimsStand
    <2>c. ASSUME relay[r].pc # "idle", NEW new \in Row, row' = [row EXCEPT ![Event(r)] = new],
                 Unclaim(Event(r)),
                 (\E pc \in {"mark", "fail"} : Goto(r, pc)) \/ StopBatch(r) \/ NextEvent(r),
                 UNCHANGED log, faults' \in 0..MaxFaults
          PROVE  ClaimInv'
      <3>1. relay' \in R /\ \A q \in Relays : relay'[q].pc = "idle" <=> relay'[q].batch = <<>>
        BY <2>c, BatchGoesOn
      <3>2. /\ row' \in Seq(Row) /\ Len(row') = Len(row)
            /\ claims' \in Seq((SUBSET Ids) \ {{}}) /\ Exclusive(claims')
            /\ \A n \in 1..Len(claims') : \A i \in claims'[n] :
                  /\ row'[i].tx = "committed" /\ row'[i].attempts < MaxAttempts
                  /\ ~row'[i].published
        BY <2>a, <2>c, RowSettles
      <3>3. Len(row) <= Len(row') /\ log' \in Seq(Ids)
        BY <1>t, <2>c, <3>2
      <3> QED
        BY <2>c, <3>1, <3>2, <3>3, ClaimsStand
    <2>d. ASSUME relay[r].pc # "idle"
          PROVE  /\ [row[Event(r)] EXCEPT !.published = TRUE] \in Row
                 /\ [row[Event(r)] EXCEPT !.attempts = @ + 1] \in Row
      <3>1. row[Event(r)] \in Row
        BY <1>t, <2>a, <2>d
      <3>2. row[Event(r)].attempts + 1 \in Nat
        BY <3>1 DEF Row
      <3> QED
        BY <3>1, <3>2 DEF Row
    <2>1. CASE Claim(r)
      BY <2>1, ClaimTakes
    <2>2. CASE Oversized(r) \/ Send(r)
      <3>1. /\ relay[r].pc # "idle" /\ UNCHANGED <<row, claims, faults>>
            /\ \E pc \in {"mark", "fail"} : Goto(r, pc)
            /\ log' \in {log, Append(log, Event(r))}
        BY <2>2 DEF Oversized, Send, At
      <3> QED
        BY <1>t, <2>a, <2>b, <3>1
    <2>3. CASE SendFails(r)
      <3>1. /\ relay[r].pc # "idle" /\ UNCHANGED <<row, claims>> /\ Fault("send")
            /\ Goto(r, "fail")
            /\ log' \in {log, Append(log, Event(r))}
        BY <2>3 DEF SendFails, At
      <3> QED
        BY <1>t, <1>f, <2>a, <2>b, <3>1
    <2>4. CASE MarkPublished(r)
      <3>1. /\ relay[r].pc # "idle" /\ UNCHANGED <<log, faults>> /\ NextEvent(r)
            /\ row' = [row EXCEPT ![Event(r)] = [row[Event(r)] EXCEPT !.published = TRUE]]
            /\ Unclaim(Event(r))
        BY <2>4 DEF MarkPublished, Publish, At
      <3> QED
        BY <1>t, <2>c, <2>d, <3>1
    <2>5. CASE MarkFails(r)
      <3>1. /\ relay[r].pc # "idle" /\ UNCHANGED log /\ Fault("mark") /\ Goto(r, "fail")
            /\ Publish(Event(r)) \/ UNCHANGED <<row, claims>>
        BY <2>5 DEF MarkFails, At
      <3>2. CASE UNCHANGED <<row, claims>>
        BY <1>t, <1>f, <2>b, <3>1, <3>2
      <3>3. CASE Publish(Event(r))
        <4>1. /\ row' = [row EXCEPT ![Event(r)] = [row[Event(r)] EXCEPT !.published = TRUE]]
              /\ Unclaim(Event(r))
          BY <3>3 DEF Publish
        <4> QED
          BY <1>f, <2>c, <2>d, <3>1, <4>1
      <3> QED
        BY <3>1, <3>2, <3>3
    <2>6. CASE MarkFailed(r)
      <3>1. /\ relay[r].pc # "idle" /\ UNCHANGED <<log, faults>> /\ StopBatch(r)
            /\ row' = [row EXCEPT ![Event(r)] = [row[Event(r)] EXCEPT !.attempts = @ + 1]]
            /\ Unclaim(Event(r))
        BY <2>6 DEF MarkFailed, At
      <3> QED
        BY <1>t, <2>c, <2>d, <3>1
    <2>7. CASE MarkFailedFails(r) \/ Crash(r)
      <3>1. /\ relay[r].pc # "idle" /\ UNCHANGED <<row, claims, log>> /\ StopBatch(r)
            /\ \E kind \in {"fail", "crash"} : Fault(kind)
        BY <2>7 DEF MarkFailedFails, Crash, At
      <3> QED
        BY <1>t, <1>f, <2>b, <3>1
    <2> QED
      BY <1>5, <2>1, <2>2, <2>3, <2>4, <2>5, <2>6, <2>7 DEF RelayStep
  <1> QED
    BY <1>1, <1>2, <1>3, <1>4, <1>5 DEF Next

\* The table, the claims, the relays and the topic always hold what they can hold:
\* a relay is idle exactly when its batch is done, and no claim is left empty.
THEOREM TypeCorrect == Spec => []TypeOK
  <1>1. ClaimInv => TypeOK
    BY DEF ClaimInv
  <1> QED
    BY <1>1, ClaimInit, ClaimStep, PTL DEF Spec

\* However claims expire under a relay that is still at work, and whatever is lost,
\* no row is under two claims, and none is claimed that was published, was given up
\* or was never committed.
THEOREM ClaimsStayExclusive == Spec => []ClaimsAreExclusive
  <1>1. ClaimInv => ClaimsAreExclusive
    BY DEF ClaimInv
  <1> QED
    BY <1>1, ClaimInit, ClaimStep, PTL DEF Spec
-----------------------------------------------------------------------------
(* Sets of rows and their sizes *)

Elements(s) == {s[n] : n \in 1..Len(s)}
Distinct(s) == \A m, n \in 1..Len(s) : m # n => s[m] # s[n]

LEMMA DistinctTail ==
  ASSUME NEW S, NEW q \in Seq(S), q # <<>>, Distinct(q)
  PROVE  Distinct(Tail(q)) /\ Elements(Tail(q)) = Elements(q) \ {Head(q)}
  <1>1. /\ Len(q) \in Nat \ {0} /\ Len(Tail(q)) = Len(q) - 1 /\ Head(q) = q[1]
        /\ \A n \in 1..Len(Tail(q)) : n + 1 \in 1..Len(q) /\ Tail(q)[n] = q[n + 1]
    <2>1. Len(q) \in Nat \ {0}
      BY EmptySeq
    <2> QED
      BY <2>1, HeadTailProperties, RestOfBatch
  <1>2. Distinct(Tail(q))
    <2> SUFFICES ASSUME NEW m \in 1..Len(Tail(q)), NEW n \in 1..Len(Tail(q)), m # n
                 PROVE  Tail(q)[m] # Tail(q)[n]
      BY DEF Distinct
    <2>1. m + 1 \in 1..Len(q) /\ n + 1 \in 1..Len(q) /\ m + 1 # n + 1
      BY <1>1
    <2> QED
      BY <1>1, <2>1 DEF Distinct
  <1>3. ASSUME NEW e \in Elements(Tail(q)) PROVE e \in Elements(q) \ {Head(q)}
    <2>1. PICK n \in 1..Len(Tail(q)) : e = Tail(q)[n]
      BY <1>3 DEF Elements
    <2>2. n + 1 \in 1..Len(q) /\ n + 1 # 1 /\ 1 \in 1..Len(q) /\ e = q[n + 1]
      BY <1>1, <2>1
    <2> QED
      BY <1>1, <2>2 DEF Elements, Distinct
  <1>4. ASSUME NEW e \in Elements(q) \ {Head(q)} PROVE e \in Elements(Tail(q))
    <2>1. PICK n \in 1..Len(q) : e = q[n]
      BY <1>4 DEF Elements
    <2>2. n # 1
      BY <1>1, <1>4, <2>1
    <2>3. n - 1 \in 1..Len(Tail(q)) /\ (n - 1) + 1 = n
      BY <1>1, <2>1, <2>2
    <2>4. Tail(q)[n - 1] = q[n]
      BY <1>1, <2>3
    <2> QED
      BY <2>1, <2>3, <2>4 DEF Elements
  <1> QED
    BY <1>2, <1>3, <1>4

LEMMA CardUnion ==
  ASSUME NEW A, NEW B, IsFiniteSet(A), IsFiniteSet(B)
  PROVE  /\ IsFiniteSet(A \cup B)
         /\ Cardinality(A \cup B) <= Cardinality(A) + Cardinality(B)
         /\ A \cap B = {} => Cardinality(A \cup B) = Cardinality(A) + Cardinality(B)
  <1>1. /\ IsFiniteSet(A \cup B) /\ IsFiniteSet(A \cap B)
        /\ Cardinality(A \cup B) = Cardinality(A) + Cardinality(B) - Cardinality(A \cap B)
    <2>1. A \cap B \in SUBSET A
      OBVIOUS
    <2> QED
      BY <2>1, FS_Union, FS_Subset
  <1>2. /\ Cardinality(A) \in Nat /\ Cardinality(B) \in Nat /\ Cardinality(A \cap B) \in Nat
        /\ A \cap B = {} => Cardinality(A \cap B) = 0
    BY <1>1, FS_CardinalityType, FS_EmptySet
  <1> QED
    BY <1>1, <1>2

LEMMA CardSubset ==
  ASSUME NEW B, IsFiniteSet(B), NEW A, A \subseteq B
  PROVE  /\ IsFiniteSet(A) /\ Cardinality(A) <= Cardinality(B)
         /\ Cardinality(A) \in Nat /\ Cardinality(B) \in Nat
  <1>1. A \in SUBSET B
    OBVIOUS
  <1>2. IsFiniteSet(A) /\ Cardinality(A) <= Cardinality(B)
    BY <1>1, FS_Subset
  <1> QED
    BY <1>2, FS_CardinalityType

LEMMA CardSplit ==
  ASSUME NEW B, IsFiniteSet(B), NEW A, A \subseteq B
  PROVE  /\ IsFiniteSet(A) /\ IsFiniteSet(B \ A)
         /\ Cardinality(A) \in Nat /\ Cardinality(B \ A) \in Nat
         /\ Cardinality(B) = Cardinality(A) + Cardinality(B \ A)
  <1>1. A \cup (B \ A) = B /\ A \cap (B \ A) = {} /\ B \ A \subseteq B
    OBVIOUS
  <1>2. /\ IsFiniteSet(A) /\ Cardinality(A) \in Nat
        /\ IsFiniteSet(B \ A) /\ Cardinality(B \ A) \in Nat
    BY <1>1, CardSubset
  <1> QED
    BY <1>1, <1>2, CardUnion

\* The rows one relay has in hand, as pairs.
LEMMA CardOfHand ==
  ASSUME NEW r, NEW G, IsFiniteSet(G)
  PROVE  IsFiniteSet({r} \X G) /\ Cardinality({r} \X G) = Cardinality(G)
  <1>1. IsFiniteSet({r}) /\ Cardinality({r}) = 1
    BY FS_Singleton
  <1>2. IsFiniteSet({r} \X G) /\ Cardinality({r} \X G) = 1 * Cardinality(G)
    BY <1>1, FS_Product
  <1> QED
    BY <1>2, FS_CardinalityType

\* LIMIT n: no more than n rows are taken.
LEMMA FirstIsShort ==
  ASSUME NEW S, S \subseteq Nat, IsFiniteSet(S), NEW n \in Nat \ {0}
  PROVE  IsFiniteSet(First(S, n)) /\ Cardinality(First(S, n)) <= n
  <1> DEFINE Below(i) == {j \in S : j < i}
             F == First(S, n)
             f == [i \in F |-> Cardinality(Below(i))]
  <1>1. \A i \in S : Below(i) \subseteq S /\ IsFiniteSet(Below(i)) /\ Cardinality(Below(i)) \in Nat
    <2> SUFFICES ASSUME NEW i \in S
                 PROVE Below(i) \subseteq S /\ IsFiniteSet(Below(i)) /\ Cardinality(Below(i)) \in Nat
      OBVIOUS
    <2>1. Below(i) \subseteq S
      OBVIOUS
    <2> HIDE DEF Below
    <2> QED
      BY <2>1, CardSubset
  <1>2. F \subseteq S /\ \A i \in F : Cardinality(Below(i)) < n
    BY DEF First
  <1>3. ASSUME NEW i \in S, NEW j \in S, i < j
        PROVE  Cardinality(Below(i)) # Cardinality(Below(j))
    <2>1. Below(i) \in SUBSET Below(j)
      <3>1. i \in Nat /\ j \in Nat /\ \A k \in S : k \in Nat
        OBVIOUS
      <3>2. \A k \in S : k < i => k < j
        BY <1>3, <3>1
      <3> QED
        BY <3>2
    <2>2. i \in Below(j) /\ i \notin Below(i)
      BY <1>3
    <2>3. Below(i) # Below(j)
      BY <2>2
    <2>4. IsFiniteSet(Below(j))
      BY <1>1
    <2> HIDE DEF Below
    <2> QED
      BY <2>1, <2>3, <2>4, FS_Subset
  <1> HIDE DEF Below, F
  <1>4. f \in Injection(F, 0..(n - 1))
    <2>1. f \in [F -> 0..(n - 1)]
      BY <1>1, <1>2
    <2>2. \A i, j \in F : f[i] = f[j] => i = j
      BY <1>2, <1>3
    <2> QED
      BY <2>1, <2>2 DEF Injection, IsInjective
  <1> HIDE DEF f
  <1>5. IsFiniteSet(0..(n - 1)) /\ Cardinality(0..(n - 1)) = n
    BY FS_Interval
  <1>6. IsFiniteSet(F) /\ Cardinality(F) <= Cardinality(0..(n - 1))
    BY <1>4, <1>5, FS_Injection
  <1> QED
    BY <1>5, <1>6 DEF F

\* The rows of a claim come back each once, whatever their order.
LEMMA ReturnedIsOnto ==
  ASSUME NEW S, IsFiniteSet(S), NEW b \in Returned(S)
  PROVE  Len(b) = Cardinality(S) /\ Distinct(b) /\ Elements(b) = S
  <1>1. Cardinality(S) \in Nat
    BY FS_CardinalityType
  <1> DEFINE N == Cardinality(S)
  <1>2. b \in [1..N -> S] /\ \A m, n \in 1..N : m < n => b[m] # b[n]
    BY DEF Returned
  <1> HIDE DEF N
  <1>3. N \in Nat
    BY <1>1 DEF N
  <1>4. Len(b) = N /\ b \in Seq(S)
    BY <1>2, <1>3
  <1>5. \A m, n \in 1..N : m # n => b[m] # b[n]
    BY <1>2, <1>3
  <1>6. b \in Injection(1..N, S)
    BY <1>2, <1>5 DEF Injection, IsInjective
  <1>7. Cardinality(1..N) = Cardinality(S)
    BY <1>3, FS_Interval DEF N
  <1>8. b \in Surjection(1..N, S)
    BY <1>6, <1>7, FS_Injection
  <1>9. Elements(b) = S
    BY <1>2, <1>4, <1>8 DEF Elements, Surjection
  <1> QED
    BY <1>4, <1>5, <1>9 DEF Distinct, N

-----------------------------------------------------------------------------
(* What is sent twice *)

InBatch(r) == Elements(relay[r].batch)

\* The rows that relay r has yet to send, or to give up.
Pending(r) == IF relay[r].pc = "mark" THEN InBatch(r) \ {Event(r)} ELSE InBatch(r)

InHand == {x \in Relays \X Nat : x[2] \in Pending(x[1])}

\* The rows that will be claimed, by now or once their claim has run out.
Loose == {i \in Ids : /\ Visible(i) /\ ~row[i].published /\ ~Dead(i)
                      /\ Claimed(i) => \A r \in Relays : i \notin InBatch(r)}

Touched == {i \in Ids : InLog(i) \/ i \in Loose \/ \E r \in Relays : i \in Pending(r)}

\* Each time that a row was sent, is in hand to be sent or is about to be claimed for
\* it counts; each row has one for nothing, and faults pay for the others.
Paid ==
    /\ IsFiniteSet(InHand)
    /\ Cardinality(InHand) + Cardinality(Loose) + Len(log)
          <= Cardinality(Touched) + BatchSize * faults

DebtInv ==
    /\ \A r \in Relays : Distinct(relay[r].batch)
    /\ \A n \in 1..Len(claims) : Cardinality(claims[n]) <= BatchSize
    /\ Paid

LEMMA RelayRows ==
  ASSUME ClaimInv
  PROVE  /\ IsFiniteSet(Ids) /\ Ids \subseteq Nat
         /\ \A r \in Relays : /\ InBatch(r) \subseteq Ids /\ Pending(r) \subseteq InBatch(r)
                              /\ IsFiniteSet(InBatch(r)) /\ IsFiniteSet(Pending(r))
                              /\ relay[r].pc # "idle" => Event(r) \in InBatch(r)
                              /\ relay[r].pc = "idle" => InBatch(r) = {}
  <1>1. IsFiniteSet(Ids) /\ Ids \subseteq Nat
    BY TypedClaims, FS_Interval
  <1>2. ASSUME NEW r \in Relays
        PROVE  /\ InBatch(r) \subseteq Ids /\ Pending(r) \subseteq InBatch(r)
               /\ relay[r].pc # "idle" => Event(r) \in InBatch(r)
               /\ relay[r].pc = "idle" => InBatch(r) = {}
    <2>1. relay[r].batch \in Seq(Ids) /\ (relay[r].pc = "idle" <=> relay[r].batch = <<>>)
      BY DEF ClaimInv, TypeOK
    <2>2. InBatch(r) \subseteq Ids
      BY <2>1 DEF InBatch, Elements
    <2>3. relay[r].pc # "idle" => Event(r) \in InBatch(r)
      <3>1. relay[r].batch # <<>> => 1 \in 1..Len(relay[r].batch)
        BY <2>1, EmptySeq
      <3> QED
        BY <2>1, <3>1, HeadTailProperties DEF InBatch, Elements, Event
    <2>4. relay[r].pc = "idle" => InBatch(r) = {}
      BY <2>1 DEF InBatch, Elements
    <2> QED
      BY <2>2, <2>3, <2>4 DEF Pending
  <1> QED
    BY <1>1, <1>2, CardSubset

Counts ==
    /\ IsFiniteSet(Loose) /\ IsFiniteSet(Touched) /\ Loose \subseteq Touched
    /\ Cardinality(Loose) \in Nat /\ Cardinality(Touched) \in Nat
    /\ Len(log) \in Nat /\ faults \in Nat /\ BatchSize \in Nat \ {0}

LEMMA CountsAreNumbers == ClaimInv => Counts
  <1> SUFFICES ASSUME ClaimInv PROVE Counts
    OBVIOUS
  <1>1. Loose \subseteq Ids /\ Touched \subseteq Ids /\ Loose \subseteq Touched
    BY DEF Loose, Touched
  <1>2. Len(log) \in Nat /\ faults \in Nat /\ BatchSize \in Nat \ {0}
    BY RelayAssumption DEF ClaimInv, TypeOK
  <1> QED
    BY <1>1, <1>2, RelayRows, CardSubset DEF Counts

LEMMA NextCountsAreNumbers == ClaimInv' => Counts'
  BY CountsAreNumbers, PTL

\* A step that adds no more to the count than its fault pays for.
LEMMA StepIsPaid ==
  ASSUME ClaimInv, ClaimInv', Paid, IsFiniteSet(InHand'),
         NEW d \in {0, 1}, faults' = faults + d,
         Cardinality(InHand') + Cardinality(Loose') + Len(log') + Cardinality(Touched)
           <= Cardinality(InHand) + Cardinality(Loose) + Len(log) + Cardinality(Touched')
                + BatchSize * d
  PROVE  Paid'
  <1>1. /\ Cardinality(Loose) \in Nat /\ Cardinality(Touched) \in Nat
        /\ Len(log) \in Nat /\ faults \in Nat /\ BatchSize \in Nat
        /\ Cardinality(Loose') \in Nat /\ Cardinality(Touched') \in Nat
        /\ Len(log') \in Nat
    BY CountsAreNumbers, NextCountsAreNumbers DEF Counts
  <1>2. Cardinality(InHand) \in Nat /\ Cardinality(InHand') \in Nat
    BY FS_CardinalityType DEF Paid
  <1>3. BatchSize * faults' = BatchSize * faults + BatchSize * d
    BY <1>1
  <1>4. BatchSize * faults \in Nat /\ BatchSize * d \in Nat
    BY <1>1
  <1>5. Cardinality(InHand) + Cardinality(Loose) + Len(log)
          <= Cardinality(Touched) + BatchSize * faults
    BY DEF Paid
  <1>6. Cardinality(InHand') + Cardinality(Loose') + Len(log')
          <= Cardinality(Touched') + BatchSize * faults'
    BY <1>1, <1>2, <1>3, <1>4, <1>5
  <1> QED
    BY <1>6 DEF Paid

\* What the moves of one relay leave in its hand.
LEMMA Moves ==
  ASSUME ClaimInv, \A q \in Relays : Distinct(relay[q].batch), NEW r \in Relays,
         relay[r].pc # "idle"
  PROVE  /\ \A pc \in {"mark", "fail"} : Goto(r, pc) =>
               /\ \A q \in Relays : Distinct(relay'[q].batch) /\ InBatch(q)' = InBatch(q)
               /\ \A q \in Relays \ {r} : Pending(q)' = Pending(q)
               /\ pc = "mark" => Pending(r)' = InBatch(r) \ {Event(r)}
               /\ pc = "fail" => Pending(r)' = InBatch(r)
         /\ StopBatch(r) =>
               /\ \A q \in Relays : Distinct(relay'[q].batch)
               /\ \A q \in Relays \ {r} : InBatch(q)' = InBatch(q) /\ Pending(q)' = Pending(q)
               /\ InBatch(r)' = {} /\ Pending(r)' = {}
         /\ NextEvent(r) =>
               /\ \A q \in Relays : Distinct(relay'[q].batch)
               /\ \A q \in Relays \ {r} : InBatch(q)' = InBatch(q) /\ Pending(q)' = Pending(q)
               /\ InBatch(r)' = InBatch(r) \ {Event(r)}
               /\ Pending(r)' = InBatch(r) \ {Event(r)}
  <1>1. Typed /\ relay[r].batch \in Seq(Ids) /\ relay[r].batch # <<>>
    BY TypedClaims
  <1>2. \A q \in Relays : relay'[q] = relay[q] => InBatch(q)' = InBatch(q) /\ Pending(q)' = Pending(q)
    BY DEF InBatch, Pending, Event
  <1>3. ASSUME NEW pc \in {"mark", "fail"}, Goto(r, pc)
        PROVE  /\ \A q \in Relays : Distinct(relay'[q].batch) /\ InBatch(q)' = InBatch(q)
               /\ \A q \in Relays \ {r} : Pending(q)' = Pending(q)
               /\ pc = "mark" => Pending(r)' = InBatch(r) \ {Event(r)}
               /\ pc = "fail" => Pending(r)' = InBatch(r)
    <2>1. /\ relay'[r].pc = pc /\ relay'[r].batch = relay[r].batch
          /\ \A q \in Relays \ {r} : relay'[q] = relay[q]
      BY <1>1, <1>3, BatchStep
    <2> QED
      BY <1>2, <2>1 DEF InBatch, Pending, Event
  <1>4. Distinct(<<>>) /\ Elements(<<>>) = {}
    BY DEF Distinct, Elements
  <1>5. ASSUME StopBatch(r)
        PROVE  /\ \A q \in Relays : Distinct(relay'[q].batch)
               /\ \A q \in Relays \ {r} : InBatch(q)' = InBatch(q) /\ Pending(q)' = Pending(q)
               /\ InBatch(r)' = {} /\ Pending(r)' = {}
    <2>1. /\ relay'[r].pc = "idle" /\ relay'[r].batch = <<>>
          /\ \A q \in Relays \ {r} : relay'[q] = relay[q]
      BY <1>1, <1>5, BatchStep
    <2> QED
      BY <1>2, <1>4, <2>1 DEF InBatch, Pending
  <1>6. ASSUME NextEvent(r)
        PROVE  /\ \A q \in Relays : Distinct(relay'[q].batch)
               /\ \A q \in Relays \ {r} : InBatch(q)' = InBatch(q) /\ Pending(q)' = Pending(q)
               /\ InBatch(r)' = InBatch(r) \ {Event(r)}
               /\ Pending(r)' = InBatch(r) \ {Event(r)}
    <2>1. /\ relay'[r].pc \in {"idle", "send"} /\ relay'[r].batch = Tail(relay[r].batch)
          /\ \A q \in Relays \ {r} : relay'[q] = relay[q]
      BY <1>1, <1>6, BatchStep
    <2>2. /\ Distinct(Tail(relay[r].batch))
          /\ Elements(Tail(relay[r].batch)) = InBatch(r) \ {Event(r)}
      BY <1>1, DistinctTail DEF InBatch, Event
    <2> QED
      BY <1>2, <2>1, <2>2 DEF InBatch, Pending
  <1> QED
    BY <1>3, <1>5, <1>6

\* Unclaiming a row leaves the others as they were, and makes no claim larger.
LEMMA OthersStayClaimed ==
  ASSUME ClaimInv, NEW e, Unclaim(e)
  PROVE  /\ \A i \in Ids \ {e} : Claimed(i)' <=> Claimed(i)
         /\ (\A n \in 1..Len(claims) : Cardinality(claims[n]) <= BatchSize) =>
               \A n \in 1..Len(claims') : Cardinality(claims'[n]) <= BatchSize
  <1>1. claims \in Seq((SUBSET Ids) \ {{}}) /\ Exclusive(claims)
    BY TypedClaims
  <1>2. \A n \in 1..Len(claims') : \E m \in 1..Len(claims) : claims'[n] = claims[m] \ {e}
    BY <1>1, ClaimsShrink
  <1>3. ASSUME NEW m \in 1..Len(claims), NEW i \in claims[m] \ {e}
        PROVE  \E n \in 1..Len(claims') : i \in claims'[n]
    <2> DEFINE N == Len(claims)
               rest == [j \in 1..N |-> claims[j] \ {e}]
               emptied == {j \in 1..N : rest[j] = {}}
    <2>1. \/ claims' = rest
          \/ \E j \in emptied : claims' = Without(rest, j)
      BY DEF Unclaim
    <2>2. N \in Nat /\ Len(rest) = N /\ i \in rest[m] /\ m \in 1..N
      BY <1>1, <1>3
    <2> HIDE DEF N, rest
    <2>3. CASE claims' = rest
      BY <2>2, <2>3
    <2>4. ASSUME NEW j \in emptied, claims' = Without(rest, j)
          PROVE  \E n \in 1..Len(claims') : i \in claims'[n]
      <3>1. j \in 1..N /\ j # m
        BY <2>2
      <3>2. /\ Len(claims') = N - 1
            /\ \A n \in 1..(N - 1) : claims'[n] = IF n < j THEN rest[n] ELSE rest[n + 1]
        <4>1. claims' = [n \in 1..(N - 1) |-> IF n < j THEN rest[n] ELSE rest[n + 1]]
          BY <2>2, <2>4 DEF Without
        <4>2. N - 1 \in Nat
          BY <2>2, <3>1
        <4> QED
          BY <4>1, <4>2
      <3>3. CASE m < j
        <4>1. m \in 1..(N - 1) /\ claims'[m] = rest[m]
          BY <2>2, <3>1, <3>2, <3>3
        <4> QED
          BY <2>2, <3>2, <4>1
      <3>4. CASE m > j
        <4>1. m - 1 \in 1..(N - 1) /\ ~(m - 1 < j) /\ (m - 1) + 1 = m
          BY <2>2, <3>1, <3>4
        <4>2. claims'[m - 1] = rest[m]
          BY <3>2, <4>1
        <4> QED
          BY <2>2, <3>2, <4>1, <4>2
      <3> QED
        BY <2>2, <3>1, <3>3, <3>4
    <2> QED
      BY <2>1, <2>3, <2>4
  <1>4. \A i \in Ids \ {e} : Claimed(i)' <=> Claimed(i)
    BY <1>2, <1>3 DEF Claimed
  <1>5. ASSUME \A n \in 1..Len(claims) : Cardinality(claims[n]) <= BatchSize,
               NEW n \in 1..Len(claims')
        PROVE  Cardinality(claims'[n]) <= BatchSize
    <2>1. PICK m \in 1..Len(claims) : claims'[n] = claims[m] \ {e}
      BY <1>2
    <2>2. claims[m] \subseteq Ids /\ claims[m] \ {e} \subseteq claims[m]
      BY <1>1
    <2>3. IsFiniteSet(claims[m])
      BY <2>2, RelayRows, CardSubset
    <2>4. /\ Cardinality(claims'[n]) <= Cardinality(claims[m])
          /\ Cardinality(claims'[n]) \in Nat /\ Cardinality(claims[m]) \in Nat
      BY <2>1, <2>2, <2>3, CardSubset
    <2> QED
      BY <1>5, <2>4, RelayAssumption
  <1> QED
    BY <1>4, <1>5

\* One relay has less in hand, or more.
LEMMA HandDrops ==
  ASSUME ClaimInv, IsFiniteSet(InHand), NEW r \in Relays, NEW G, G \subseteq Pending(r),
         \A q \in Relays \ {r} : Pending(q)' = Pending(q), Pending(r)' = Pending(r) \ G
  PROVE  /\ IsFiniteSet(InHand') /\ IsFiniteSet(G)
         /\ Cardinality(InHand') \in Nat /\ Cardinality(G) \in Nat
         /\ Cardinality(InHand) = Cardinality(InHand') + Cardinality(G)
  <1>1. IsFiniteSet(G) /\ G \subseteq Nat
    BY RelayRows, CardSubset
  <1>2. {r} \X G \subseteq InHand
    BY <1>1 DEF InHand
  <1>3. InHand' = InHand \ ({r} \X G)
    BY <1>1 DEF InHand
  <1>4. /\ IsFiniteSet({r} \X G) /\ Cardinality({r} \X G) = Cardinality(G)
        /\ Cardinality({r} \X G) \in Nat
    BY <1>1, CardOfHand, FS_CardinalityType
  <1> DEFINE H == {r} \X G
  <1> HIDE DEF H
  <1>5. /\ IsFiniteSet(InHand \ H) /\ Cardinality(InHand \ H) \in Nat
        /\ Cardinality(InHand) = Cardinality(H) + Cardinality(InHand \ H)
    BY <1>2, CardSplit DEF H
  <1> QED
    BY <1>1, <1>3, <1>4, <1>5 DEF H

LEMMA HandGrows ==
  ASSUME ClaimInv, IsFiniteSet(InHand), NEW r \in Relays, NEW G, IsFiniteSet(G),
         \A q \in Relays \ {r} : Pending(q)' = Pending(q), Pending(r)' \subseteq Pending(r) \cup G
  PROVE  /\ IsFiniteSet(InHand')
         /\ Cardinality(InHand) \in Nat /\ Cardinality(InHand') \in Nat /\ Cardinality(G) \in Nat
         /\ Cardinality(InHand') <= Cardinality(InHand) + Cardinality(G)
  <1>1. InHand' \subseteq InHand \cup ({r} \X G)
    BY DEF InHand
  <1>2. IsFiniteSet({r} \X G) /\ Cardinality({r} \X G) = Cardinality(G)
    BY CardOfHand
  <1>3. /\ IsFiniteSet(InHand \cup ({r} \X G))
        /\ Cardinality(InHand \cup ({r} \X G)) <= Cardinality(InHand) + Cardinality(G)
    BY <1>2, CardUnion
  <1>4. /\ IsFiniteSet(InHand')
        /\ Cardinality(InHand') <= Cardinality(InHand \cup ({r} \X G))
    BY <1>1, <1>3, CardSubset
  <1>5. /\ Cardinality(InHand) \in Nat /\ Cardinality(InHand') \in Nat /\ Cardinality(G) \in Nat
        /\ Cardinality(InHand \cup ({r} \X G)) \in Nat
    BY <1>3, <1>4, FS_CardinalityType
  <1> QED
    BY <1>3, <1>4, <1>5

\* An event is sent, is too large to be sent, or its sending fails.
LEMMA SendIsPaid ==
  ASSUME ClaimInv, ClaimInv', DebtInv, NEW r \in Relays,
         Oversized(r) \/ Send(r) \/ SendFails(r)
  PROVE  DebtInv'
  <1>e. PICK e : e = Event(r)
    OBVIOUS
  <1>1. /\ relay[r].pc = "send" /\ UNCHANGED <<row, claims>>
        /\ e \in Pending(r) /\ e \in InBatch(r) /\ e \in Ids /\ InBatch(r) = Pending(r)
    <2>1. relay[r].pc = "send" /\ UNCHANGED <<row, claims>>
      BY DEF Oversized, Send, SendFails, At
    <2> QED
      BY <1>e, <2>1, RelayRows DEF Pending
  <1>2. /\ \A q \in Relays : Distinct(relay'[q].batch) /\ InBatch(q)' = InBatch(q)
        /\ \A q \in Relays \ {r} : Pending(q)' = Pending(q)
        /\ Goto(r, "mark") => Pending(r)' = Pending(r) \ {e}
        /\ Goto(r, "fail") => Pending(r)' = Pending(r)
    <2>1. Goto(r, "mark") \/ Goto(r, "fail")
      BY DEF Oversized, Send, SendFails
    <2> QED
      BY <1>e, <1>1, <2>1, Moves DEF DebtInv
  <1>3. Ids' = Ids /\ Loose' = Loose
    BY <1>1, <1>2 DEF Loose, Ids, Visible, Dead, Claimed
  <1>4. log \in Seq(Ids) /\ (log' = log \/ log' = Append(log, e))
    BY <1>e DEF Oversized, Send, SendFails, ClaimInv, TypeOK
  <1>5. Touched \subseteq Touched'
    <2>1. \A i \in Ids : InLog(i) => InLog(i)'
      BY <1>1, <1>4 DEF InLog
    <2>2. Goto(r, "fail") \/ (log' = Append(log, e) /\ InLog(e)')
      <3>1. log' = Append(log, e) => InLog(e)'
        <4>1. ASSUME log' = Append(log, e) PROVE \E n \in 1..Len(log') : log'[n] = e
          <5>1. Len(log) + 1 \in 1..Len(log') /\ log'[Len(log) + 1] = e
            BY <1>1, <1>4, <4>1
          <5> QED
            BY <5>1
        <4> QED
          BY <4>1 DEF InLog
      <3> QED
        BY <1>e, <3>1 DEF Oversized, Send, SendFails
    <2>3. \A i \in Ids : \A q \in Relays : i \in Pending(q) => i \in Pending(q)' \/ InLog(i)'
      <3>1. Goto(r, "mark") \/ Goto(r, "fail")
        BY DEF Oversized, Send, SendFails
      <3> QED
        BY <1>2, <2>2, <3>1
    <2> QED
      BY <1>3, <2>1, <2>3 DEF Touched
  <1>6. /\ IsFiniteSet(InHand)
        /\ Cardinality(Loose) \in Nat /\ Cardinality(Touched) \in Nat
        /\ Cardinality(Touched) <= Cardinality(Touched') /\ Cardinality(Touched') \in Nat
        /\ Len(log) \in Nat /\ BatchSize \in Nat \ {0}
    BY <1>5, CountsAreNumbers, NextCountsAreNumbers, CardSubset DEF Counts, DebtInv, Paid
  <1>7. IsFiniteSet({e}) /\ Cardinality({e}) = 1 /\ IsFiniteSet({}) /\ Cardinality({}) = 0
    BY FS_Singleton, FS_EmptySet
  <1>8. CASE Send(r)
    <2>1. Goto(r, "mark") /\ log' = Append(log, e) /\ faults' = faults + 0
      BY <1>e, <1>8, CountsAreNumbers DEF Send, Counts
    <2>2. {e} \subseteq Pending(r) /\ Len(log') = Len(log) + 1
      BY <1>1, <1>4, <2>1
    <2>3. /\ IsFiniteSet(InHand') /\ Cardinality(InHand') \in Nat
          /\ Cardinality(InHand) = Cardinality(InHand') + 1
      BY <1>2, <1>6, <1>7, <2>1, <2>2, HandDrops
    <2>4. Cardinality(InHand') + Cardinality(Loose') + Len(log') + Cardinality(Touched)
            <= Cardinality(InHand) + Cardinality(Loose) + Len(log) + Cardinality(Touched')
                 + BatchSize * 0
      BY <1>3, <1>6, <2>2, <2>3
    <2>5. Paid'
      BY <2>1, <2>3, <2>4, StepIsPaid DEF DebtInv
    <2> QED
      BY <1>1, <1>2, <2>5 DEF DebtInv
  <1>9. CASE Oversized(r) \/ SendFails(r)
    <2>1. PICK d \in {0, 1} : faults' = faults + d /\ Len(log') <= Len(log) + d /\ Len(log') \in Nat
      <3>1. CASE Oversized(r)
        BY <1>6, <3>1, CountsAreNumbers DEF Oversized, Counts
      <3>2. CASE SendFails(r)
        BY <1>e, <1>1, <1>4, <1>6, <3>2 DEF SendFails, Fault
      <3> QED
        BY <1>9, <3>1, <3>2
    <2>2. Pending(r)' \subseteq Pending(r) \cup {}
      BY <1>2, <1>9 DEF Oversized, SendFails
    <2>3. /\ IsFiniteSet(InHand')
          /\ Cardinality(InHand) \in Nat /\ Cardinality(InHand') \in Nat
          /\ Cardinality(InHand') <= Cardinality(InHand) + 0
      BY <1>2, <1>6, <1>7, <2>2, HandGrows
    <2>4. Cardinality(InHand') + Cardinality(Loose') + Len(log') + Cardinality(Touched)
            <= Cardinality(InHand) + Cardinality(Loose) + Len(log) + Cardinality(Touched')
                 + BatchSize * d
      BY <1>3, <1>6, <2>1, <2>3
    <2>5. Paid'
      BY <2>1, <2>3, <2>4, StepIsPaid DEF DebtInv
    <2> QED
      BY <1>1, <1>2, <2>5 DEF DebtInv
  <1> QED
    BY <1>8, <1>9

\* A row that was sent is marked published: it needs no other claim.
LEMMA PublishSettles ==
  ASSUME ClaimInv, NEW e \in Ids, InLog(e), Publish(e), UNCHANGED log,
         \A q \in Relays : InBatch(q)' \cup {e} = InBatch(q) \cup {e},
         \A q \in Relays : Pending(q) \subseteq Pending(q)'
  PROVE  Loose' \subseteq Loose /\ Touched \subseteq Touched'
  <1>1. row' = [row EXCEPT ![e] = [row[e] EXCEPT !.published = TRUE]] /\ Unclaim(e)
    BY DEF Publish
  <1>2. row \in Seq(Row) /\ row[e] \in Row
    BY TypedClaims DEF ClaimInv, TypeOK
  <1>3. [row[e] EXCEPT !.published = TRUE] \in Row
        /\ [row[e] EXCEPT !.published = TRUE].published
    BY <1>2 DEF Row
  <1>4. /\ Ids' = Ids /\ row'[e].published
        /\ \A i \in Ids : i # e => row'[i] = row[i]
    BY <1>1, <1>2, <1>3 DEF Ids
  <1>5. \A i \in Ids \ {e} : Claimed(i)' <=> Claimed(i)
    BY <1>1, OthersStayClaimed
  <1>6. \A i \in Ids \ {e} : i \in Loose' <=> i \in Loose
    <2>1. \A i \in Ids \ {e} : \A q \in Relays : i \in InBatch(q)' <=> i \in InBatch(q)
      OBVIOUS
    <2> QED
      BY <1>4, <1>5, <2>1 DEF Loose, Visible, Dead
  <1>7. e \notin Loose'
    BY <1>4 DEF Loose
  <1>8. Loose' \subseteq Ids
    BY <1>4 DEF Loose
  <1>9. Loose' \subseteq Loose
    BY <1>6, <1>7, <1>8
  <1>10. ASSUME NEW i \in Touched PROVE i \in Touched'
    <2>1. i \in Ids /\ (InLog(i) \/ i \in Loose \/ \E q \in Relays : i \in Pending(q))
      BY DEF Touched
    <2>2. \A j : InLog(j)' <=> InLog(j)
      BY DEF InLog
    <2>3. InLog(i)' \/ i \in Loose' \/ \E q \in Relays : i \in Pending(q)'
      BY <1>6, <2>1, <2>2
    <2> QED
      BY <1>4, <2>1, <2>3 DEF Touched
  <1> QED
    BY <1>9, <1>10

\* An event that was sent is marked published, or marking it fails.
LEMMA MarkIsPaid ==
  ASSUME ClaimInv, ClaimInv', TruthInv, DebtInv, NEW r \in Relays,
         MarkPublished(r) \/ MarkFails(r)
  PROVE  DebtInv'
  <1>e. PICK e : e = Event(r)
    OBVIOUS
  <1>1. /\ relay[r].pc = "mark" /\ UNCHANGED log
        /\ e \in InBatch(r) /\ e \in Ids /\ InLog(e) /\ Pending(r) = InBatch(r) \ {e}
    <2>1. relay[r].pc = "mark" /\ UNCHANGED log
      BY DEF MarkPublished, MarkFails, At
    <2> QED
      BY <1>e, <2>1, RelayRows DEF Pending, TruthInv, HandsAreClean
  <1>2. PICK d \in {0, 1} :
           /\ faults' = faults + d
           /\ d = 0 => NextEvent(r) /\ Publish(e)
           /\ d = 1 => Goto(r, "fail") /\ (Publish(e) \/ UNCHANGED <<row, claims>>)
    <2>1. CASE MarkPublished(r)
      BY <1>e, <2>1, CountsAreNumbers DEF MarkPublished, Counts
    <2>2. CASE MarkFails(r)
      BY <1>e, <2>2 DEF MarkFails, Fault
    <2> QED
      BY <2>1, <2>2
  <1>3. /\ \A q \in Relays : Distinct(relay'[q].batch)
        /\ \A q \in Relays \ {r} : InBatch(q)' = InBatch(q) /\ Pending(q)' = Pending(q)
        /\ d = 0 => InBatch(r)' = InBatch(r) \ {e} /\ Pending(r)' = Pending(r)
        /\ d = 1 => InBatch(r)' = InBatch(r) /\ Pending(r)' = InBatch(r)
    BY <1>e, <1>1, <1>2, Moves DEF DebtInv
  <1>4. Loose' \subseteq Loose /\ Touched \subseteq Touched'
    <2>1. \A q \in Relays : /\ InBatch(q)' \cup {e} = InBatch(q) \cup {e}
                            /\ Pending(q) \subseteq Pending(q)'
      BY <1>1, <1>3
    <2>2. CASE Publish(e)
      BY <1>1, <2>1, <2>2, PublishSettles
    <2>3. CASE d = 1 /\ UNCHANGED <<row, claims>>
      <3>1. Ids' = Ids /\ Loose' = Loose
        BY <1>3, <2>3 DEF Loose, Ids, Visible, Dead, Claimed
      <3> QED
        BY <1>1, <2>1, <3>1 DEF Touched, InLog
    <2> QED
      BY <1>2, <2>2, <2>3
  <1>5. \A n \in 1..Len(claims') : Cardinality(claims'[n]) <= BatchSize
    <2>1. CASE Publish(e)
      BY <2>1, OthersStayClaimed DEF Publish, DebtInv
    <2>2. CASE UNCHANGED claims
      BY <2>2 DEF DebtInv
    <2> QED
      BY <1>2, <2>1, <2>2
  <1>6. /\ IsFiniteSet(InHand)
        /\ Cardinality(Loose) \in Nat /\ Cardinality(Loose') \in Nat
        /\ Cardinality(Loose') <= Cardinality(Loose)
        /\ Cardinality(Touched) \in Nat /\ Cardinality(Touched') \in Nat
        /\ Cardinality(Touched) <= Cardinality(Touched')
        /\ Len(log) \in Nat /\ BatchSize \in Nat \ {0}
    BY <1>4, CountsAreNumbers, NextCountsAreNumbers, CardSubset DEF Counts, DebtInv, Paid
  <1>7. PICK G : /\ Pending(r)' \subseteq Pending(r) \cup G
                 /\ IsFiniteSet(G) /\ Cardinality(G) = d
    <2>1. /\ IsFiniteSet({e}) /\ Cardinality({e}) = 1
          /\ IsFiniteSet({}) /\ Cardinality({}) = 0
      BY FS_Singleton, FS_EmptySet
    <2>2. CASE d = 0
      <3>1. Pending(r)' \subseteq Pending(r) \cup {}
        BY <1>3, <2>2
      <3> QED
        BY <2>1, <2>2, <3>1
    <2>3. CASE d = 1
      <3>1. Pending(r)' \subseteq Pending(r) \cup {e}
        BY <1>1, <1>3, <2>3
      <3> QED
        BY <2>1, <2>3, <3>1
    <2> QED
      BY <2>2, <2>3
  <1>8. /\ IsFiniteSet(InHand')
        /\ Cardinality(InHand) \in Nat /\ Cardinality(InHand') \in Nat
        /\ Cardinality(InHand') <= Cardinality(InHand) + d
    BY <1>3, <1>6, <1>7, HandGrows
  <1>9. Cardinality(InHand') + Cardinality(Loose') + Len(log') + Cardinality(Touched)
          <= Cardinality(InHand) + Cardinality(Loose) + Len(log) + Cardinality(Touched')
               + BatchSize * d
    <2>1. d <= BatchSize * d /\ BatchSize * d \in Nat
      <3>1. CASE d = 0
        BY <1>6, <3>1
      <3>2. CASE d = 1
        BY <1>6, <3>2
      <3> QED
        BY <3>1, <3>2
    <2> QED
      BY <1>1, <1>6, <1>8, <2>1
  <1>10. Paid'
    BY <1>2, <1>8, <1>9, StepIsPaid DEF DebtInv
  <1> QED
    BY <1>3, <1>5, <1>10 DEF DebtInv

\* The rows G that leave a hand pay for those of them that become loose and those
\* that nothing touches any more; what X adds, a fault pays for.
LEMMA DropBalances ==
  ASSUME NEW H, NEW H1, NEW L, NEW L1, NEW T, NEW T1, NEW G, NEW X, NEW d \in Nat,
         IsFiniteSet(L), IsFiniteSet(T1), IsFiniteSet(G), IsFiniteSet(X), Cardinality(X) <= d,
         Cardinality(H1) \in Nat, Cardinality(H) = Cardinality(H1) + Cardinality(G),
         L1 \subseteq (L \cup G) \cup X, T \subseteq T1 \cup (G \ L1)
  PROVE  Cardinality(H1) + Cardinality(L1) + Cardinality(T)
           <= Cardinality(H) + Cardinality(L) + Cardinality(T1) + d
  <1> DEFINE N == G \cap L1
             U == G \ L1
  <1>1. /\ IsFiniteSet(N) /\ IsFiniteSet(U)
        /\ Cardinality(N) \in Nat /\ Cardinality(U) \in Nat
        /\ Cardinality(G) = Cardinality(N) + Cardinality(U)
    <2>1. N \subseteq G /\ U = G \ N
      OBVIOUS
    <2> HIDE DEF N, U
    <2> QED
      BY <2>1, CardSplit
  <1>2. L1 \subseteq (L \cup N) \cup X /\ T \subseteq T1 \cup U
    OBVIOUS
  <1> HIDE DEF N, U
  <1>3. /\ Cardinality(L) \in Nat /\ Cardinality(X) \in Nat /\ Cardinality(T1) \in Nat
    BY FS_CardinalityType
  <1>4. /\ Cardinality(L1) \in Nat
        /\ Cardinality(L1) <= Cardinality(L) + Cardinality(N) + Cardinality(X)
    <2>1. /\ IsFiniteSet(L \cup N)
          /\ Cardinality(L \cup N) <= Cardinality(L) + Cardinality(N)
      BY <1>1, CardUnion
    <2>2. /\ IsFiniteSet((L \cup N) \cup X)
          /\ Cardinality((L \cup N) \cup X) <= Cardinality(L \cup N) + Cardinality(X)
      BY <2>1, CardUnion
    <2>3. /\ Cardinality(L1) <= Cardinality((L \cup N) \cup X)
          /\ Cardinality(L1) \in Nat /\ Cardinality((L \cup N) \cup X) \in Nat
      BY <1>2, <2>2, CardSubset
    <2>4. Cardinality(L \cup N) \in Nat
      BY <2>1, FS_CardinalityType
    <2> QED
      BY <1>1, <1>3, <2>1, <2>2, <2>3, <2>4
  <1>5. Cardinality(T) \in Nat /\ Cardinality(T) <= Cardinality(T1) + Cardinality(U)
    <2>1. /\ IsFiniteSet(T1 \cup U)
          /\ Cardinality(T1 \cup U) <= Cardinality(T1) + Cardinality(U)
      BY <1>1, CardUnion
    <2>2. /\ Cardinality(T) <= Cardinality(T1 \cup U)
          /\ Cardinality(T) \in Nat /\ Cardinality(T1 \cup U) \in Nat
      BY <1>2, <2>1, CardSubset
    <2> QED
      BY <1>1, <1>3, <2>1, <2>2
  <1> QED
    BY <1>1, <1>3, <1>4, <1>5

\* A batch is dropped: its rows are no longer in hand, and those that are neither
\* published nor dead are claimed for again.
LEMMA DropIsPaid ==
  ASSUME ClaimInv, ClaimInv', TruthInv, DebtInv, NEW r \in Relays, relay[r].pc # "idle",
         StopBatch(r), UNCHANGED log, Ids' = Ids,
         \A i \in Ids \ InBatch(r) : row'[i] = row[i] /\ (Claimed(i)' <=> Claimed(i)),
         \A n \in 1..Len(claims') : Cardinality(claims'[n]) <= BatchSize,
         NEW d \in {0, 1}, faults' = faults + d, relay[r].pc = "mark" => d = 1
  PROVE  DebtInv'
  <1> DEFINE G == Pending(r)
             X == InBatch(r) \ Pending(r)
  <1>1. /\ \A q \in Relays : Distinct(relay'[q].batch)
        /\ \A q \in Relays \ {r} : InBatch(q)' = InBatch(q) /\ Pending(q)' = Pending(q)
        /\ InBatch(r)' = {} /\ Pending(r)' = {}
    BY Moves DEF DebtInv
  <1>2. /\ IsFiniteSet(G) /\ G \subseteq InBatch(r) /\ InBatch(r) \subseteq Ids
        /\ G \subseteq Touched
    BY RelayRows DEF Touched
  <1>3. /\ IsFiniteSet(X) /\ Cardinality(X) \in Nat /\ Cardinality(X) <= d
        /\ \A i \in X : InLog(i)'
    <2>1. CASE relay[r].pc = "mark"
      <3>1. PICK e : e = Event(r)
        OBVIOUS
      <3>2. X \subseteq {e} /\ InLog(e) /\ d = 1
        BY <2>1, <3>1 DEF Pending, TruthInv, HandsAreClean
      <3>3. IsFiniteSet({e}) /\ Cardinality({e}) = 1
        BY FS_Singleton
      <3>4. \A i \in X : InLog(i)'
        BY <3>2 DEF InLog
      <3> HIDE DEF X
      <3>5. /\ IsFiniteSet(X) /\ Cardinality(X) \in Nat
            /\ Cardinality(X) <= Cardinality({e})
        BY <3>2, <3>3, CardSubset
      <3> QED
        BY <3>2, <3>3, <3>4, <3>5
    <2>2. CASE relay[r].pc # "mark"
      <3>1. X = {}
        BY <2>2 DEF Pending
      <3>2. IsFiniteSet({}) /\ Cardinality({}) = 0 /\ 0 <= d
        BY FS_EmptySet
      <3> HIDE DEF X
      <3> QED
        BY <3>1, <3>2
    <2> QED
      BY <2>1, <2>2
  <1>4. Loose' \subseteq (Loose \cup G) \cup X
    <2> SUFFICES ASSUME NEW i \in Loose', i \notin G, i \notin X PROVE i \in Loose
      OBVIOUS
    <2>1. i \in Ids \ InBatch(r)
      BY DEF Loose
    <2>2. row'[i] = row[i] /\ (Claimed(i)' <=> Claimed(i))
      BY <2>1
    <2>3. /\ row'[i].tx = "committed" /\ ~row'[i].published
          /\ ~(row'[i].attempts >= MaxAttempts)
          /\ Claimed(i)' => \A q \in Relays : i \notin InBatch(q)'
      BY DEF Loose, Visible, Dead
    <2>4. Claimed(i) => \A q \in Relays : i \notin InBatch(q)
      BY <1>1, <2>1, <2>2, <2>3
    <2> QED
      BY <2>1, <2>2, <2>3, <2>4 DEF Loose, Visible, Dead
  <1>5. Touched \subseteq Touched' \cup (G \ Loose')
    <2> SUFFICES ASSUME NEW i \in Touched, i \notin G \ Loose' PROVE i \in Touched'
      OBVIOUS
    <2>1. i \in Ids /\ (InLog(i) \/ i \in Loose \/ \E q \in Relays : i \in Pending(q))
      BY DEF Touched
    <2>2. CASE i \in G
      BY <2>1, <2>2 DEF Touched
    <2>3. CASE i \in X
      BY <1>3, <2>1, <2>3 DEF Touched
    <2>4. CASE i \notin InBatch(r)
      <3>1. row'[i] = row[i] /\ (Claimed(i)' <=> Claimed(i))
        BY <2>1, <2>4
      <3>2. i \in Loose => i \in Loose'
        <4>1. \A q \in Relays : i \in InBatch(q)' => i \in InBatch(q)
          BY <1>1
        <4> QED
          BY <3>1, <4>1 DEF Loose, Visible, Dead
      <3>3. \A q \in Relays : i \in Pending(q) => i \in Pending(q)'
        BY <1>1, <1>2, <2>4
      <3>4. InLog(i) => InLog(i)'
        BY DEF InLog
      <3> QED
        BY <2>1, <3>2, <3>3, <3>4 DEF Touched
    <2> QED
      BY <2>2, <2>3, <2>4
  <1> HIDE DEF X
  <1>6. /\ IsFiniteSet(InHand') /\ Cardinality(InHand') \in Nat /\ Cardinality(G) \in Nat
        /\ Cardinality(InHand) = Cardinality(InHand') + Cardinality(G)
    <2>1. IsFiniteSet(InHand) /\ G \subseteq Pending(r) /\ Pending(r)' = Pending(r) \ G
      BY <1>1 DEF DebtInv, Paid
    <2> HIDE DEF G
    <2> QED
      BY <1>1, <2>1, HandDrops
  <1> HIDE DEF G
  <1>7. /\ Cardinality(Loose) \in Nat /\ Cardinality(Loose') \in Nat
        /\ Cardinality(Touched) \in Nat /\ Cardinality(Touched') \in Nat
        /\ IsFiniteSet(Loose) /\ IsFiniteSet(Touched') /\ IsFiniteSet(G)
        /\ Len(log) \in Nat /\ BatchSize \in Nat \ {0} /\ d \in Nat
    BY <1>2, CountsAreNumbers, NextCountsAreNumbers DEF Counts, G
  <1>8. Cardinality(InHand') + Cardinality(Loose') + Cardinality(Touched)
          <= Cardinality(InHand) + Cardinality(Loose) + Cardinality(Touched') + d
    BY <1>3, <1>4, <1>5, <1>6, <1>7, DropBalances
  <1>9. d <= BatchSize * d /\ BatchSize * d \in Nat
    <2>1. CASE d = 0
      BY <1>7, <2>1
    <2>2. CASE d = 1
      BY <1>7, <2>2
    <2> QED
      BY <2>1, <2>2
  <1>10. Cardinality(InHand') + Cardinality(Loose') + Len(log') + Cardinality(Touched)
           <= Cardinality(InHand) + Cardinality(Loose) + Len(log) + Cardinality(Touched')
                + BatchSize * d
    <2> DEFINE before == Cardinality(InHand) + Cardinality(Loose) + Cardinality(Touched')
               after == Cardinality(InHand') + Cardinality(Loose') + Cardinality(Touched)
               paid == BatchSize * d
    <2>1. Len(log') = Len(log) /\ Cardinality(InHand) \in Nat
      BY <1>6
    <2>2. before \in Nat /\ after \in Nat /\ after <= before + d
      <3>1. before \in Nat /\ after \in Nat
        BY <1>6, <1>7, <2>1
      <3>2. after <= before + d
        BY <1>8
      <3> QED
        BY <3>1, <3>2
    <2>3. /\ Cardinality(InHand') + Cardinality(Loose') + Len(log') + Cardinality(Touched)
                = after + Len(log)
          /\ Cardinality(InHand) + Cardinality(Loose) + Len(log) + Cardinality(Touched') + paid
                = before + Len(log) + paid
      BY <1>6, <1>7, <1>9, <2>1
    <2>4. paid \in Nat /\ d <= paid
      BY <1>9
    <2> HIDE DEF before, after, paid
    <2>5. after + Len(log) <= before + Len(log) + paid
      BY <1>7, <2>2, <2>4
    <2> QED
      BY <2>3, <2>5 DEF paid
  <1>11. Paid'
    BY <1>6, <1>10, StepIsPaid DEF DebtInv
  <1> QED
    BY <1>1, <1>11 DEF DebtInv

\* A batch is claimed: its rows go from loose to one hand.
LEMMA ClaimIsPaid ==
  ASSUME ClaimInv, ClaimInv', DebtInv, NEW r \in Relays, Claim(r)
  PROVE  DebtInv'
  <1> DEFINE S == First(Eligible, BatchSize)
  <1>1. /\ relay[r].pc = "idle" /\ claims' = Append(claims, S)
        /\ UNCHANGED <<row, log, faults>>
    BY DEF Claim
  <1>2. PICK b \in Returned(S) : relay' = [relay EXCEPT ![r] = [pc |-> "send", batch |-> b]]
    BY DEF Claim
  <1>3. IsFiniteSet(Eligible) /\ Eligible \subseteq Nat
    <2>1. Eligible \subseteq Ids
      BY DEF Eligible
    <2> QED
      BY <2>1, RelayRows, CardSubset
  <1>4. /\ S \subseteq Eligible /\ S \subseteq Ids /\ S \subseteq Nat
        /\ IsFiniteSet(S) /\ Cardinality(S) \in Nat /\ Cardinality(S) <= BatchSize
    <2>1. S \subseteq Eligible /\ S \subseteq Ids
      BY DEF First, Eligible
    <2>2. IsFiniteSet(S) /\ Cardinality(S) <= BatchSize
      BY <1>3, FirstIsShort, RelayAssumption
    <2> HIDE DEF S
    <2> QED
      BY <1>3, <2>1, <2>2, FS_CardinalityType
  <1>5. S \subseteq Loose
    <2>1. S \subseteq Ids
      BY <1>4
    <2>2. \A i \in S : Visible(i) /\ ~row[i].published /\ ~Dead(i) /\ ~Claimed(i)
      BY <1>4 DEF Eligible
    <2> HIDE DEF S
    <2> QED
      BY <2>1, <2>2 DEF Loose
  <1> HIDE DEF S
  <1>6. Distinct(b) /\ Elements(b) = S
    BY <1>4, ReturnedIsOnto
  <1>7. /\ relay'[r].pc = "send" /\ relay'[r].batch = b
        /\ \A q \in Relays \ {r} : relay'[q] = relay[q]
    BY <1>2 DEF ClaimInv, TypeOK
  <1>8. /\ \A q \in Relays : Distinct(relay'[q].batch)
        /\ \A q \in Relays \ {r} : InBatch(q)' = InBatch(q) /\ Pending(q)' = Pending(q)
        /\ InBatch(r) = {} /\ Pending(r) = {} /\ InBatch(r)' = S /\ Pending(r)' = S
    <2>1. InBatch(r) = {} /\ Pending(r) = {}
      BY <1>1, RelayRows
    <2>2. \A q \in Relays \ {r} : InBatch(q)' = InBatch(q) /\ Pending(q)' = Pending(q)
      BY <1>7 DEF InBatch, Pending, Event
    <2>3. InBatch(r)' = S /\ Pending(r)' = S
      BY <1>6, <1>7 DEF InBatch, Pending
    <2> QED
      BY <1>6, <1>7, <2>1, <2>2, <2>3 DEF DebtInv
  <1>9. /\ \A i \in Ids : Claimed(i)' <=> Claimed(i) \/ i \in S
        /\ \A n \in 1..Len(claims') : Cardinality(claims'[n]) <= BatchSize
    <2>1. claims \in Seq((SUBSET Ids) \ {{}})
      BY TypedClaims
    <2>2. /\ Len(claims) \in Nat /\ Len(claims') = Len(claims) + 1
          /\ \A n \in 1..Len(claims) : claims'[n] = claims[n]
          /\ claims'[Len(claims) + 1] = S
      BY <1>1, <2>1
    <2>3. \A n \in 1..Len(claims') : n \in 1..Len(claims) \/ n = Len(claims) + 1
      BY <2>2
    <2>4. Len(claims) + 1 \in 1..Len(claims') /\ \A n \in 1..Len(claims) : n \in 1..Len(claims')
      BY <2>2
    <2>5. \A i \in Ids : Claimed(i)' <=> Claimed(i) \/ i \in S
      BY <2>2, <2>3, <2>4 DEF Claimed
    <2> QED
      BY <1>4, <2>2, <2>3, <2>5 DEF DebtInv
  <1>10. Ids' = Ids /\ Loose' = Loose \ S
    <2>1. Ids' = Ids
      BY <1>1 DEF Ids
    <2>2. ASSUME NEW i \in Ids PROVE i \in Loose' <=> i \in Loose \ S
      <3>1. (Visible(i)' <=> Visible(i)) /\ (Dead(i)' <=> Dead(i)) /\ row'[i] = row[i]
        BY <1>1 DEF Visible, Dead
      <3>2. CASE i \in S
        BY <1>8, <1>9, <3>2 DEF Loose
      <3>3. CASE i \notin S
        <4>1. (Claimed(i)' <=> Claimed(i)) /\ \A q \in Relays : i \in InBatch(q)' <=> i \in InBatch(q)
          BY <1>8, <1>9, <3>3
        <4> QED
          BY <2>1, <3>1, <3>3, <4>1 DEF Loose
      <3> QED
        BY <3>2, <3>3
    <2>3. Loose \subseteq Ids /\ Loose' \subseteq Ids
      BY <2>1 DEF Loose
    <2> QED
      BY <2>1, <2>2, <2>3
  <1>11. Touched \subseteq Touched'
    <2> SUFFICES ASSUME NEW i \in Touched PROVE i \in Touched'
      OBVIOUS
    <2>1. i \in Ids /\ (InLog(i) \/ i \in Loose \/ \E q \in Relays : i \in Pending(q))
      BY DEF Touched
    <2>2. InLog(i) => InLog(i)'
      BY <1>1 DEF InLog
    <2>3. \A q \in Relays : i \in Pending(q) => i \in Pending(q)'
      BY <1>8
    <2>4. i \in S => i \in Pending(r)'
      BY <1>8
    <2> QED
      BY <1>10, <2>1, <2>2, <2>3, <2>4 DEF Touched
  <1>12. /\ IsFiniteSet(InHand) /\ IsFiniteSet(Loose)
         /\ Cardinality(Touched) \in Nat /\ Cardinality(Touched') \in Nat
         /\ Cardinality(Touched) <= Cardinality(Touched')
         /\ Len(log) \in Nat /\ BatchSize \in Nat /\ faults \in Nat
    BY <1>11, CountsAreNumbers, NextCountsAreNumbers, CardSubset DEF Counts, DebtInv, Paid
  <1>13. /\ IsFiniteSet(InHand')
         /\ Cardinality(InHand) \in Nat /\ Cardinality(InHand') \in Nat
         /\ Cardinality(InHand') <= Cardinality(InHand) + Cardinality(S)
    <2>1. Pending(r)' \subseteq Pending(r) \cup S
      BY <1>8
    <2> QED
      BY <1>4, <1>8, <1>12, <2>1, HandGrows
  <1>14. /\ Cardinality(Loose') \in Nat
         /\ Cardinality(Loose) = Cardinality(S) + Cardinality(Loose')
    BY <1>5, <1>10, <1>12, CardSplit
  <1>15. Cardinality(InHand') + Cardinality(Loose') + Len(log') + Cardinality(Touched)
           <= Cardinality(InHand) + Cardinality(Loose) + Len(log) + Cardinality(Touched')
                + BatchSize * 0
    <2>1. Len(log') = Len(log) /\ BatchSize * 0 = 0
      BY <1>1, <1>12
    <2>2. Cardinality(InHand') + Cardinality(Loose') <= Cardinality(InHand) + Cardinality(Loose)
      BY <1>4, <1>13, <1>14
    <2>3. Cardinality(Loose) \in Nat
      BY <1>4, <1>14
    <2> QED
      BY <1>12, <1>13, <1>14, <2>1, <2>2, <2>3
  <1>16. faults' = faults + 0
    BY <1>1, <1>12
  <1>17. Paid'
    BY <1>13, <1>15, <1>16, StepIsPaid DEF DebtInv
  <1> QED
    BY <1>8, <1>9, <1>17 DEF DebtInv

\* The oldest claim times out: if nobody is at work on it, its rows were loose
\* already; if somebody is, they may be sent once more, which a fault pays for.
LEMMA ExpiryIsPaid ==
  ASSUME ClaimInv, ClaimInv', DebtInv, Expire \/ ExpireEarly
  PROVE  DebtInv'
  <1> DEFINE C == Head(claims)
  <1>1. claims # <<>> /\ claims' = Tail(claims) /\ UNCHANGED <<row, relay, log>>
    BY DEF Expire, ExpireEarly
  <1>2. /\ claims \in Seq((SUBSET Ids) \ {{}}) /\ Len(claims) \in Nat \ {0}
        /\ C = claims[1] /\ 1 \in 1..Len(claims)
        /\ \A n \in 1..Len(claims') : n + 1 \in 1..Len(claims) /\ claims'[n] = claims[n + 1]
        /\ Len(claims') = Len(claims) - 1
    <2>1. claims \in Seq((SUBSET Ids) \ {{}})
      BY TypedClaims
    <2>2. Len(claims) \in Nat \ {0}
      BY <1>1, <2>1, EmptySeq
    <2> QED
      BY <1>1, <2>1, <2>2, RestOfBatch, HeadTailProperties
  <1>3. /\ \A n \in 1..Len(claims') : Cardinality(claims'[n]) <= BatchSize
        /\ C \subseteq Ids /\ IsFiniteSet(C) /\ Cardinality(C) \in Nat
        /\ Cardinality(C) <= BatchSize
    <2>1. C \subseteq Ids /\ Cardinality(C) <= BatchSize
      BY <1>2 DEF DebtInv
    <2> HIDE DEF C
    <2>2. IsFiniteSet(C) /\ Cardinality(C) \in Nat
      BY <2>1, RelayRows, CardSubset
    <2> QED
      BY <1>2, <2>1, <2>2 DEF DebtInv
  <1>4. \A i \in Ids : Claimed(i) <=> Claimed(i)' \/ i \in C
    <2>1. ASSUME NEW n \in 1..Len(claims) PROVE n = 1 \/ (n - 1 \in 1..Len(claims') /\ claims'[n - 1] = claims[n])
      <3>1. n # 1 => n - 1 \in 1..Len(claims') /\ (n - 1) + 1 = n
        BY <1>2
      <3> QED
        BY <1>2, <3>1
    <2> QED
      BY <1>2, <2>1 DEF Claimed
  <1> HIDE DEF C
  <1>5. Ids' = Ids /\ \A q \in Relays : InBatch(q)' = InBatch(q) /\ Pending(q)' = Pending(q)
    BY <1>1 DEF Ids, InBatch, Pending, Event
  <1>6. ASSUME NEW i \in Ids
        PROVE  /\ i \in Loose => i \in Loose'
               /\ i \in Loose' /\ i \notin C => i \in Loose
               /\ i \in Loose' /\ (\A q \in Relays : i \notin InBatch(q)) => i \in Loose
    <2>1. (Visible(i)' <=> Visible(i)) /\ (Dead(i)' <=> Dead(i)) /\ row'[i] = row[i]
      BY <1>1 DEF Visible, Dead
    <2> QED
      BY <1>4, <1>5, <2>1 DEF Loose
  <1>7. Loose' \subseteq Ids /\ Loose \subseteq Ids
    BY <1>5 DEF Loose
  <1>8. Touched \subseteq Touched' /\ InHand' = InHand
    <2>1. InHand' = InHand
      BY <1>5 DEF InHand
    <2>2. \A i \in Ids : InLog(i)' <=> InLog(i)
      BY <1>1 DEF InLog
    <2> QED
      BY <1>5, <1>6, <2>1, <2>2 DEF Touched
  <1>9. /\ IsFiniteSet(InHand) /\ IsFiniteSet(Loose) /\ Cardinality(InHand) \in Nat
        /\ Cardinality(Loose) \in Nat /\ Cardinality(Loose') \in Nat
        /\ Cardinality(Touched) \in Nat /\ Cardinality(Touched') \in Nat
        /\ Cardinality(Touched) <= Cardinality(Touched')
        /\ Len(log) \in Nat /\ BatchSize \in Nat /\ faults \in Nat
    BY <1>8, CountsAreNumbers, NextCountsAreNumbers, CardSubset, FS_CardinalityType
    DEF Counts, DebtInv, Paid
  <1>10. PICK d \in {0, 1} : faults' = faults + d /\ Cardinality(Loose') <= Cardinality(Loose) + BatchSize * d
    <2>1. CASE Expire
      <3>1. ASSUME NEW i \in C, NEW q \in Relays PROVE i \notin InBatch(q)
        <4>1. ~Held(q)
          BY <2>1 DEF Expire
        <4>2. relay[q].batch = <<>> => InBatch(q) = {}
          BY RelayRows DEF ClaimInv, TypeOK
        <4> QED
          BY <4>1, <4>2 DEF Held, InBatch, Elements, C
      <3>2. Loose' = Loose
        BY <1>6, <1>7, <3>1
      <3>3. faults' = faults + 0 /\ Cardinality(Loose') <= Cardinality(Loose) + BatchSize * 0
        BY <1>9, <2>1, <3>2 DEF Expire
      <3> QED
        BY <3>3
    <2>2. CASE ExpireEarly
      <3>1. Loose' \subseteq Loose \cup C
        BY <1>6, <1>7
      <3>2. /\ IsFiniteSet(Loose \cup C)
            /\ Cardinality(Loose \cup C) <= Cardinality(Loose) + Cardinality(C)
        BY <1>3, <1>9, CardUnion
      <3>3. /\ Cardinality(Loose') <= Cardinality(Loose \cup C)
            /\ Cardinality(Loose \cup C) \in Nat
        BY <3>1, <3>2, CardSubset
      <3>4. Cardinality(Loose') <= Cardinality(Loose) + BatchSize
        BY <1>3, <1>9, <3>2, <3>3
      <3>5. faults' = faults + 1 /\ BatchSize * 1 = BatchSize
        BY <1>9, <2>2 DEF ExpireEarly, Fault
      <3> QED
        BY <3>4, <3>5
    <2> QED
      BY <2>1, <2>2
  <1>11. Cardinality(InHand') + Cardinality(Loose') + Len(log') + Cardinality(Touched)
           <= Cardinality(InHand) + Cardinality(Loose) + Len(log) + Cardinality(Touched')
                + BatchSize * d
    <2>1. BatchSize * d \in Nat
      BY <1>9
    <2>2. InHand' = InHand /\ Len(log') = Len(log)
      BY <1>1, <1>8
    <2> QED
      BY <1>9, <1>10, <2>1, <2>2
  <1>12. Paid'
    BY <1>8, <1>9, <1>10, <1>11, StepIsPaid DEF DebtInv
  <1> QED
    BY <1>1, <1>3, <1>12 DEF DebtInv

\* A row is inserted, or its transaction ends: a row that becomes visible is loose,
\* and was touched by nothing.
LEMMA TableIsPaid ==
  ASSUME ClaimInv, ClaimInv', TruthInv, DebtInv, UNCHANGED <<claims, relay, log, faults>>,
         Ids \subseteq Ids',
         \A i \in Ids : row[i].tx = "committed" => row'[i] = row[i]
  PROVE  DebtInv'
  <1>1. /\ \A q \in Relays : InBatch(q)' = InBatch(q) /\ Pending(q)' = Pending(q)
        /\ InHand' = InHand /\ faults' = faults + 0 /\ Len(log') = Len(log)
    <2>1. \A q \in Relays : InBatch(q)' = InBatch(q) /\ Pending(q)' = Pending(q)
      BY DEF InBatch, Pending, Event
    <2>2. faults' = faults + 0
      BY CountsAreNumbers DEF Counts
    <2> QED
      BY <2>1, <2>2 DEF InHand
  <1>2. ASSUME NEW i \in Ids, Visible(i)
        PROVE  (i \in Loose' <=> i \in Loose) /\ i \in Ids'
    <2>1. row'[i] = row[i] /\ (Claimed(i)' <=> Claimed(i))
      BY <1>2 DEF Visible, Claimed
    <2> QED
      BY <1>1, <2>1 DEF Loose, Visible, Dead
  <1>3. \A i \in Ids : i \in Loose => Visible(i)
    BY DEF Loose
  <1>4. Loose \subseteq Loose' /\ Loose \subseteq Ids
    BY <1>2, <1>3 DEF Loose
  <1>5. Touched \subseteq Touched'
    BY <1>1, <1>4 DEF Touched, InLog
  <1>6. ASSUME NEW i \in Touched PROVE i \in Ids /\ Visible(i)
    <2>1. i \in Ids /\ (InLog(i) \/ i \in Loose \/ \E q \in Relays : i \in Pending(q))
      BY DEF Touched
    <2>2. \A q \in Relays : \A j \in InBatch(q) : Visible(j)
      BY DEF TruthInv, HandsAreClean, InBatch, Elements
    <2>3. \A q \in Relays : i \in Pending(q) => Visible(i)
      BY <2>2, RelayRows
    <2>4. InLog(i) => Visible(i)
      BY <2>1 DEF TruthInv, OutboxIsTruthful, Visible
    <2> QED
      BY <1>3, <2>1, <2>3, <2>4
  <1> DEFINE New == Loose' \ Loose
  <1>7. Touched \cap New = {} /\ Touched \cup New \subseteq Touched'
    <2>1. Touched \cap New = {}
      BY <1>2, <1>6
    <2>2. New \subseteq Touched'
      BY DEF Touched, Loose
    <2> QED
      BY <1>5, <2>1, <2>2
  <1>8. /\ IsFiniteSet(Loose') /\ IsFiniteSet(Touched) /\ IsFiniteSet(Touched')
        /\ IsFiniteSet(InHand) /\ Cardinality(InHand) \in Nat
        /\ Cardinality(Loose) \in Nat /\ Cardinality(Loose') \in Nat
        /\ Cardinality(Touched) \in Nat /\ Cardinality(Touched') \in Nat
        /\ Len(log) \in Nat /\ BatchSize \in Nat
    BY CountsAreNumbers, NextCountsAreNumbers, FS_CardinalityType DEF Counts, DebtInv, Paid
  <1>9. /\ IsFiniteSet(New) /\ Cardinality(New) \in Nat
        /\ Cardinality(Loose') = Cardinality(Loose) + Cardinality(New)
    BY <1>4, <1>8, CardSplit
  <1>10. Cardinality(Touched) + Cardinality(New) <= Cardinality(Touched')
    <2> HIDE DEF New
    <2>1. Cardinality(Touched \cup New) = Cardinality(Touched) + Cardinality(New)
      BY <1>7, <1>8, <1>9, CardUnion
    <2>2. Cardinality(Touched \cup New) <= Cardinality(Touched')
      BY <1>7, <1>8, CardSubset
    <2> QED
      BY <2>1, <2>2
  <1> HIDE DEF New
  <1>11. Cardinality(InHand') + Cardinality(Loose') + Len(log') + Cardinality(Touched)
           <= Cardinality(InHand) + Cardinality(Loose) + Len(log) + Cardinality(Touched')
                + BatchSize * 0
    <2>1. InHand' = InHand /\ Len(log') = Len(log) /\ BatchSize * 0 = 0
      BY <1>1, <1>8
    <2> QED
      BY <1>8, <1>9, <1>10, <2>1
  <1>12. Paid'
    BY <1>1, <1>8, <1>11, StepIsPaid DEF DebtInv
  <1> QED
    BY <1>12 DEF DebtInv

LEMMA DebtInit == Init => DebtInv
  <1> SUFFICES ASSUME Init PROVE DebtInv
    OBVIOUS
  <1>1. /\ row = <<>> /\ claims = <<>> /\ log = <<>> /\ faults = 0 /\ Ids = {}
        /\ \A r \in Relays : relay[r].pc = "idle" /\ relay[r].batch = <<>>
    BY DEF Init, Ids
  <1>2. InHand = {} /\ Loose = {} /\ Touched = {}
    BY <1>1 DEF InHand, Pending, InBatch, Elements, Loose, Touched
  <1>3. IsFiniteSet({}) /\ Cardinality({}) = 0
    BY FS_EmptySet
  <1>4. Paid
    BY <1>1, <1>2, <1>3, RelayAssumption DEF Paid
  <1> QED
    BY <1>1, <1>4 DEF DebtInv, Distinct

LEMMA DebtStep ==
  TruthInv /\ ClaimInv /\ ClaimInv' /\ DebtInv /\ [Next]_vars => DebtInv'
  <1> SUFFICES ASSUME TruthInv, ClaimInv, ClaimInv', DebtInv, [Next]_vars PROVE DebtInv'
    OBVIOUS
  <1>t. row \in Seq(Row) /\ Len(row) \in Nat
    BY TypedClaims DEF ClaimInv, TypeOK
  <1>1. CASE UNCHANGED vars
    <2>1. UNCHANGED <<claims, relay, log, faults>> /\ row' = row /\ Ids' = Ids
      BY <1>1 DEF vars, Ids
    <2> QED
      BY <2>1, TableIsPaid
  <1>2. ASSUME NEW p \in Patents, NEW big \in Sizes, Insert(p, big) PROVE DebtInv'
    <2>1. UNCHANGED <<claims, relay, log, faults>> /\ \E new : row' = Append(row, new)
      BY <1>2 DEF Insert
    <2>2. Ids \subseteq Ids' /\ \A i \in Ids : row'[i] = row[i]
      BY <1>t, <2>1 DEF Ids
    <2> QED
      BY <2>1, <2>2, TableIsPaid
  <1>3. ASSUME NEW i \in Ids, NEW outcome \in {"committed", "aborted"}, End(i, outcome)
        PROVE  DebtInv'
    <2>1. /\ row[i].tx = "open" /\ UNCHANGED <<claims, relay, log, faults>>
          /\ row' = [row EXCEPT ![i] = [row[i] EXCEPT !.tx = outcome]]
      BY <1>3 DEF End
    <2>2. Ids' = Ids /\ \A j \in Ids : j # i => row'[j] = row[j]
      BY <1>t, <2>1 DEF Ids
    <2> QED
      BY <2>1, <2>2, TableIsPaid
  <1>4. CASE Expire \/ ExpireEarly
    BY <1>4, ExpiryIsPaid
  <1>5. ASSUME NEW r \in Relays,
               RelayStep(r) \/ SendFails(r) \/ MarkFails(r) \/ MarkFailedFails(r) \/ Crash(r)
        PROVE  DebtInv'
    <2>1. CASE Claim(r)
      BY <2>1, ClaimIsPaid
    <2>2. CASE Oversized(r) \/ Send(r) \/ SendFails(r)
      BY <2>2, SendIsPaid
    <2>3. CASE MarkPublished(r) \/ MarkFails(r)
      BY <2>3, MarkIsPaid
    <2>4. CASE MarkFailed(r)
      <3>1. PICK e : e = Event(r)
        OBVIOUS
      <3>2. /\ relay[r].pc = "fail" /\ StopBatch(r) /\ UNCHANGED <<log, faults>> /\ Unclaim(e)
            /\ row' = [row EXCEPT ![e] = [row[e] EXCEPT !.attempts = @ + 1]]
        BY <2>4, <3>1 DEF MarkFailed, At
      <3>3. e \in InBatch(r)
        BY <3>1, <3>2, RelayRows
      <3>4. /\ \A i \in Ids \ {e} : Claimed(i)' <=> Claimed(i)
            /\ \A n \in 1..Len(claims') : Cardinality(claims'[n]) <= BatchSize
        BY <3>2, OthersStayClaimed DEF DebtInv
      <3>5. Ids' = Ids /\ \A i \in Ids : i # e => row'[i] = row[i]
        BY <1>t, <3>2 DEF Ids
      <3>6. faults' = faults + 0 /\ 0 \in {0, 1}
        BY <3>2, CountsAreNumbers DEF Counts
      <3>7. \A i \in Ids \ InBatch(r) : row'[i] = row[i] /\ (Claimed(i)' <=> Claimed(i))
        BY <3>3, <3>4, <3>5
      <3> QED
        BY <3>2, <3>4, <3>5, <3>6, <3>7, DropIsPaid
    <2>5. CASE MarkFailedFails(r) \/ Crash(r)
      <3>1. /\ relay[r].pc # "idle" /\ StopBatch(r) /\ UNCHANGED <<row, claims, log>>
            /\ faults' = faults + 1
        BY <2>5 DEF MarkFailedFails, Crash, At, Fault
      <3>2. /\ Ids' = Ids
            /\ \A i \in Ids \ InBatch(r) : row'[i] = row[i] /\ (Claimed(i)' <=> Claimed(i))
            /\ \A n \in 1..Len(claims') : Cardinality(claims'[n]) <= BatchSize
        BY <3>1 DEF Ids, Claimed, DebtInv
      <3> QED
        BY <3>1, <3>2, DropIsPaid
    <2> QED
      BY <1>5, <2>1, <2>2, <2>3, <2>4, <2>5 DEF RelayStep
  <1> QED
    BY <1>1, <1>2, <1>3, <1>4, <1>5 DEF Next

\* Each row that was touched has one send for nothing, so the sends beyond the first
\* are paid for by faults.
LEMMA PaidIsBounded == ClaimInv /\ DebtInv => DuplicatesAreBounded
  <1> SUFFICES ASSUME ClaimInv, DebtInv PROVE DuplicatesAreBounded
    OBVIOUS
  <1> DEFINE Sent == {i \in Ids : InLog(i)}
             Handed == {i \in Ids : \E r \in Relays : i \in Pending(r)}
             holder(i) == CHOOSE r \in Relays : i \in Pending(r)
             f == [i \in Handed |-> <<holder(i), i>>]
  <1>1. /\ IsFiniteSet(InHand) /\ Cardinality(InHand) \in Nat
        /\ IsFiniteSet(Loose) /\ Cardinality(Loose) \in Nat
        /\ IsFiniteSet(Touched) /\ Cardinality(Touched) \in Nat
        /\ Len(log) \in Nat /\ faults \in Nat /\ BatchSize \in Nat
        /\ Cardinality(InHand) + Cardinality(Loose) + Len(log)
              <= Cardinality(Touched) + BatchSize * faults
    BY CountsAreNumbers, FS_CardinalityType DEF Counts, DebtInv, Paid
  <1>2. IsFiniteSet(Sent) /\ IsFiniteSet(Handed)
    <2>1. Sent \subseteq Ids /\ Handed \subseteq Ids
      OBVIOUS
    <2> HIDE DEF Sent, Handed
    <2> QED
      BY <2>1, RelayRows, CardSubset
  <1>3. f \in Injection(Handed, InHand)
    <2>1. \A i \in Handed : holder(i) \in Relays /\ i \in Pending(holder(i)) /\ i \in Nat
      BY RelayRows
    <2> HIDE DEF holder, Handed
    <2>2. f \in [Handed -> InHand]
      BY <2>1 DEF InHand
    <2>3. \A i, j \in Handed : f[i] = f[j] => i = j
      OBVIOUS
    <2> QED
      BY <2>2, <2>3 DEF Injection, IsInjective
  <1>4. Touched \subseteq (Sent \cup Loose) \cup Handed
    BY DEF Touched
  <1> HIDE DEF Sent, Handed, f
  <1>5. Cardinality(Handed) <= Cardinality(InHand) /\ Cardinality(Handed) \in Nat
    BY <1>1, <1>2, <1>3, FS_Injection, FS_CardinalityType
  <1>6. /\ IsFiniteSet(Sent \cup Loose) /\ Cardinality(Sent) \in Nat
        /\ Cardinality(Sent \cup Loose) \in Nat
        /\ Cardinality(Sent \cup Loose) <= Cardinality(Sent) + Cardinality(Loose)
    BY <1>1, <1>2, CardUnion, FS_CardinalityType
  <1>7. /\ IsFiniteSet((Sent \cup Loose) \cup Handed)
        /\ Cardinality((Sent \cup Loose) \cup Handed)
              <= Cardinality(Sent \cup Loose) + Cardinality(Handed)
    BY <1>2, <1>6, CardUnion
  <1>8. /\ Cardinality((Sent \cup Loose) \cup Handed) \in Nat
        /\ Cardinality(Touched) <= Cardinality((Sent \cup Loose) \cup Handed)
    BY <1>4, <1>7, CardSubset
  <1>9. Cardinality(Touched) <= Cardinality(Sent) + Cardinality(Loose) + Cardinality(InHand)
    BY <1>1, <1>5, <1>6, <1>7, <1>8
  <1>10. BatchSize * faults \in Nat
    BY <1>1
  <1>11. Len(log) <= Cardinality(Sent) + BatchSize * faults
    BY <1>1, <1>6, <1>9, <1>10
  <1> QED
    BY <1>11 DEF DuplicatesAreBounded, Sent

\* However many relays poll, whatever is lost and whichever claim expires under a
\* relay at work: each fault makes at most one batch go out again, and nothing else
\* is ever sent twice (claimBatch, publishBatch).
THEOREM DuplicatesStayBounded == Spec => []DuplicatesAreBounded
  <1>1. Init => TruthInv /\ ClaimInv /\ DebtInv
    BY TruthInit, ClaimInit, DebtInit
  <1>2. TruthInv /\ ClaimInv /\ DebtInv /\ [Next]_vars => (TruthInv /\ ClaimInv /\ DebtInv)'
    BY TruthStep, ClaimStep, DebtStep
  <1>3. TruthInv /\ ClaimInv /\ DebtInv => DuplicatesAreBounded
    BY PaidIsBounded
  <1> QED
    BY <1>1, <1>2, <1>3, PTL DEF Spec
-----------------------------------------------------------------------------
(* What the consumer's projection holds *)

\* A set of numbers has a least one.
LEMMA Least ==
  ASSUME NEW S, S \subseteq Nat, S # {}
  PROVE  \E k \in S : \A j \in S : k <= j
  <1> DEFINE less == OpToRel(<, Nat)
  <1>1. PICK k \in S : \A j \in S : ~(<<j, k>> \in less)
    <2>1. IsWellFoundedOn(less, Nat)
      BY NatLessThanWellFounded
    <2> HIDE DEF less
    <2> QED
      BY <2>1, WFMin
  <1>2. less = {x \in Nat \X Nat : x[1] < x[2]}
    BY DEF OpToRel
  <1> HIDE DEF less
  <1>3. \A j \in S : j \in Nat /\ k \in Nat /\ ~(j < k)
    BY <1>1, <1>2
  <1> QED
    BY <1>3

\* The projection as it grows over the first k messages.
Grows(g, messages, k) ==
    g = [n \in 0..k |-> IF n = 0 THEN Unseen ELSE Apply(g[n - 1], messages[n])]

LEMMA GrowthExists ==
  ASSUME NEW messages, Len(messages) \in Nat
  PROVE  \E g : Grows(g, messages, Len(messages))
  <1> DEFINE L == Len(messages)
             Bad == {k \in 0..L : ~\E g : Grows(g, messages, k)}
  <1> SUFFICES ASSUME Bad # {} PROVE FALSE
    <2> L \in 0..L
      OBVIOUS
    <2> QED
      OBVIOUS
  <1>1. PICK k \in Bad : \A j \in Bad : k <= j
    <2>1. Bad \subseteq Nat
      OBVIOUS
    <2> HIDE DEF Bad
    <2> QED
      BY <2>1, Least
  <1>2. CASE k = 0
    <2> DEFINE g == [n \in 0..0 |-> Unseen]
    <2>1. g = [n \in 0..0 |-> IF n = 0 THEN Unseen ELSE Apply(g[n - 1], messages[n])]
      OBVIOUS
    <2>2. Grows(g, messages, 0)
      BY <2>1 DEF Grows
    <2> QED
      BY <1>2, <2>2
  <1>3. CASE k # 0
    <2>1. k \in Nat \ {0} /\ k \in 0..L /\ k - 1 \in 0..L /\ k - 1 \notin Bad
      BY <1>1, <1>3
    <2>2. PICK g : Grows(g, messages, k - 1)
      BY <2>1
    <2> DEFINE h == [n \in 0..k |-> IF n = k THEN Apply(g[k - 1], messages[k]) ELSE g[n]]
               step(n) == IF n = 0 THEN Unseen ELSE Apply(h[n - 1], messages[n])
    <2>3. \A n \in 0..(k - 1) : h[n] = g[n]
      BY <2>1
    <2>4. \A n \in 0..(k - 1) : g[n] = IF n = 0 THEN Unseen ELSE Apply(g[n - 1], messages[n])
      BY <2>2 DEF Grows
    <2>5. ASSUME NEW n \in 0..k PROVE h[n] = step(n)
      <3>1. CASE n = k
        <4>1. h[n] = Apply(g[k - 1], messages[k]) /\ h[k - 1] = g[k - 1]
          BY <2>1, <2>3, <3>1
        <4> HIDE DEF h
        <4> QED
          BY <2>1, <3>1, <4>1
      <3>2. CASE n # k /\ n # 0
        <4>1. n \in 0..(k - 1) /\ n - 1 \in 0..(k - 1)
          BY <2>1, <3>2
        <4>2. h[n] = g[n] /\ h[n - 1] = g[n - 1] /\ g[n] = Apply(g[n - 1], messages[n])
          BY <2>3, <2>4, <3>2, <4>1
        <4> HIDE DEF h
        <4> QED
          BY <3>2, <4>2
      <3>3. CASE n = 0
        <4>1. n \in 0..(k - 1)
          BY <2>1, <3>3
        <4>2. h[n] = Unseen
          BY <2>3, <2>4, <3>3, <4>1
        <4> HIDE DEF h
        <4> QED
          BY <3>3, <4>2
      <3> QED
        BY <3>1, <3>2, <3>3
    <2>6. h = [n \in 0..k |-> h[n]]
      OBVIOUS
    <2> HIDE DEF h
    <2>7. h = [n \in 0..k |-> IF n = 0 THEN Unseen ELSE Apply(h[n - 1], messages[n])]
      BY <2>5, <2>6
    <2>8. Grows(h, messages, k)
      BY <2>7 DEF Grows
    <2> QED
      BY <2>8
  <1> QED
    BY <1>2, <1>3

LEMMA IndexGrows ==
  ASSUME NEW messages, Len(messages) \in Nat
  PROVE  \E g : Grows(g, messages, Len(messages)) /\ IndexAfter(messages) = g[Len(messages)]
  <1> DEFINE index[n \in 0..Len(messages)] ==
               IF n = 0 THEN Unseen ELSE Apply(index[n - 1], messages[n])
  <1>1. IndexAfter(messages) = index[Len(messages)]
    BY DEF IndexAfter
  <1>2. \E g : g = [n \in 0..Len(messages) |->
                      IF n = 0 THEN Unseen ELSE Apply(g[n - 1], messages[n])]
    BY GrowthExists DEF Grows
  <1>3. index = [n \in 0..Len(messages) |->
                   IF n = 0 THEN Unseen ELSE Apply(index[n - 1], messages[n])]
    BY <1>2
  <1> HIDE DEF index
  <1>4. Grows(index, messages, Len(messages))
    BY <1>3 DEF Grows
  <1> QED
    BY <1>1, <1>4

\* After any messages the projection is at the highest of them about each patent.
HighestOf(at, messages, k) ==
    /\ at \in [Patents -> Nat]
    /\ \A p \in Patents :
          /\ \A j \in 1..k : row[messages[j]].patent = p => messages[j] <= at[p]
          /\ at[p] = 0 \/ \E j \in 1..k : row[messages[j]].patent = p /\ messages[j] = at[p]

LEMMA ApplyRaises ==
  ASSUME row \in Seq(Row), NEW messages \in Seq(Ids), NEW k \in 1..Len(messages),
         NEW at, HighestOf(at, messages, k - 1)
  PROVE  HighestOf(Apply(at, messages[k]), messages, k)
  <1> DEFINE i == messages[k]
             q == row[i].patent
             new == Apply(at, i)
  <1>1. i \in Ids /\ i \in Nat /\ q \in Patents /\ Len(messages) \in Nat
    <2>1. i \in Ids /\ Len(messages) \in Nat
      OBVIOUS
    <2>2. i \in Nat /\ row[i] \in Row
      BY <2>1 DEF Ids
    <2> QED
      BY <2>1, <2>2 DEF Row
  <1>2. \A j \in 1..k : messages[j] \in Nat /\ (j \in 1..(k - 1) \/ j = k)
    BY <1>1 DEF Ids
  <1>3. at \in [Patents -> Nat]
    BY DEF HighestOf
  <1>4. new \in [Patents -> Nat] /\ new[q] = (IF i >= at[q] THEN i ELSE at[q])
        /\ \A p \in Patents \ {q} : new[p] = at[p]
    BY <1>1, <1>3 DEF Apply, Accepts
  <1> HIDE DEF new
  <1>5. ASSUME NEW p \in Patents, NEW j \in 1..k, row[messages[j]].patent = p
        PROVE  messages[j] <= new[p]
    <2>1. CASE j = k
      <3>1. p = q /\ messages[j] = i /\ at[q] \in Nat
        BY <1>1, <1>3, <1>5, <2>1
      <3> HIDE DEF i, q
      <3> QED
        BY <1>1, <1>4, <3>1
    <2>2. CASE j \in 1..(k - 1)
      <3>1. messages[j] <= at[p] /\ at[p] \in Nat /\ messages[j] \in Nat
        BY <1>2, <1>3, <1>5, <2>2 DEF HighestOf
      <3>2. at[p] <= new[p]
        <4> HIDE DEF i, q
        <4>1. CASE p = q
          <5> DEFINE old == at[q]
          <5>1. old \in Nat /\ new[q] = IF i >= old THEN i ELSE old
            BY <1>1, <1>3, <1>4
          <5> HIDE DEF old
          <5>2. old <= new[q]
            BY <1>1, <5>1
          <5> QED
            BY <4>1, <5>2 DEF old
        <4>2. CASE p # q
          BY <1>4, <3>1, <4>2
        <4> QED
          BY <4>1, <4>2
      <3>3. new[p] \in Nat
        BY <1>4
      <3> QED
        BY <3>1, <3>2, <3>3
    <2> QED
      BY <1>2, <2>1, <2>2
  <1>6. ASSUME NEW p \in Patents
        PROVE  new[p] = 0 \/ \E j \in 1..k : row[messages[j]].patent = p /\ messages[j] = new[p]
    <2>1. CASE new[p] = at[p]
      <3>1. at[p] = 0 \/ \E j \in 1..(k - 1) : row[messages[j]].patent = p /\ messages[j] = at[p]
        BY DEF HighestOf
      <3>2. \A j \in 1..(k - 1) : j \in 1..k
        BY <1>1
      <3> QED
        BY <2>1, <3>1, <3>2
    <2>2. CASE new[p] # at[p]
      <3>1. p = q /\ new[p] = i /\ k \in 1..k
        <4>1. k \in 1..k
          BY <1>1
        <4> HIDE DEF i, q
        <4> QED
          BY <1>4, <2>2, <4>1
      <3> QED
        BY <3>1
    <2> QED
      BY <2>1, <2>2
  <1> QED
    BY <1>4, <1>5, <1>6 DEF HighestOf, new

LEMMA IndexIsHighest ==
  ASSUME row \in Seq(Row), NEW messages \in Seq(Ids)
  PROVE  HighestOf(IndexAfter(messages), messages, Len(messages))
  <1> DEFINE L == Len(messages)
  <1>1. L \in Nat
    OBVIOUS
  <1>2. PICK g : Grows(g, messages, L) /\ IndexAfter(messages) = g[L]
    BY <1>1, IndexGrows
  <1>3. \A n \in 0..L : g[n] = IF n = 0 THEN Unseen ELSE Apply(g[n - 1], messages[n])
    BY <1>2 DEF Grows
  <1> DEFINE Bad == {k \in 0..L : ~HighestOf(g[k], messages, k)}
  <1> SUFFICES ASSUME Bad # {} PROVE FALSE
    <2> L \in 0..L
      BY <1>1
    <2> QED
      BY <1>2
  <1>4. PICK k \in Bad : \A j \in Bad : k <= j
    <2>1. Bad \subseteq Nat
      BY <1>1
    <2> HIDE DEF Bad
    <2> QED
      BY <2>1, Least
  <1>5. CASE k = 0
    <2>1. g[0] = Unseen
      BY <1>1, <1>3
    <2>2. HighestOf(Unseen, messages, 0)
      BY DEF HighestOf, Unseen
    <2> QED
      BY <1>4, <1>5, <2>1, <2>2
  <1>6. CASE k # 0
    <2>1. k \in 1..L /\ k - 1 \in 0..L /\ k - 1 \notin Bad
      BY <1>1, <1>4, <1>6
    <2>2. HighestOf(g[k - 1], messages, k - 1)
      BY <2>1
    <2>3. HighestOf(Apply(g[k - 1], messages[k]), messages, k)
      BY <2>1, <2>2, ApplyRaises
    <2>4. g[k] = Apply(g[k - 1], messages[k])
      BY <1>3, <1>6, <2>1
    <2> QED
      BY <1>4, <2>3, <2>4
  <1> QED
    BY <1>5, <1>6

\* A consumer that restarts from an offset it had read past misses nothing.
LEMMA ReadingsAreWhole ==
  ASSUME log \in Seq(Ids), NEW messages \in Readings
  PROVE  /\ messages \in Seq(Ids)
         /\ \A i : InLog(i) <=> \E j \in 1..Len(messages) : messages[j] = i
  <1> DEFINE L == Len(log)
  <1>1. L \in Nat /\ \A j \in 1..L : log[j] \in Ids
    OBVIOUS
  <1>2. PICK n \in 0..L, m \in 0..L :
           m <= n /\ messages = SubSeq(log, 1, n) \o SubSeq(log, m + 1, L)
    <2>1. PICK n \in 0..L : messages \in {SubSeq(log, 1, n) \o SubSeq(log, m + 1, L) : m \in 0..n}
      BY DEF Readings
    <2>2. \A m \in 0..n : m \in 0..L /\ m <= n
      BY <1>1
    <2> QED
      BY <2>1, <2>2
  <1> DEFINE a == SubSeq(log, 1, n)
             b == SubSeq(log, m + 1, L)
  <1>3. a \in Seq(Ids) /\ Len(a) = n /\ \A j \in 1..n : a[j] = log[j]
    <2>1. \A j \in 1..n : log[j] \in Ids
      BY <1>1
    <2>2. /\ SubSeq(log, 1, n) \in Seq(Ids)
          /\ Len(SubSeq(log, 1, n)) = IF 1 <= n THEN n - 1 + 1 ELSE 0
          /\ \A j \in 1..(n - 1 + 1) : SubSeq(log, 1, n)[j] = log[1 + j - 1]
      BY <1>1, <2>1, SubSeqProperties
    <2>3. n - 1 + 1 = n /\ \A j \in 1..n : 1 + j - 1 = j
      BY <1>1
    <2> QED
      BY <1>1, <2>2, <2>3
  <1>4. b \in Seq(Ids) /\ Len(b) = L - m /\ \A j \in 1..(L - m) : b[j] = log[m + j]
    <2>1. \A j \in (m + 1)..L : log[j] \in Ids
      BY <1>1
    <2>2. /\ SubSeq(log, m + 1, L) \in Seq(Ids)
          /\ Len(SubSeq(log, m + 1, L)) = IF m + 1 <= L THEN L - (m + 1) + 1 ELSE 0
          /\ \A j \in 1..(L - (m + 1) + 1) : SubSeq(log, m + 1, L)[j] = log[m + 1 + j - 1]
      BY <1>1, <2>1, SubSeqProperties
    <2>3. /\ L - (m + 1) + 1 = L - m /\ \A j \in 1..(L - m) : m + 1 + j - 1 = m + j
          /\ (IF m + 1 <= L THEN L - m ELSE 0) = L - m
      BY <1>1
    <2> HIDE DEF L
    <2>4. b \in Seq(Ids) /\ Len(b) = L - m
      BY <2>2, <2>3 DEF b
    <2>5. ASSUME NEW j \in 1..(L - m) PROVE b[j] = log[m + j]
      BY <2>2, <2>3 DEF b
    <2> QED
      BY <2>4, <2>5
  <1> HIDE DEF a, b
  <1>5. /\ messages \in Seq(Ids) /\ Len(messages) = n + (L - m)
        /\ \A j \in 1..(n + (L - m)) : messages[j] = IF j <= n THEN a[j] ELSE b[j - n]
    <2>1. messages = a \o b
      BY <1>2 DEF a, b
    <2>2. /\ a \o b \in Seq(Ids)
          /\ Len(a \o b) = Len(a) + Len(b)
          /\ \A j \in 1..(Len(a) + Len(b)) :
                (a \o b)[j] = IF j <= Len(a) THEN a[j] ELSE b[j - Len(a)]
      BY <1>3, <1>4, ConcatProperties
    <2> QED
      BY <1>3, <1>4, <2>1, <2>2
  <1>6. ASSUME NEW i, InLog(i) PROVE \E j \in 1..Len(messages) : messages[j] = i
    <2>1. PICK x \in 1..L : log[x] = i
      BY <1>6 DEF InLog
    <2>2. CASE x <= n
      <3>1. x \in 1..(n + (L - m)) /\ x \in 1..n
        BY <1>1, <2>1, <2>2
      <3> QED
        BY <1>3, <1>5, <2>1, <2>2, <3>1
    <2>3. CASE x > n
      <3>1. /\ x - m \in 1..(L - m) /\ n + (x - m) \in 1..(n + (L - m))
            /\ ~(n + (x - m) <= n) /\ (n + (x - m)) - n = x - m /\ m + (x - m) = x
        BY <1>1, <1>2, <2>1, <2>3
      <3> QED
        BY <1>4, <1>5, <2>1, <3>1
    <2> QED
      BY <1>1, <2>1, <2>2, <2>3
  <1>7. ASSUME NEW j \in 1..Len(messages) PROVE \E x \in 1..L : log[x] = messages[j]
    <2>1. CASE j <= n
      <3>1. j \in 1..n /\ j \in 1..L
        BY <1>1, <1>5, <2>1
      <3> QED
        BY <1>3, <1>5, <2>1, <3>1
    <2>2. CASE j > n
      <3>1. j - n \in 1..(L - m) /\ m + (j - n) \in 1..L /\ ~(j <= n)
        BY <1>1, <1>5, <2>2
      <3> QED
        BY <1>4, <1>5, <3>1
    <2> QED
      BY <1>1, <1>5, <2>1, <2>2
  <1> QED
    BY <1>5, <1>6, <1>7 DEF InLog

\* Whoever reads the whole topic, in whatever order it came and however often, and
\* ignores what is below what it applied, ends up at the last committed event about
\* each patent ("Consuming these events" in the README).
THEOREM IndexCatchesUp == Spec => []IndexAgrees
  <1>1. TruthInv => IndexAgrees
    <2> SUFFICES ASSUME TruthInv, \A i \in Ids : Visible(i) => InLog(i),
                        NEW messages \in Readings, NEW p \in Patents, NEW i \in Latest(p)
                 PROVE  IndexAfter(messages)[p] = i
      BY DEF IndexAgrees
    <2> DEFINE at == IndexAfter(messages)[p]
    <2>1. row \in Seq(Row) /\ log \in Seq(Ids) /\ Len(row) \in Nat
      BY DEF TruthInv, Typed
    <2>2. /\ messages \in Seq(Ids)
          /\ \A j : InLog(j) <=> \E n \in 1..Len(messages) : messages[n] = j
      BY <2>1, ReadingsAreWhole
    <2>3. HighestOf(IndexAfter(messages), messages, Len(messages))
      BY <2>1, <2>2, IndexIsHighest
    <2>4. /\ i \in Ids /\ row[i].patent = p /\ Visible(i)
          /\ \A j \in Ids : row[j].patent = p /\ Visible(j) => j <= i
      BY DEF Latest
    <2>5. i <= at
      BY <2>2, <2>3, <2>4 DEF HighestOf
    <2>6. at \in Nat /\ i \in Nat \ {0}
      BY <2>1, <2>3, <2>4 DEF HighestOf, Ids
    <2>7. PICK n \in 1..Len(messages) : row[messages[n]].patent = p /\ messages[n] = at
      BY <2>3, <2>5, <2>6 DEF HighestOf
    <2>8. at \in Ids /\ InLog(at) /\ row[at].patent = p
      BY <2>2, <2>7
    <2>9. Visible(at)
      BY <2>8 DEF TruthInv, OutboxIsTruthful, Visible
    <2> HIDE DEF at
    <2>10. at <= i
      BY <2>4, <2>8, <2>9
    <2>11. at = i
      BY <2>5, <2>6, <2>10
    <2> QED
      BY <2>11 DEF at
  <1> QED
    BY <1>1, TruthInit, TruthStep, PTL DEF Spec


=============================================================================
