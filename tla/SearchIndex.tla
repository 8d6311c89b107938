----------------------------- MODULE SearchIndex -----------------------------
(***************************************************************************)
(* The consumer at the other end of the topic: the Search Service, which   *)
(* is not in this repository, following the rule its documents give the    *)
(* consumers of patent events.  Its projection is a function of the        *)
(* messages it read, so it needs no variables of its own.                  *)
(***************************************************************************)
EXTENDS OutboxRelay

\* The projection is known by the last event applied to each patent; 0 is none.
Unseen == [p \in Patents |-> 0]

\* Mutant: whatever arrives is applied.
AcceptsAll(last, i) == TRUE

\* Ignore an event below the last one applied to that patent.
Accepts(last, i) == i >= last

Apply(index, i) ==
    IF Accepts(index[row[i].patent], i) THEN [index EXCEPT ![row[i].patent] = i] ELSE index

\* What the projection holds once the messages have been read in order.
IndexAfter(messages) ==
    LET index[n \in 0..Len(messages)] ==
            IF n = 0 THEN Unseen ELSE Apply(index[n - 1], messages[n])
    IN  index[Len(messages)]

\* The whole topic, read by a consumer that died after message n with offset m
\* committed and began again from there.
Readings ==
    UNION {{SubSeq(log, 1, n) \o SubSeq(log, m + 1, Len(log)) : m \in 0..n} : n \in 0..Len(log)}

-----------------------------------------------------------------------------
(* Properties *)

Latest(p) == {i \in Ids : /\ row[i].patent = p /\ Visible(i)
                          /\ \A j \in Ids : row[j].patent = p /\ Visible(j) => j <= i}

\* Once everything committed is on the topic, a consumer that has read it shows
\* every patent as its last committed event left it, whatever was duplicated,
\* reordered or redelivered on the way (README, "Consuming these events").
IndexAgrees ==
    (\A i \in Ids : Visible(i) => InLog(i)) =>
        \A messages \in Readings, p \in Patents : \A i \in Latest(p) :
            IndexAfter(messages)[p] = i

=============================================================================
