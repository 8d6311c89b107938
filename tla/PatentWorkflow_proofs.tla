------------------------ MODULE PatentWorkflow_proofs ------------------------
(***************************************************************************)
(* Proofs about PatentWorkflow, for any sessions, users, keys, texts and   *)
(* bounds.                                                                 *)
(***************************************************************************)
EXTENDS PatentWorkflow, TLAPS

\* A request in flight names an existing id unless it is a create, and a key
\* whenever a step uses one: the arguments that the steps hand each other.
RequestOK ==
    \A s \in Sessions :
        /\ req[s].op = "none" <=> req[s].pc = "idle"
        /\ req[s].op \notin {"none", "create"} => req[s].id \in Ids
        /\ req[s].op = "create" => req[s].content \in Contents /\ req[s].key \in Keys

TypeInv == TypeOK /\ RequestOK

\* The columns and fields alone.
Typed ==
    /\ patent \in [Ids -> Row]
    /\ nextId \in 1..(MaxPatents + 1)
    /\ object \in [Keys -> {"none", "ok", "big", "gone"}]
    /\ reviews \in Seq(Review)
    /\ outbox \in Seq(Event)
    /\ req \in [Sessions -> Request]
    /\ RequestOK

Complete ==
    \A p \in Ids : Exists(p) =>
        patent[p].content \in Contents /\ patent[p].documentKey \in Keys

LEMMA NoRowType == NoRow \in Row
  BY DEF NoRow, Row, Statuses

LEMMA NoRequestType == NoRequest \in Request
  BY NoRowType DEF NoRequest, Request, Ops, Statuses

LEMMA TypeInit == Init => TypeInv
  <1> SUFFICES ASSUME Init PROVE TypeInv
    OBVIOUS
  <1> USE DEF Init
  <1>1. patent \in [Ids -> Row]
    BY NoRowType
  <1>2. nextId \in 1..(MaxPatents + 1)
    BY BoundsAssumption
  <1>3. object \in [Keys -> {"none", "ok", "big", "gone"}]
    OBVIOUS
  <1>4. reviews \in Seq(Review) /\ outbox \in Seq(Event)
    OBVIOUS
  <1>5. req \in [Sessions -> Request]
    BY NoRequestType
  <1>6. RequestOK
    BY DEF RequestOK, NoRequest
  <1>7. \A p \in Ids : ~Exists(p)
    BY DEF Exists, NoRow
  <1> QED
    BY <1>1, <1>2, <1>3, <1>4, <1>5, <1>6, <1>7 DEF TypeInv, TypeOK

\* Replacing one session's request by a well-formed one keeps requests
\* well-formed.
LEMMA RequestStep ==
  ASSUME TypeInv, NEW s \in Sessions, NEW r \in Request,
         r.op = "none" <=> r.pc = "idle",
         r.op \notin {"none", "create"} => r.id \in Ids,
         r.op = "create" => r.content \in Contents /\ r.key \in Keys,
         req' = [req EXCEPT ![s] = r]
  PROVE  req' \in [Sessions -> Request] /\ RequestOK'
  BY DEF TypeInv, TypeOK, RequestOK

LEMMA FinishStep ==
  ASSUME TypeInv, NEW s \in Sessions, Finish(s)
  PROVE  req' \in [Sessions -> Request] /\ RequestOK'
  BY NoRequestType, RequestStep DEF Finish, NoRequest

\* Moving a request that is in flight on to another await.
LEMMA GotoStep ==
  ASSUME TypeInv, NEW s \in Sessions, req[s].pc # "idle",
         NEW step \in {"head", "write", "discard"}, Goto(s, step)
  PROVE  req' \in [Sessions -> Request] /\ RequestOK'
  <1> DEFINE r == [req[s] EXCEPT !.pc = step]
  <1>1. req[s] \in Request
    BY DEF TypeInv, TypeOK
  <1>2. /\ r \in Request
        /\ r.pc = step /\ r.op = req[s].op /\ r.id = req[s].id
        /\ r.content = req[s].content /\ r.key = req[s].key
    BY <1>1 DEF Request
  <1>3. req' = [req EXCEPT ![s] = r]
    BY DEF Goto
  <1>4. /\ r.op = "none" <=> r.pc = "idle"
        /\ r.op \notin {"none", "create"} => r.id \in Ids
        /\ r.op = "create" => r.content \in Contents /\ r.key \in Keys
    BY <1>2 DEF TypeInv, RequestOK
  <1> HIDE DEF r
  <1> QED
    BY <1>2, <1>3, <1>4, RequestStep

\* The table steps: an edited row, and the event a review appends, have their
\* types.
LEMMA EditedType ==
  ASSUME NEW row \in Row, NEW r \in Request
  PROVE  /\ Edited(row, r) \in Row
         /\ Edited(row, r).status = row.status
  BY DEF Edited, Row, Request

\* What a transition does to the table: one row, and only its status.
LEMMA ApplyStep ==
  ASSUME TypeInv, NEW p \in Ids, NEW op \in {"submit", "approve", "decline"}, Apply(p, op)
  PROVE  \E row \in Row :
            /\ patent' = [patent EXCEPT ![p] = row]
            /\ row.status = To[op]
            /\ row.version = patent[p].version
            /\ row.content = patent[p].content
            /\ row.documentKey = patent[p].documentKey
            /\ row.submittedBy = patent[p].submittedBy
  <1> DEFINE row == [patent[p] EXCEPT !.status = To[op]]
  <1>1. patent[p] \in Row
    BY DEF TypeInv, TypeOK
  <1>2. To[op] \in Statuses
    BY DEF To, Statuses
  <1>3. /\ row \in Row
        /\ row.status = To[op]
        /\ row.version = patent[p].version
        /\ row.content = patent[p].content
        /\ row.documentKey = patent[p].documentKey
        /\ row.submittedBy = patent[p].submittedBy
    BY <1>1, <1>2 DEF Row
  <1>4. patent' = [patent EXCEPT ![p] = row]
    BY DEF Apply
  <1> HIDE DEF row
  <1> QED
    BY <1>3, <1>4

LEMMA AnnounceType ==
  ASSUME TypeInv, NEW s \in Sessions, req[s].id \in Ids, Announce(req[s])
  PROVE  outbox' \in Seq(Event)
  <1> DEFINE p == req[s].id
  <1>1. patent[p] \in Row
    BY DEF TypeInv, TypeOK
  <1>2. Upserted(p) \in Event /\ Withdrawn(p) \in Event
    BY <1>1 DEF Upserted, Withdrawn, Event, Row
  <1>3. outbox \in Seq(Event)
    BY DEF TypeInv, TypeOK
  <1> QED
    BY <1>2, <1>3 DEF Announce

\* Every step preserves the types and the well-formedness of requests.
LEMMA TypedStep == TypeInv /\ [Next]_vars => Typed'
  <1> SUFFICES ASSUME TypeInv, [Next]_vars PROVE Typed'
    OBVIOUS
  <1>t. /\ patent \in [Ids -> Row]
        /\ nextId \in 1..(MaxPatents + 1)
        /\ object \in [Keys -> {"none", "ok", "big", "gone"}]
        /\ reviews \in Seq(Review)
        /\ outbox \in Seq(Event)
        /\ req \in [Sessions -> Request]
        /\ RequestOK
    BY DEF TypeInv, TypeOK
  <1>i. ASSUME NEW s \in Sessions, req[s].op \notin {"none", "create"}
        PROVE  req[s].id \in Ids /\ patent[req[s].id] \in Row
    BY <1>t, <1>i DEF RequestOK
  <1>1. CASE UNCHANGED vars
    BY <1>t, <1>1 DEF vars, Typed, RequestOK
  <1>2. ASSUME NEW k \in Keys, Upload(k) PROVE Typed'
    BY <1>t, <1>2 DEF Upload, Typed, RequestOK
  <1>3. ASSUME NEW s \in Sessions, SessionStep(s) PROVE Typed'
    <2>1. ASSUME NEW c \in Contents, NEW k \in Keys, CreateStart(s, c, k) PROVE Typed'
      <3> DEFINE r == [NoRequest EXCEPT !.pc = "attached", !.op = "create",
                                        !.content = c, !.key = k]
      <3>1. r \in Request /\ r.op = "create" /\ r.pc = "attached" /\ r.content = c /\ r.key = k
        BY NoRequestType DEF NoRequest, Request, Ops
      <3>2. req' = [req EXCEPT ![s] = r]
        BY <2>1 DEF CreateStart, Begin
      <3> HIDE DEF r
      <3> QED
        BY <1>t, <2>1, <3>1, <3>2, RequestStep DEF CreateStart, Typed
    <2>2. ASSUME NEW p \in Ids, NEW c \in Contents \cup {None}, NEW k \in Keys \cup {None},
                 UpdateRead(s, p, c, k)
          PROVE  Typed'
      <3> DEFINE replacing == Replaces(patent[p], k)
                 r == [NoRequest EXCEPT !.pc = IF replacing THEN "attached" ELSE "write",
                                        !.op = "update", !.id = p, !.seen = patent[p],
                                        !.content = c, !.key = k]
      <3>1. r \in Request /\ r.op = "update" /\ r.pc # "idle" /\ r.id = p
        BY <1>t, NoRequestType DEF NoRequest, Request, Ops
      <3>2. req' = [req EXCEPT ![s] = r]
        BY <2>2 DEF UpdateRead, Begin
      <3> HIDE DEF r
      <3> QED
        BY <1>t, <2>2, <3>1, <3>2, RequestStep DEF UpdateRead, Typed
    <2>3. ASSUME NEW p \in Ids, SubmitRead(s, p) PROVE Typed'
      <3> DEFINE r == [NoRequest EXCEPT !.pc = "write", !.op = "submit", !.id = p]
      <3>1. r \in Request /\ r.op = "submit" /\ r.pc # "idle" /\ r.id = p
        BY NoRequestType DEF NoRequest, Request, Ops
      <3>2. req' = [req EXCEPT ![s] = r]
        BY <2>3 DEF SubmitRead, Begin
      <3> HIDE DEF r
      <3> QED
        BY <1>t, <2>3, <3>1, <3>2, RequestStep DEF SubmitRead, Typed
    <2>4. ASSUME NEW p \in Ids, DeleteRead(s, p) PROVE Typed'
      <3> DEFINE r == [NoRequest EXCEPT !.pc = "write", !.op = "delete", !.id = p,
                                        !.seen = patent[p]]
      <3>1. r \in Request /\ r.op = "delete" /\ r.pc # "idle" /\ r.id = p
        BY <1>t, NoRequestType DEF NoRequest, Request, Ops
      <3>2. req' = [req EXCEPT ![s] = r]
        BY <2>4 DEF DeleteRead, Begin
      <3> HIDE DEF r
      <3> QED
        BY <1>t, <2>4, <3>1, <3>2, RequestStep DEF DeleteRead, Typed
    <2>5. ASSUME NEW p \in Ids, NEW op \in {"approve", "decline"}, ReviewRead(s, p, op)
          PROVE  Typed'
      <3> DEFINE r == [NoRequest EXCEPT !.pc = "before", !.op = op, !.id = p]
      <3>1. r \in Request /\ r.op = op /\ r.pc # "idle" /\ r.id = p
        BY NoRequestType DEF NoRequest, Request, Ops
      <3>2. req' = [req EXCEPT ![s] = r]
        BY <2>5 DEF ReviewRead, Begin
      <3> HIDE DEF r
      <3> QED
        BY <1>t, <2>5, <3>1, <3>2, RequestStep DEF ReviewRead, Typed
    <2>6. CASE VerifyAttached(s)
      BY <1>t, <2>6, FinishStep, GotoStep DEF VerifyAttached, At, Typed
    <2>7. CASE VerifyHead(s)
      <3>1. req' \in [Sessions -> Request] /\ RequestOK'
        BY <1>t, <2>7, FinishStep, GotoStep DEF VerifyHead, At
      <3>2. object' \in [Keys -> {"none", "ok", "big", "gone"}]
        BY <1>t, <2>7 DEF VerifyHead
      <3> QED
        BY <1>t, <2>7, <3>1, <3>2 DEF VerifyHead, Typed
    <2>8. CASE Discard(s)
      BY <1>t, <2>8, FinishStep DEF Discard, Typed
    <2>9. CASE CreateWrite(s)
      <3>1. req' \in [Sessions -> Request] /\ RequestOK'
        BY <2>9, FinishStep DEF CreateWrite
      <3>2. patent' \in [Ids -> Row] /\ nextId' \in 1..(MaxPatents + 1)
        <4>1. CASE UniqueViolation(req[s].key, 0)
          <5>1. nextId \in Ids /\ UNCHANGED patent /\ nextId' = nextId + 1
            BY <2>9, <4>1 DEF CreateWrite
          <5> QED
            BY <1>t, <5>1, BoundsAssumption DEF Ids
        <4>2. CASE ~UniqueViolation(req[s].key, 0)
          <5> DEFINE row == [status |-> "draft", version |-> 1, content |-> req[s].content,
                             documentKey |-> req[s].key, submittedBy |-> UserOf[s]]
          <5>1. row \in Row
            BY <1>t, <2>9, ActorsAssumption DEF CreateWrite, At, RequestOK, Row, Statuses
          <5>2. /\ nextId \in Ids
                /\ patent' = [patent EXCEPT ![nextId] = row]
                /\ nextId' = nextId + 1
            BY <2>9, <4>2 DEF CreateWrite
          <5> HIDE DEF row
          <5> QED
            BY <1>t, <5>1, <5>2, BoundsAssumption DEF Ids
        <4> QED
          BY <2>9, <4>1, <4>2 DEF CreateWrite
      <3> QED
        BY <1>t, <2>9, <3>1, <3>2 DEF CreateWrite, Typed
    <2>10. CASE UpdateWrite(s)
      <3> USE DEF UpdateWrite
      <3>1. req[s].op = "update" /\ req[s].pc # "idle"
        BY <2>10 DEF At
      <3>2. req' \in [Sessions -> Request] /\ RequestOK'
        BY <2>10, <3>1, FinishStep, GotoStep
      <3>3. patent' \in [Ids -> Row]
        <4>1. Edited(patent[req[s].id], req[s]) \in Row
          BY <1>t, <1>i, <3>1, EditedType
        <4> QED
          BY <1>t, <2>10, <4>1
      <3> QED
        BY <1>t, <2>10, <3>2, <3>3 DEF Typed
    <2>11. CASE SubmitWrite(s)
      <3>1. req[s].op = "submit" /\ req[s].id \in Ids
        BY <1>i, <2>11 DEF SubmitWrite, At
      <3>2. patent' \in [Ids -> Row]
        <4>1. CASE Apply(req[s].id, "submit")
          BY <1>t, <3>1, <4>1, ApplyStep
        <4>2. CASE UNCHANGED patent
          BY <1>t, <4>2
        <4> QED
          BY <2>11, <4>1, <4>2 DEF SubmitWrite
      <3> QED
        BY <1>t, <2>11, <3>2, FinishStep DEF SubmitWrite, Typed
    <2>12. CASE ReviewBefore(s)
      <3> DEFINE r == [req[s] EXCEPT !.pc = "write", !.before = patent[req[s].id].status]
      <3>1. req[s].op \in {"approve", "decline"} /\ req[s] \in Request
        BY <1>t, <2>12 DEF ReviewBefore, At
      <3>2. r \in Request /\ r.op = req[s].op /\ r.pc # "idle" /\ r.id = req[s].id
        BY <1>i, <3>1 DEF Request, Row
      <3>3. req' = [req EXCEPT ![s] = r]
        BY <1>t, <2>12 DEF ReviewBefore
      <3> HIDE DEF r
      <3>4. req' \in [Sessions -> Request] /\ RequestOK'
        BY <1>i, <3>1, <3>2, <3>3, RequestStep
      <3> QED
        BY <1>t, <2>12, <3>4 DEF ReviewBefore, Typed
    <2>13. CASE ReviewWrite(s)
      <3>1. req[s].op \in {"approve", "decline"} /\ req[s].id \in Ids
        BY <1>i, <2>13 DEF ReviewWrite, At
      <3>3. patent' \in [Ids -> Row]
        BY <1>t, <2>13, <3>1, ApplyStep DEF ReviewWrite
      <3>4. reviews' \in Seq(Review)
        <4> DEFINE e == [patent |-> req[s].id,
                         decision |-> IF req[s].op = "approve" THEN "pass" ELSE "fail"]
        <4>1. e \in Review
          BY <3>1 DEF Review
        <4>2. reviews' = Append(reviews, e) \/ reviews' = reviews
          BY <2>13 DEF ReviewWrite
        <4>3. reviews \in Seq(Review)
          BY <1>t
        <4> HIDE DEF e
        <4> QED
          BY <4>1, <4>2, <4>3
      <3>5. outbox' \in Seq(Event)
        BY <1>t, <2>13, <3>1, AnnounceType DEF ReviewWrite
      <3>6. req' \in [Sessions -> Request] /\ RequestOK'
        BY <2>13, FinishStep DEF ReviewWrite
      <3> QED
        BY <1>t, <2>13, <3>3, <3>4, <3>5, <3>6 DEF ReviewWrite, Typed
    <2>14. CASE DeleteWrite(s)
      <3>1. req[s].op = "delete" /\ req[s].pc # "idle"
        BY <2>14 DEF DeleteWrite, At
      <3>2. req' \in [Sessions -> Request] /\ RequestOK'
        BY <2>14, <3>1, FinishStep, GotoStep DEF DeleteWrite
      <3>3. patent' \in [Ids -> Row]
        BY <1>t, <2>14, NoRowType DEF DeleteWrite
      <3> QED
        BY <1>t, <2>14, <3>2, <3>3 DEF DeleteWrite, Typed
    <2>15. CASE Abort(s)
      BY <1>t, <2>15, FinishStep DEF Abort, Typed
    <2> QED
      BY <1>3, <2>1, <2>2, <2>3, <2>4, <2>5, <2>6, <2>7, <2>8, <2>9, <2>10, <2>11, <2>12,
         <2>13, <2>14, <2>15 DEF SessionStep
  <1> QED
    BY <1>1, <1>2, <1>3 DEF Next

LEMMA CompleteStep == TypeInv /\ [Next]_vars => Complete'
  <1> SUFFICES ASSUME TypeInv, [Next]_vars PROVE Complete'
    OBVIOUS
  <1>t. /\ \A p \in Ids : patent[p] \in Row
        /\ patent \in [Ids -> Row]
        /\ Complete
    BY DEF TypeInv, TypeOK, Complete
  <1>u. ASSUME UNCHANGED patent PROVE Complete'
    BY <1>t, <1>u DEF Complete, Exists
  <1>w. ASSUME NEW p \in Ids, NEW row \in Row, patent' = [patent EXCEPT ![p] = row],
               row.status # "absent" => row.content \in Contents /\ row.documentKey \in Keys
        PROVE  Complete'
    <2>1. patent'[p] = row /\ \A q \in Ids : q # p => patent'[q] = patent[q]
      BY <1>t, <1>w
    <2> QED
      BY <1>t, <1>w, <2>1 DEF Complete, Exists
  <1>i. ASSUME NEW s \in Sessions, req[s].op \notin {"none", "create"}
        PROVE  req[s].id \in Ids /\ req[s] \in Request
    BY <1>i DEF TypeInv, TypeOK, RequestOK
  <1>1. CASE UNCHANGED vars
    BY <1>u, <1>1 DEF vars
  <1>2. ASSUME NEW k \in Keys, Upload(k) PROVE Complete'
    BY <1>u, <1>2 DEF Upload
  <1>3. ASSUME NEW s \in Sessions, SessionStep(s) PROVE Complete'
    <2>1. CASE UNCHANGED patent
      BY <1>u, <2>1
    <2>2. CASE CreateWrite(s) /\ ~UNCHANGED patent
      <3> DEFINE row == [status |-> "draft", version |-> 1, content |-> req[s].content,
                         documentKey |-> req[s].key, submittedBy |-> UserOf[s]]
      <3>1. nextId \in Ids /\ patent' = [patent EXCEPT ![nextId] = row]
        BY <2>2 DEF CreateWrite
      <3>2. row \in Row /\ row.content \in Contents /\ row.documentKey \in Keys
        BY <2>2, ActorsAssumption DEF CreateWrite, At, TypeInv, RequestOK, Row, Statuses
      <3> HIDE DEF row
      <3> QED
        BY <1>w, <3>1, <3>2
    <2>3. CASE UpdateWrite(s) /\ ~UNCHANGED patent
      <3> DEFINE p == req[s].id
                 row == Edited(patent[p], req[s])
      <3>1. p \in Ids /\ req[s] \in Request
        BY <1>i, <2>3 DEF UpdateWrite, At
      <3>2. UpdateWritable(p) /\ patent' = [patent EXCEPT ![p] = row]
        BY <2>3 DEF UpdateWrite
      <3>3. row \in Row
        BY <1>t, <3>1, EditedType
      <3>4. patent[p].content \in Contents /\ patent[p].documentKey \in Keys
        BY <1>t, <3>1, <3>2 DEF Complete, Exists, UpdateWritable, Editable
      <3>5. row.content \in Contents /\ row.documentKey \in Keys
        BY <3>1, <3>4 DEF Edited, Request
      <3> HIDE DEF row
      <3> QED
        BY <1>w, <3>1, <3>2, <3>3, <3>5
    <2>4. ASSUME SubmitWrite(s) \/ ReviewWrite(s), ~UNCHANGED patent PROVE Complete'
      <3> DEFINE p == req[s].id
                 op == req[s].op
      <3>1. p \in Ids /\ op \in {"submit", "approve", "decline"}
        BY <1>i, <2>4 DEF SubmitWrite, ReviewWrite, At
      <3>2. CanApply(p, op) /\ Apply(p, op)
        BY <2>4 DEF SubmitWrite, ReviewWrite, At
      <3>3. PICK row \in Row : /\ patent' = [patent EXCEPT ![p] = row]
                               /\ row.content = patent[p].content
                               /\ row.documentKey = patent[p].documentKey
        BY <3>1, <3>2, ApplyStep
      <3>4. patent[p].status # "absent"
        BY <3>1, <3>2 DEF CanApply, From
      <3>5. row.content \in Contents /\ row.documentKey \in Keys
        BY <1>t, <3>1, <3>3, <3>4 DEF Complete, Exists
      <3> QED
        BY <1>w, <3>1, <3>3, <3>5
    <2>5. CASE DeleteWrite(s) /\ ~UNCHANGED patent
      <3>1. req[s].id \in Ids /\ patent' = [patent EXCEPT ![req[s].id] = NoRow]
        BY <1>i, <2>5 DEF DeleteWrite, At
      <3>2. NoRow.status = "absent"
        BY DEF NoRow
      <3> QED
        BY <1>w, <3>1, <3>2, NoRowType
    <2> QED
      BY <1>3, <2>1, <2>2, <2>3, <2>4, <2>5
         DEF SessionStep, CreateStart, UpdateRead, SubmitRead, DeleteRead, ReviewRead,
             VerifyAttached, VerifyHead, Discard, ReviewBefore, Abort
  <1> QED
    BY <1>1, <1>2, <1>3 DEF Next

LEMMA TypeStep == TypeInv /\ [Next]_vars => TypeInv'
  BY TypedStep, CompleteStep DEF Typed, Complete, TypeInv, TypeOK

\* The types hold in every reachable state, whoever runs what concurrently.
THEOREM TypeCorrect == Spec => []TypeOK
  <1>1. TypeInv => TypeOK
    BY DEF TypeInv
  <1> QED
    BY TypeInit, TypeStep, <1>1, PTL DEF Spec

-----------------------------------------------------------------------------
(* The effects: whatever the handlers do between their awaits, a step changes *)
(* the tables in one of six ways or not at all.  The proofs below are by      *)
(* cases on these.                                                            *)

\* One row is written; nothing else in the PATENT table changes.
Writes(p, row) == row \in Row /\ patent' = [patent EXCEPT ![p] = row]

SameText(p, row) ==
    /\ row.version = patent[p].version
    /\ row.content = patent[p].content
    /\ row.documentKey = patent[p].documentKey

CreateEffect ==
    /\ nextId \in Ids
    /\ \E row : Writes(nextId, row) /\ row.status = "draft" /\ row.version = 1
    /\ nextId' = nextId + 1
    /\ UNCHANGED <<reviews, outbox>>

EditEffect(p) ==
    /\ patent[p].status \in {"draft", "declined"}
    /\ \E row :
          /\ Writes(p, row)
          /\ row.status = patent[p].status
          /\ row.version \in {patent[p].version, patent[p].version + 1}
    /\ UNCHANGED <<nextId, reviews, outbox>>

SubmitEffect(p) ==
    /\ patent[p].status \in {"draft", "declined"}
    /\ \E row : Writes(p, row) /\ SameText(p, row) /\ row.status = "pending_admin"
    /\ UNCHANGED <<nextId, reviews, outbox>>

ApproveEffect(p) ==
    /\ patent[p].status = "pending_admin"
    /\ \E row : Writes(p, row) /\ SameText(p, row) /\ row.status = "approved"
    /\ reviews' = Append(reviews, [patent |-> p, decision |-> "pass"])
    /\ outbox' = Append(outbox, Upserted(p))
    /\ UNCHANGED nextId

DeclineEffect(p) ==
    /\ patent[p].status \in {"pending_admin", "approved"}
    /\ \E row : Writes(p, row) /\ SameText(p, row) /\ row.status = "declined"
    /\ reviews' = Append(reviews, [patent |-> p, decision |-> "fail"])
    /\ outbox' = outbox \/ outbox' = Append(outbox, Withdrawn(p))
    /\ UNCHANGED nextId

DeleteEffect(p) ==
    /\ patent[p].status = "draft"
    /\ Writes(p, NoRow)
    /\ UNCHANGED <<nextId, reviews, outbox>>

\* A create that is refused takes an id all the same.
NoEffect ==
    /\ UNCHANGED <<patent, reviews, outbox>>
    /\ nextId' = nextId \/ (nextId \in Ids /\ nextId' = nextId + 1)

Effect ==
    \/ NoEffect
    \/ CreateEffect
    \/ \E p \in Ids : EditEffect(p) \/ SubmitEffect(p) \/ ApproveEffect(p)
                         \/ DeclineEffect(p) \/ DeleteEffect(p)

LEMMA StepHasEffect == TypeInv /\ [Next]_vars => Effect
  <1> SUFFICES ASSUME TypeInv, [Next]_vars PROVE Effect
    OBVIOUS
  <1>i. ASSUME NEW s \in Sessions, req[s].op \notin {"none", "create"}
        PROVE  req[s].id \in Ids /\ patent[req[s].id] \in Row /\ req[s] \in Request
    BY <1>i DEF TypeInv, TypeOK, RequestOK
  <1>1. CASE UNCHANGED vars
    BY <1>1 DEF vars, Effect, NoEffect
  <1>2. ASSUME NEW k \in Keys, Upload(k) PROVE Effect
    BY <1>2 DEF Upload, Effect, NoEffect
  <1>3. ASSUME NEW s \in Sessions, SessionStep(s) PROVE Effect
    <2>1. CASE NoEffect
      BY <2>1 DEF Effect
    <2>2. CASE CreateWrite(s)
      <3>1. CASE UniqueViolation(req[s].key, 0)
        BY <2>2, <3>1 DEF CreateWrite, Effect, NoEffect
      <3>2. CASE ~UniqueViolation(req[s].key, 0)
        <4> DEFINE row == [status |-> "draft", version |-> 1, content |-> req[s].content,
                           documentKey |-> req[s].key, submittedBy |-> UserOf[s]]
        <4>1. row \in Row /\ row.status = "draft" /\ row.version = 1
          BY <2>2, ActorsAssumption DEF CreateWrite, At, TypeInv, RequestOK, Row, Statuses
        <4>2. nextId \in Ids /\ patent' = [patent EXCEPT ![nextId] = row] /\ nextId' = nextId + 1
          BY <2>2, <3>2 DEF CreateWrite
        <4>3. UNCHANGED <<reviews, outbox>>
          BY <2>2 DEF CreateWrite
        <4> HIDE DEF row
        <4> QED
          BY <4>1, <4>2, <4>3 DEF Effect, CreateEffect, Writes
      <3> QED
        BY <2>2, <3>1, <3>2 DEF CreateWrite
    <2>3. CASE UpdateWrite(s)
      <3> DEFINE p == req[s].id
                 row == Edited(patent[p], req[s])
      <3>1. p \in Ids /\ patent[p] \in Row /\ req[s] \in Request
        BY <1>i, <2>3 DEF UpdateWrite, At
      <3>2. CASE UNCHANGED patent
        BY <2>3, <3>2 DEF UpdateWrite, Effect, NoEffect
      <3>3. CASE patent' = [patent EXCEPT ![p] = row] /\ UpdateWritable(p)
        <4>1. row \in Row /\ row.status = patent[p].status
          BY <3>1, EditedType
        <4>2. row.version \in {patent[p].version, patent[p].version + 1}
          BY <3>1 DEF Edited
        <4> HIDE DEF row
        <4>3. EditEffect(p)
          BY <2>3, <3>3, <4>1, <4>2 DEF UpdateWrite, UpdateWritable, Editable, EditEffect, Writes
        <4> QED
          BY <3>1, <4>3 DEF Effect
      <3> QED
        BY <2>3, <3>2, <3>3 DEF UpdateWrite
    <2>4. CASE SubmitWrite(s)
      <3> DEFINE p == req[s].id
      <3>1. p \in Ids
        BY <1>i, <2>4 DEF SubmitWrite, At
      <3>2. CASE UNCHANGED patent
        BY <2>4, <3>2 DEF SubmitWrite, Effect, NoEffect
      <3>3. CASE CanApply(p, "submit") /\ Apply(p, "submit")
        <4>1. PICK row \in Row : Writes(p, row) /\ SameText(p, row) /\ row.status = To["submit"]
          BY <3>1, <3>3, ApplyStep DEF Writes, SameText
        <4>2. SubmitEffect(p)
          BY <2>4, <3>3, <4>1 DEF SubmitWrite, CanApply, SubmitEffect, From, To
        <4> QED
          BY <3>1, <4>2 DEF Effect
      <3> QED
        BY <2>4, <3>2, <3>3 DEF SubmitWrite
    <2>5. CASE ReviewWrite(s)
      <3> DEFINE p == req[s].id
                 op == req[s].op
      <3>1. p \in Ids /\ op \in {"approve", "decline"}
        BY <1>i, <2>5 DEF ReviewWrite, At
      <3>2. CASE UNCHANGED <<patent, reviews, outbox>>
        BY <2>5, <3>2 DEF ReviewWrite, Effect, NoEffect
      <3>3. CASE CanApply(p, op) /\ ~UNCHANGED <<patent, reviews, outbox>>
        <4>1. /\ Apply(p, op)
              /\ reviews' = Append(reviews,
                    [patent |-> p, decision |-> IF op = "approve" THEN "pass" ELSE "fail"])
              /\ Announce(req[s])
              /\ UNCHANGED nextId
          BY <2>5, <3>3 DEF ReviewWrite
        <4>2. PICK row \in Row : Writes(p, row) /\ SameText(p, row) /\ row.status = To[op]
          BY <3>1, <4>1, ApplyStep DEF Writes, SameText
        <4>3. CASE op = "approve"
          <5>1. ApproveEffect(p)
            BY <3>3, <4>1, <4>2, <4>3 DEF ApproveEffect, CanApply, Announce, From, To
          <5> QED
            BY <3>1, <5>1 DEF Effect
        <4>4. CASE op = "decline"
          <5>1. DeclineEffect(p)
            BY <3>3, <4>1, <4>2, <4>4 DEF DeclineEffect, CanApply, Announce, From, To
          <5> QED
            BY <3>1, <5>1 DEF Effect
        <4> QED
          BY <3>1, <4>3, <4>4
      <3> QED
        BY <2>5, <3>2, <3>3 DEF ReviewWrite
    <2>6. CASE DeleteWrite(s)
      <3> DEFINE p == req[s].id
      <3>1. p \in Ids
        BY <1>i, <2>6 DEF DeleteWrite, At
      <3>2. CASE UNCHANGED patent
        BY <2>6, <3>2 DEF DeleteWrite, Effect, NoEffect
      <3>3. CASE Deletable(p) /\ patent' = [patent EXCEPT ![p] = NoRow]
        BY <2>6, <3>1, <3>3, NoRowType
           DEF DeleteWrite, Deletable, DeleteEffect, Writes, Effect
      <3> QED
        BY <2>6, <3>2, <3>3 DEF DeleteWrite
    <2> QED
      BY <1>3, <2>1, <2>2, <2>3, <2>4, <2>5, <2>6
         DEF SessionStep, NoEffect, CreateStart, UpdateRead, SubmitRead, DeleteRead, ReviewRead,
             VerifyAttached, VerifyHead, Discard, ReviewBefore, Abort
  <1> QED
    BY <1>1, <1>2, <1>3 DEF Next

-----------------------------------------------------------------------------
(* What the tables say of a patent at rest *)

\* Ids that were not handed out yet have no row.
FreshIsAbsent == \A p \in Ids : p >= nextId => patent[p].status = "absent"

TableInv ==
    /\ TypeInv
    /\ FreshIsAbsent
    /\ ApprovedIsAnnounced
    /\ TrailExplainsStatus

\* Appending an entry makes it the last one about its patent and leaves the
\* last entry about every other patent where it was.
LEMMA AppendIsLast ==
  ASSUME NEW S, NEW q \in Seq(S), NEW e \in S, NEW p
  PROVE  /\ e.patent = p =>
               /\ Len(q) + 1 \in 1..Len(Append(q, e))
               /\ IsLast(Append(q, e), Len(q) + 1, p)
               /\ Append(q, e)[Len(q) + 1] = e
         /\ e.patent # p => \A i \in 1..Len(q) :
               /\ i \in 1..Len(Append(q, e))
               /\ Append(q, e)[i] = q[i]
               /\ IsLast(q, i, p) => IsLast(Append(q, e), i, p)
  BY DEF IsLast

\* An entry about another patent adds nothing about this one.
LEMMA AppendIsSilent ==
  ASSUME NEW S, NEW q \in Seq(S), NEW e \in S, NEW p, e.patent # p,
         \A i \in 1..Len(q) : q[i].patent # p
  PROVE  \A i \in 1..Len(Append(q, e)) : Append(q, e)[i].patent # p
  OBVIOUS

\* A patent other than the written one keeps its row and what is announced of
\* it.
LEMMA OtherRows ==
  ASSUME TypeInv, NEW p \in Ids, NEW row, Writes(p, row)
  PROVE  /\ patent'[p] = row
         /\ \A q \in Ids : q # p => patent'[q] = patent[q] /\ Upserted(q)' = Upserted(q)
  BY DEF Writes, TypeInv, TypeOK, Upserted

LEMMA FreshStep == TypeInv /\ FreshIsAbsent /\ Effect => FreshIsAbsent'
  <1> SUFFICES ASSUME TypeInv, FreshIsAbsent, Effect PROVE FreshIsAbsent'
    OBVIOUS
  <1> USE DEF FreshIsAbsent
  <1>t. nextId \in Nat
    BY BoundsAssumption DEF TypeInv, TypeOK
  <1>1. CASE NoEffect
    BY <1>t, <1>1 DEF NoEffect, Ids
  <1>2. CASE CreateEffect
    BY <1>t, <1>2, OtherRows DEF CreateEffect, Ids
  <1>3. ASSUME NEW p \in Ids, NEW row, Writes(p, row), UNCHANGED nextId,
               patent[p].status # "absent" \/ row.status = "absent"
        PROVE  FreshIsAbsent'
    BY <1>t, <1>3, OtherRows DEF Ids
  <1>4. ASSUME NEW p \in Ids,
               EditEffect(p) \/ SubmitEffect(p) \/ ApproveEffect(p) \/ DeclineEffect(p)
                  \/ DeleteEffect(p)
        PROVE  FreshIsAbsent'
    BY <1>3, <1>4 DEF EditEffect, SubmitEffect, ApproveEffect, DeclineEffect, DeleteEffect
  <1> QED
    BY <1>1, <1>2, <1>4 DEF Effect

LEMMA AnnouncedStep == TypeInv /\ FreshIsAbsent /\ ApprovedIsAnnounced /\ Effect
                          => ApprovedIsAnnounced'
  <1> SUFFICES ASSUME TypeInv, FreshIsAbsent, ApprovedIsAnnounced, Effect,
                      NEW q \in Ids, patent'[q].status = "approved"
               PROVE  \E i \in 1..Len(outbox') : IsLast(outbox', i, q) /\ outbox'[i] = Upserted(q)'
    BY DEF ApprovedIsAnnounced
  <1>o. outbox \in Seq(Event)
    BY DEF TypeInv, TypeOK
  <1>k. ASSUME patent[q].status = "approved", outbox' = outbox, Upserted(q)' = Upserted(q)
        PROVE  \E i \in 1..Len(outbox') : IsLast(outbox', i, q) /\ outbox'[i] = Upserted(q)'
    BY <1>k DEF ApprovedIsAnnounced
  <1>1. CASE NoEffect
    BY <1>1, <1>k DEF NoEffect, Upserted
  <1>2. CASE CreateEffect
    BY <1>2, <1>k, OtherRows DEF CreateEffect
  <1>3. ASSUME NEW p \in Ids, EditEffect(p) PROVE patent[q].status = "approved" /\ q # p
    BY <1>3, OtherRows DEF EditEffect
  <1>4. ASSUME NEW p \in Ids, EditEffect(p) \/ SubmitEffect(p) \/ DeleteEffect(p)
        PROVE  \E i \in 1..Len(outbox') : IsLast(outbox', i, q) /\ outbox'[i] = Upserted(q)'
    BY <1>3, <1>4, <1>k, OtherRows DEF EditEffect, SubmitEffect, DeleteEffect, NoRow
  <1>5. ASSUME NEW p \in Ids, NEW e \in Event, e.patent = p, outbox' = Append(outbox, e),
               NEW row, Writes(p, row), q # p
        PROVE  \E i \in 1..Len(outbox') : IsLast(outbox', i, q) /\ outbox'[i] = Upserted(q)'
    <2>1. patent[q].status = "approved" /\ Upserted(q)' = Upserted(q)
      BY <1>5, OtherRows
    <2>2. PICK i \in 1..Len(outbox) : IsLast(outbox, i, q) /\ outbox[i] = Upserted(q)
      BY <2>1 DEF ApprovedIsAnnounced
    <2> QED
      BY <1>o, <1>5, <2>1, <2>2, AppendIsLast
  <1>6. ASSUME NEW p \in Ids, ApproveEffect(p)
        PROVE  \E i \in 1..Len(outbox') : IsLast(outbox', i, q) /\ outbox'[i] = Upserted(q)'
    <2>1. PICK row : Writes(p, row) /\ SameText(p, row) /\ row.status = "approved"
      BY <1>6 DEF ApproveEffect
    <2>2. /\ Upserted(p) \in Event
          /\ Upserted(p).patent = p
          /\ outbox' = Append(outbox, Upserted(p))
      BY <1>6 DEF ApproveEffect, Upserted, Event, TypeInv, TypeOK, Row
    <2>3. CASE q = p
      <3>1. Upserted(p)' = Upserted(p)
        BY <2>1, OtherRows DEF SameText, Upserted
      <3> QED
        BY <1>o, <2>2, <2>3, <3>1, AppendIsLast
    <2>4. CASE q # p
      BY <1>5, <2>1, <2>2, <2>4
    <2> QED
      BY <2>3, <2>4
  <1>7. ASSUME NEW p \in Ids, DeclineEffect(p)
        PROVE  \E i \in 1..Len(outbox') : IsLast(outbox', i, q) /\ outbox'[i] = Upserted(q)'
    <2>1. PICK row : Writes(p, row) /\ SameText(p, row) /\ row.status = "declined"
      BY <1>7 DEF DeclineEffect
    <2>2. q # p
      BY <2>1, OtherRows
    <2>3. CASE outbox' = outbox
      BY <1>k, <2>1, <2>2, <2>3, OtherRows
    <2>4. CASE outbox' = Append(outbox, Withdrawn(p))
      <3>1. Withdrawn(p) \in Event /\ Withdrawn(p).patent = p
        BY DEF Withdrawn, Event, TypeInv, TypeOK, Row
      <3> QED
        BY <1>5, <2>1, <2>2, <2>4, <3>1
    <2> QED
      BY <1>7, <2>3, <2>4 DEF DeclineEffect
  <1> QED
    BY <1>1, <1>2, <1>4, <1>6, <1>7 DEF Effect

\* TrailExplainsStatus for one patent.
Explained(p) ==
    /\ patent[p].status = "approved" =>
          \E i \in 1..Len(reviews) : IsLast(reviews, i, p) /\ reviews[i].decision = "pass"
    /\ patent[p].status = "declined" =>
          \E i \in 1..Len(reviews) : IsLast(reviews, i, p) /\ reviews[i].decision = "fail"
    /\ patent[p].status \in {"draft", "absent"} =>
          /\ \A i \in 1..Len(reviews) : reviews[i].patent # p
          /\ \A i \in 1..Len(outbox) : outbox[i].patent # p

LEMMA TrailStep == TypeInv /\ FreshIsAbsent /\ TrailExplainsStatus /\ Effect
                      => TrailExplainsStatus'
  <1> SUFFICES ASSUME TypeInv, FreshIsAbsent, TrailExplainsStatus, Effect, NEW q \in Ids
               PROVE  Explained(q)'
    BY DEF TrailExplainsStatus, Explained
  <1>o. /\ outbox \in Seq(Event)
        /\ reviews \in Seq(Review)
        /\ Explained(q)
    BY DEF TypeInv, TypeOK, TrailExplainsStatus, Explained
  <1>1. CASE NoEffect
    BY <1>o, <1>1 DEF NoEffect, Explained, IsLast
  <1>2. ASSUME NEW p \in Ids, NEW row, Writes(p, row), UNCHANGED <<reviews, outbox>>,
               \/ row.status = patent[p].status
               \/ row.status = "pending_admin"
               \/ row.status \in {"draft", "absent"} /\ patent[p].status \in {"draft", "absent"}
        PROVE  Explained(q)'
    BY <1>o, <1>2, OtherRows DEF Explained, IsLast
  <1>3. CASE CreateEffect
    <2>1. patent[nextId].status = "absent"
      BY <1>3, BoundsAssumption DEF CreateEffect, FreshIsAbsent, Ids
    <2> QED
      BY <1>2, <1>3, <2>1 DEF CreateEffect
  <1>4. ASSUME NEW p \in Ids, EditEffect(p) \/ SubmitEffect(p) \/ DeleteEffect(p)
        PROVE  Explained(q)'
    BY <1>2, <1>4 DEF EditEffect, SubmitEffect, DeleteEffect, NoRow
  <1>5. ASSUME NEW p \in Ids, NEW row, Writes(p, row), row.status \in {"approved", "declined"},
               NEW rev \in Review, rev.patent = p, reviews' = Append(reviews, rev),
               rev.decision = (IF row.status = "approved" THEN "pass" ELSE "fail"),
               outbox' = outbox \/ \E e \in Event : e.patent = p /\ outbox' = Append(outbox, e)
        PROVE  Explained(q)'
    <2>1. CASE q = p
      <3>1. patent'[q] = row
        BY <1>5, <2>1, OtherRows
      <3>2. \E i \in 1..Len(reviews') : IsLast(reviews', i, q) /\ reviews'[i] = rev
        BY <1>o, <1>5, <2>1, AppendIsLast
      <3> QED
        BY <1>5, <3>1, <3>2 DEF Explained
    <2>2. CASE q # p
      <3>1. patent'[q] = patent[q]
        BY <1>5, <2>2, OtherRows
      <3>2. \A i \in 1..Len(reviews) :
               /\ i \in 1..Len(reviews')
               /\ reviews'[i] = reviews[i]
               /\ IsLast(reviews, i, q) => IsLast(reviews', i, q)
        BY <1>o, <1>5, <2>2, AppendIsLast
      <3>3. (\A i \in 1..Len(reviews) : reviews[i].patent # q)
               => \A i \in 1..Len(reviews') : reviews'[i].patent # q
        BY <1>o, <1>5, <2>2, AppendIsSilent
      <3>4. (\A i \in 1..Len(outbox) : outbox[i].patent # q)
               => \A i \in 1..Len(outbox') : outbox'[i].patent # q
        <4>1. CASE outbox' = outbox
          BY <4>1
        <4>2. CASE \E e \in Event : e.patent = p /\ outbox' = Append(outbox, e)
          BY <1>o, <2>2, <4>2, AppendIsSilent
        <4> QED
          BY <1>5, <4>1, <4>2
      <3> QED
        BY <1>o, <3>1, <3>2, <3>3, <3>4 DEF Explained
    <2> QED
      BY <2>1, <2>2
  <1>6. ASSUME NEW p \in Ids, ApproveEffect(p) PROVE Explained(q)'
    <2> DEFINE rev == [patent |-> p, decision |-> "pass"]
    <2>1. PICK row : Writes(p, row) /\ row.status = "approved"
      BY <1>6 DEF ApproveEffect
    <2>2. rev \in Review /\ rev.patent = p /\ rev.decision = "pass"
      BY DEF Review
    <2>3. Upserted(p) \in Event /\ Upserted(p).patent = p
      BY DEF Upserted, Event, TypeInv, TypeOK, Row
    <2>4. reviews' = Append(reviews, rev) /\ outbox' = Append(outbox, Upserted(p))
      BY <1>6 DEF ApproveEffect
    <2> HIDE DEF rev
    <2> QED
      BY <1>5, <2>1, <2>2, <2>3, <2>4
  <1>7. ASSUME NEW p \in Ids, DeclineEffect(p) PROVE Explained(q)'
    <2> DEFINE rev == [patent |-> p, decision |-> "fail"]
    <2>1. PICK row : Writes(p, row) /\ row.status = "declined"
      BY <1>7 DEF DeclineEffect
    <2>2. rev \in Review /\ rev.patent = p /\ rev.decision = "fail"
      BY DEF Review
    <2>3. Withdrawn(p) \in Event /\ Withdrawn(p).patent = p
      BY DEF Withdrawn, Event, TypeInv, TypeOK, Row
    <2>4. /\ reviews' = Append(reviews, rev)
          /\ outbox' = outbox \/ outbox' = Append(outbox, Withdrawn(p))
      BY <1>7 DEF DeclineEffect
    <2> HIDE DEF rev
    <2> QED
      BY <1>5, <2>1, <2>2, <2>3, <2>4
  <1> QED
    BY <1>1, <1>3, <1>4, <1>6, <1>7 DEF Effect

LEMMA TableInit == Init => TableInv
  BY TypeInit DEF Init, TableInv, FreshIsAbsent, ApprovedIsAnnounced, TrailExplainsStatus, NoRow

LEMMA TableStep == TableInv /\ [Next]_vars => TableInv'
  BY TypeStep, StepHasEffect, FreshStep, AnnouncedStep, TrailStep DEF TableInv

LEMMA TableInvariant == Spec => []TableInv
  BY TableInit, TableStep, PTL DEF Spec

\* However requests interleave, the last event of an approved patent is an
\* announcement of the row as it stands.
THEOREM ApprovedStaysAnnounced == Spec => []ApprovedIsAnnounced
  <1>1. TableInv => ApprovedIsAnnounced
    BY DEF TableInv
  <1> QED
    BY <1>1, TableInvariant, PTL

\* However requests interleave, the review trail explains the status and is
\* never left without its subject.
THEOREM TrailAlwaysExplains == Spec => []TrailExplainsStatus
  <1>1. TableInv => TrailExplainsStatus
    BY DEF TableInv
  <1> QED
    BY <1>1, TableInvariant, PTL

\* No interleaving edits or deletes a patent under review or approved.
THEOREM ReviewedIsFrozen == Spec => FrozenUnderReview
  <1> DEFINE Frozen == \A p \in Ids : patent[p].status \in {"pending_admin", "approved"} =>
                          /\ patent'[p].status # "absent"
                          /\ patent'[p].content = patent[p].content
                          /\ patent'[p].documentKey = patent[p].documentKey
                          /\ patent'[p].version = patent[p].version
  <1>1. TableInv /\ [Next]_vars => [Frozen]_vars
    <2> SUFFICES ASSUME TableInv, [Next]_vars PROVE Frozen
      OBVIOUS
    <2>1. TypeInv /\ FreshIsAbsent /\ Effect
      BY StepHasEffect DEF TableInv
    <2>2. CASE NoEffect
      BY <2>1, <2>2 DEF NoEffect
    <2>3. CASE CreateEffect
      <3>1. patent[nextId].status = "absent"
        BY <2>1, <2>3, BoundsAssumption DEF CreateEffect, FreshIsAbsent, Ids
      <3> QED
        BY <2>1, <2>3, <3>1, OtherRows DEF CreateEffect
    <2>4. ASSUME NEW q \in Ids, EditEffect(q) \/ DeleteEffect(q) PROVE Frozen
      BY <2>1, <2>4, OtherRows DEF EditEffect, DeleteEffect
    <2>5. ASSUME NEW q \in Ids, SubmitEffect(q) \/ ApproveEffect(q) \/ DeclineEffect(q)
          PROVE  Frozen
      BY <2>1, <2>5, OtherRows DEF SubmitEffect, ApproveEffect, DeclineEffect, SameText
    <2> QED
      BY <2>1, <2>2, <2>3, <2>4, <2>5 DEF Effect
  <1> QED
    BY <1>1, TableInvariant, PTL DEF Spec, FrozenUnderReview

-----------------------------------------------------------------------------
(* Approvals alternate *)

\* An approval on record stands until a decline of the same patent: what a new
\* approval finds, since it only applies to a patent that is not approved.
ApprovalsStand ==
    \A i \in 1..Len(reviews) : reviews[i].decision = "pass" =>
        \/ patent[reviews[i].patent].status = "approved"
        \/ \E l \in (i + 1)..Len(reviews) :
              reviews[l].patent = reviews[i].patent /\ reviews[l].decision = "fail"

AlternateInv == TableInv /\ ApprovalsStand /\ ApprovalsAlternate

\* A decision on p appended to the trail, when no approval of p stands.
LEMMA DecisionStep ==
  ASSUME TypeInv, ApprovalsStand, ApprovalsAlternate,
         NEW p \in Ids, NEW row, Writes(p, row), NEW rev \in Review, rev.patent = p,
         reviews' = Append(reviews, rev),
         rev.decision = "pass" => patent[p].status # "approved" /\ row.status = "approved"
  PROVE  ApprovalsStand' /\ ApprovalsAlternate'
  <1> DEFINE n == Len(reviews)
  <1>1. /\ reviews \in Seq(Review) /\ n \in Nat
        /\ Len(reviews') = n + 1
        /\ reviews'[n + 1] = rev
        /\ \A i \in 1..n : reviews'[i] = reviews[i] /\ reviews[i] \in Review
    BY DEF TypeInv, TypeOK
  <1>2. /\ patent'[p] = row
        /\ \A q \in Ids \ {p} : patent'[q] = patent[q]
    BY OtherRows
  <1>3. ASSUME rev.decision = "pass", NEW i \in 1..n,
               reviews[i].patent = p, reviews[i].decision = "pass"
        PROVE  \E l \in (i + 1)..n : reviews[l].patent = p /\ reviews[l].decision = "fail"
    BY <1>3 DEF ApprovalsStand
  <1> HIDE DEF n
  <1>4. ApprovalsStand'
    <2> SUFFICES ASSUME NEW i \in 1..(n + 1), reviews'[i].decision = "pass"
                 PROVE  \/ patent'[reviews'[i].patent].status = "approved"
                        \/ \E l \in (i + 1)..(n + 1) : /\ reviews'[l].patent = reviews'[i].patent
                                                       /\ reviews'[l].decision = "fail"
      BY <1>1 DEF ApprovalsStand
    <2>1. CASE i = n + 1
      BY <1>1, <1>2, <2>1
    <2>2. CASE i \in 1..n /\ reviews[i].patent = p
      <3>1. CASE rev.decision = "pass"
        BY <1>1, <1>2, <2>2, <3>1
      <3>2. CASE rev.decision # "pass"
        <4>1. rev.decision = "fail"
          BY <3>2 DEF Review
        <4>2. n + 1 \in (i + 1)..(n + 1)
          BY <1>1, <2>2
        <4> QED
          BY <1>1, <2>2, <4>1, <4>2
      <3> QED
        BY <3>1, <3>2
    <2>3. CASE i \in 1..n /\ reviews[i].patent # p
      <3>1. reviews'[i] = reviews[i] /\ reviews[i].patent \in Ids \ {p}
        BY <1>1, <2>3 DEF Review
      <3>2. \/ patent[reviews[i].patent].status = "approved"
            \/ \E l \in (i + 1)..n :
                  reviews[l].patent = reviews[i].patent /\ reviews[l].decision = "fail"
        BY <2>3, <3>1 DEF ApprovalsStand, n
      <3>3. \A l \in (i + 1)..n : l \in (i + 1)..(n + 1) /\ reviews'[l] = reviews[l]
        BY <1>1, <2>3
      <3> QED
        BY <1>2, <3>1, <3>2, <3>3
    <2> QED
      BY <1>1, <2>1, <2>2, <2>3
  <1>5. ApprovalsAlternate'
    <2> SUFFICES ASSUME NEW i \in 1..(n + 1), NEW j \in 1..(n + 1), i < j,
                        reviews'[i].patent = reviews'[j].patent,
                        reviews'[i].decision = "pass", reviews'[j].decision = "pass"
                 PROVE  \E l \in (i + 1)..(j - 1) : /\ reviews'[l].patent = reviews'[i].patent
                                                    /\ reviews'[l].decision = "fail"
      BY <1>1 DEF ApprovalsAlternate
    <2>1. i \in 1..n /\ reviews'[i] = reviews[i]
      BY <1>1
    <2>2. CASE j = n + 1
      <3>1. \E l \in (i + 1)..n : reviews[l].patent = p /\ reviews[l].decision = "fail"
        BY <1>1, <1>3, <2>1, <2>2
      <3>2. \A l \in (i + 1)..n : l \in (i + 1)..(j - 1) /\ reviews'[l] = reviews[l]
        BY <1>1, <2>1, <2>2
      <3> QED
        BY <1>1, <2>1, <2>2, <3>1, <3>2
    <2>3. CASE j \in 1..n
      <3>1. reviews'[j] = reviews[j]
        BY <1>1, <2>3
      <3>2. \E l \in (i + 1)..(j - 1) :
               reviews[l].patent = reviews[i].patent /\ reviews[l].decision = "fail"
        BY <2>1, <2>3, <3>1 DEF ApprovalsAlternate, n
      <3>3. \A l \in (i + 1)..(j - 1) : reviews'[l] = reviews[l]
        BY <1>1, <2>1, <2>3
      <3> QED
        BY <2>1, <3>2, <3>3
    <2> QED
      BY <1>1, <2>2, <2>3
  <1> QED
    BY <1>4, <1>5

LEMMA AlternateStep ==
  ASSUME TypeInv, FreshIsAbsent, ApprovalsStand, ApprovalsAlternate, Effect
  PROVE  ApprovalsStand' /\ ApprovalsAlternate'
  <1>t. \A i \in 1..Len(reviews) : reviews[i].patent \in Ids
    <2>1. reviews \in Seq(Review)
      BY DEF TypeInv, TypeOK
    <2>2. \A i \in 1..Len(reviews) : reviews[i] \in Review
      BY <2>1
    <2> QED
      BY <2>2 DEF Review
  <1>1. ASSUME UNCHANGED reviews,
               \A q \in Ids : patent[q].status = "approved" => patent'[q].status = "approved"
        PROVE  ApprovalsStand' /\ ApprovalsAlternate'
    BY <1>1, <1>t DEF ApprovalsStand, ApprovalsAlternate
  <1>2. CASE NoEffect
    <2>1. UNCHANGED <<patent, reviews>>
      BY <1>2 DEF NoEffect
    <2> QED
      BY <1>1, <2>1
  <1>3. ASSUME NEW p \in Ids, NEW row, Writes(p, row), UNCHANGED reviews,
               patent[p].status # "approved"
        PROVE  ApprovalsStand' /\ ApprovalsAlternate'
    <2>1. \A q \in Ids : patent[q].status = "approved" => patent'[q].status = "approved"
      BY <1>3, OtherRows
    <2> QED
      BY <1>1, <1>3, <2>1
  <1>4. CASE CreateEffect
    <2>1. nextId \in Ids /\ nextId >= nextId
      BY <1>4, BoundsAssumption DEF CreateEffect, Ids
    <2>2. patent[nextId].status = "absent"
      BY <2>1 DEF FreshIsAbsent
    <2>3. UNCHANGED reviews /\ \E row : Writes(nextId, row)
      BY <1>4 DEF CreateEffect
    <2> QED
      BY <1>3, <2>1, <2>2, <2>3
  <1>5. ASSUME NEW p \in Ids, EditEffect(p) \/ SubmitEffect(p) \/ DeleteEffect(p)
        PROVE  ApprovalsStand' /\ ApprovalsAlternate'
    <2>1. /\ UNCHANGED reviews
          /\ patent[p].status # "approved"
          /\ \E row : Writes(p, row)
      BY <1>5 DEF EditEffect, SubmitEffect, DeleteEffect
    <2> QED
      BY <1>3, <2>1
  <1>6. ASSUME NEW p \in Ids, ApproveEffect(p) \/ DeclineEffect(p)
        PROVE  ApprovalsStand' /\ ApprovalsAlternate'
    <2> DEFINE rev(d) == [patent |-> p, decision |-> d]
    <2>1. \A d \in {"pass", "fail"} : rev(d) \in Review /\ rev(d).patent = p /\ rev(d).decision = d
      BY DEF Review
    <2>2. CASE ApproveEffect(p)
      <3>1. PICK row : Writes(p, row) /\ row.status = "approved"
        BY <2>2 DEF ApproveEffect
      <3>2. reviews' = Append(reviews, rev("pass")) /\ patent[p].status # "approved"
        BY <2>2 DEF ApproveEffect
      <3> HIDE DEF rev
      <3> QED
        BY <2>1, <3>1, <3>2, DecisionStep
    <2>3. CASE DeclineEffect(p)
      <3>1. PICK row : Writes(p, row)
        BY <2>3 DEF DeclineEffect
      <3>2. reviews' = Append(reviews, rev("fail"))
        BY <2>3 DEF DeclineEffect
      <3> HIDE DEF rev
      <3> QED
        BY <2>1, <3>1, <3>2, DecisionStep
    <2> QED
      BY <1>6, <2>2, <2>3
  <1> QED
    BY <1>2, <1>4, <1>5, <1>6 DEF Effect

\* However two admins race, a patent approved twice was declined in between.
THEOREM ApprovalsAlwaysAlternate == Spec => []ApprovalsAlternate
  <1>1. Init => AlternateInv
    BY TableInit DEF Init, AlternateInv, ApprovalsStand, ApprovalsAlternate
  <1>2. AlternateInv /\ [Next]_vars => AlternateInv'
    BY StepHasEffect, TableStep, AlternateStep DEF AlternateInv, TableInv
  <1>3. AlternateInv => ApprovalsAlternate
    BY DEF AlternateInv
  <1> QED
    BY <1>1, <1>2, <1>3, PTL DEF Spec

-----------------------------------------------------------------------------
(* One document, one patent *)

\* A row that is written brings no document of another: it has none, keeps the
\* one it had, or got one that the unique index let through.
LEMMA DocumentKept ==
  ASSUME TypeInv, OneDocumentOnePatent, NEW p \in Ids, NEW row, Writes(p, row),
         \/ row.status = "absent"
         \/ Exists(p) /\ row.documentKey = patent[p].documentKey
         \/ ~KeyTaken(row.documentKey, p)
  PROVE  OneDocumentOnePatent'
  <1>1. /\ patent'[p] = row
        /\ \A q \in Ids \ {p} : patent'[q] = patent[q]
    BY OtherRows
  <1> QED
    BY <1>1 DEF OneDocumentOnePatent, Exists, KeyTaken

LEMMA DocumentStep == TypeInv /\ OneDocumentOnePatent /\ [Next]_vars => OneDocumentOnePatent'
  <1> SUFFICES ASSUME TypeInv, OneDocumentOnePatent, [Next]_vars PROVE OneDocumentOnePatent'
    OBVIOUS
  <1>i. ASSUME NEW s \in Sessions, req[s].op \notin {"none", "create"}
        PROVE  req[s].id \in Ids /\ patent[req[s].id] \in Row /\ req[s] \in Request
    BY <1>i DEF TypeInv, TypeOK, RequestOK
  <1>u. ASSUME UNCHANGED patent PROVE OneDocumentOnePatent'
    BY <1>u DEF OneDocumentOnePatent, Exists
  <1>1. CASE UNCHANGED vars
    BY <1>u, <1>1 DEF vars
  <1>2. ASSUME NEW k \in Keys, Upload(k) PROVE OneDocumentOnePatent'
    BY <1>u, <1>2 DEF Upload
  <1>3. ASSUME NEW s \in Sessions, SessionStep(s) PROVE OneDocumentOnePatent'
    <2>1. CASE UNCHANGED patent
      BY <1>u, <2>1
    <2>2. CASE CreateWrite(s) /\ ~UNCHANGED patent
      <3> DEFINE row == [status |-> "draft", version |-> 1, content |-> req[s].content,
                         documentKey |-> req[s].key, submittedBy |-> UserOf[s]]
      <3>1. /\ nextId \in Ids
            /\ patent' = [patent EXCEPT ![nextId] = row]
            /\ ~KeyTaken(req[s].key, 0)
        BY <2>2 DEF CreateWrite, UniqueViolation
      <3>2. row \in Row /\ row.documentKey = req[s].key
        BY <2>2, ActorsAssumption DEF CreateWrite, At, TypeInv, RequestOK, Row, Statuses
      <3> HIDE DEF row
      <3>3. ~KeyTaken(row.documentKey, nextId)
        BY <3>1, <3>2, BoundsAssumption DEF KeyTaken, Ids
      <3> QED
        BY <3>1, <3>2, <3>3, DocumentKept DEF Writes
    <2>3. CASE UpdateWrite(s) /\ ~UNCHANGED patent
      <3> DEFINE p == req[s].id
                 row == Edited(patent[p], req[s])
      <3>1. p \in Ids /\ patent[p] \in Row /\ req[s] \in Request
        BY <1>i, <2>3 DEF UpdateWrite, At
      <3>2. /\ UpdateWritable(p)
            /\ req[s].key # None => ~UniqueViolation(req[s].key, p)
            /\ patent' = [patent EXCEPT ![p] = row]
        BY <2>3 DEF UpdateWrite
      <3>3. row \in Row
        BY <3>1, EditedType
      <3>4. \/ Exists(p) /\ row.documentKey = patent[p].documentKey
            \/ ~KeyTaken(row.documentKey, p)
        BY <3>2 DEF Edited, UpdateWritable, Editable, Exists, UniqueViolation
      <3> HIDE DEF row
      <3> QED
        BY <3>1, <3>2, <3>3, <3>4, DocumentKept DEF Writes
    <2>4. ASSUME SubmitWrite(s) \/ ReviewWrite(s), ~UNCHANGED patent PROVE OneDocumentOnePatent'
      <3> DEFINE p == req[s].id
                 op == req[s].op
      <3>1. p \in Ids /\ op \in {"submit", "approve", "decline"}
        BY <1>i, <2>4 DEF SubmitWrite, ReviewWrite, At
      <3>2. CanApply(p, op) /\ Apply(p, op)
        BY <2>4 DEF SubmitWrite, ReviewWrite, At
      <3>3. PICK row \in Row : Writes(p, row) /\ row.documentKey = patent[p].documentKey
        BY <3>1, <3>2, ApplyStep DEF Writes
      <3>4. Exists(p)
        BY <3>1, <3>2 DEF CanApply, From, Exists
      <3> QED
        BY <3>1, <3>3, <3>4, DocumentKept
    <2>5. CASE DeleteWrite(s) /\ ~UNCHANGED patent
      <3>1. req[s].id \in Ids
        BY <1>i, <2>5 DEF DeleteWrite, At
      <3>2. Writes(req[s].id, NoRow) /\ NoRow.status = "absent"
        BY <2>5, NoRowType DEF DeleteWrite, Writes, NoRow
      <3> QED
        BY <3>1, <3>2, DocumentKept
    <2> QED
      BY <1>3, <2>1, <2>2, <2>3, <2>4, <2>5
         DEF SessionStep, CreateStart, UpdateRead, SubmitRead, DeleteRead, ReviewRead,
             VerifyAttached, VerifyHead, Discard, ReviewBefore, Abort
  <1> QED
    BY <1>1, <1>2, <1>3 DEF Next

\* Requests that all verified one key never leave it attached to two patents.
THEOREM DocumentsAreNotShared == Spec => []OneDocumentOnePatent
  <1>1. Init => OneDocumentOnePatent
    BY DEF Init, OneDocumentOnePatent, Exists, NoRow
  <1>2. TableInv => TypeInv
    BY DEF TableInv
  <1> QED
    BY <1>1, <1>2, DocumentStep, TableInvariant, PTL DEF Spec

-----------------------------------------------------------------------------
(* The corpus follows the status, but for a decline that misses an approval *)

\* Nothing becomes approved but by the decision of a session that approves.
LEMMA ApprovedByReview ==
  ASSUME TypeInv, FreshIsAbsent, NEW s \in Sessions, SessionStep(s), ~ReviewWrite(s),
         NEW p \in Ids
  PROVE  patent'[p].status = "approved" <=> patent[p].status = "approved"
  <1>i. ASSUME req[s].op \notin {"none", "create"}
        PROVE  req[s].id \in Ids /\ patent[req[s].id] \in Row /\ req[s] \in Request
    BY <1>i DEF TypeInv, TypeOK, RequestOK
  <1>w. ASSUME NEW q \in Ids, NEW row, Writes(q, row),
               row.status # "approved", patent[q].status # "approved"
        PROVE  patent'[p].status = "approved" <=> patent[p].status = "approved"
    BY <1>w, OtherRows
  <1>1. CASE UNCHANGED patent
    BY <1>1
  <1>2. CASE CreateWrite(s) /\ ~UNCHANGED patent
    <2> DEFINE row == [status |-> "draft", version |-> 1, content |-> req[s].content,
                       documentKey |-> req[s].key, submittedBy |-> UserOf[s]]
    <2>1. nextId \in Ids /\ nextId >= nextId /\ patent' = [patent EXCEPT ![nextId] = row]
      BY <1>2, BoundsAssumption DEF CreateWrite, Ids
    <2>2. row \in Row /\ row.status # "approved"
      BY <1>2, ActorsAssumption DEF CreateWrite, At, TypeInv, RequestOK, Row, Statuses
    <2>3. patent[nextId].status = "absent"
      BY <2>1 DEF FreshIsAbsent
    <2> HIDE DEF row
    <2> QED
      BY <1>w, <2>1, <2>2, <2>3 DEF Writes
  <1>3. CASE UpdateWrite(s) /\ ~UNCHANGED patent
    <2> DEFINE q == req[s].id
               row == Edited(patent[q], req[s])
    <2>1. q \in Ids /\ patent[q] \in Row /\ req[s] \in Request
      BY <1>i, <1>3 DEF UpdateWrite, At
    <2>2. UpdateWritable(q) /\ patent' = [patent EXCEPT ![q] = row]
      BY <1>3 DEF UpdateWrite
    <2>3. row \in Row /\ row.status = patent[q].status
      BY <2>1, EditedType
    <2> HIDE DEF row
    <2> QED
      BY <1>w, <2>1, <2>2, <2>3 DEF UpdateWritable, Editable, Writes
  <1>4. CASE SubmitWrite(s) /\ ~UNCHANGED patent
    <2>1. req[s].id \in Ids
      BY <1>i, <1>4 DEF SubmitWrite, At
    <2>2. CanApply(req[s].id, "submit") /\ Apply(req[s].id, "submit")
      BY <1>4 DEF SubmitWrite
    <2>3. PICK row \in Row : Writes(req[s].id, row) /\ row.status = To["submit"]
      BY <2>1, <2>2, ApplyStep DEF Writes
    <2> QED
      BY <1>w, <2>1, <2>2, <2>3 DEF CanApply, From, To
  <1>5. CASE DeleteWrite(s) /\ ~UNCHANGED patent
    <2>1. req[s].id \in Ids
      BY <1>i, <1>5 DEF DeleteWrite, At
    <2> QED
      BY <1>w, <1>5, <2>1, NoRowType DEF DeleteWrite, Deletable, Writes, NoRow
  <1> QED
    BY <1>1, <1>2, <1>3, <1>4, <1>5
       DEF SessionStep, CreateStart, UpdateRead, SubmitRead, DeleteRead, ReviewRead,
           VerifyAttached, VerifyHead, Discard, ReviewBefore, Abort

\* The step that ends an approval withdraws the patent, unless it is the commit of a
\* decline that re-read the patent before it was approved.
LEMMA WithdrawStep ==
  ASSUME TypeInv, FreshIsAbsent, [Next]_vars, NEW p \in Ids,
         patent[p].status = "approved", patent'[p].status # "approved"
  PROVE  \/ outbox' = Append(outbox, Withdrawn(p))
         \/ \E s \in Sessions : MissesApproval(s) /\ req[s].id = p /\ req'[s] # req[s]
  <1>1. PICK s \in Sessions : SessionStep(s)
    BY DEF Next, Upload, vars
  <1>2. ReviewWrite(s)
    BY <1>1, ApprovedByReview
  <1> DEFINE q == req[s].id
             op == req[s].op
  <1>3. /\ q \in Ids /\ op \in {"approve", "decline"}
        /\ CanApply(q, op) /\ Apply(q, op) /\ Announce(req[s])
    BY <1>2 DEF ReviewWrite, At, TypeInv, RequestOK
  <1>4. PICK row \in Row : Writes(q, row) /\ row.status = To[op]
    BY <1>3, ApplyStep DEF Writes
  <1>5. q = p /\ op = "decline"
    BY <1>3, <1>4, OtherRows DEF To
  <1>6. CASE req[s].before = "approved"
    BY <1>3, <1>5, <1>6 DEF Announce
  <1>7. CASE req[s].before # "approved"
    <2>1. MissesApproval(s)
      BY <1>2, <1>5, <1>7 DEF MissesApproval, ReviewWrite, At
    <2>2. req'[s] # req[s]
      BY <1>2 DEF ReviewWrite, At, Finish, NoRequest, TypeInv, TypeOK
    <2> QED
      BY <1>5, <2>1, <2>2
  <1> QED
    BY <1>6, <1>7

LEMMA CorpusStep ==
  ASSUME TypeInv, Effect, ApprovedIsAnnounced', NEW p \in Ids, CorpusMatches(p),
         patent[p].status = "approved" /\ patent'[p].status # "approved"
            => outbox' = Append(outbox, Withdrawn(p))
  PROVE  CorpusMatches(p)'
  <1>1. ASSUME patent'[p].status # "approved",
               NEW i \in 1..Len(outbox'), IsLast(outbox', i, p), outbox'[i].type = "Upserted"
        PROVE  FALSE
    <2>o. outbox \in Seq(Event) /\ Withdrawn(p) \in Event
      BY <1>1 DEF TypeInv, TypeOK, Withdrawn, Event, Row
    <2>1. ASSUME patent[p].status # "approved", IsLast(outbox, i, p), outbox[i] = outbox'[i]
          PROVE  FALSE
      BY <1>1, <2>1 DEF CorpusMatches, IsLast
    <2>2. CASE outbox' = Append(outbox, Withdrawn(p))
      BY <1>1, <2>o, <2>2 DEF IsLast, Withdrawn
    <2>3. CASE outbox' = outbox
      <3>1. patent[p].status # "approved"
        BY <1>1, <2>2
      <3> QED
        BY <1>1, <2>1, <2>3, <3>1
    <2>4. ASSUME NEW e \in Event, e.patent # p, outbox' = Append(outbox, e) PROVE FALSE
      <3>1. patent[p].status # "approved"
        BY <1>1, <2>2
      <3>2. i \in 1..Len(outbox) /\ outbox'[i] = outbox[i]
        BY <1>1, <2>o, <2>4 DEF IsLast
      <3>3. IsLast(outbox, i, p)
        BY <1>1, <2>o, <2>4, <3>2 DEF IsLast
      <3> QED
        BY <2>1, <3>1, <3>2, <3>3
    <2>5. \A q \in Ids : /\ Upserted(q) \in Event /\ Upserted(q).patent = q
                         /\ Withdrawn(q) \in Event /\ Withdrawn(q).patent = q
      BY DEF TypeInv, TypeOK, Upserted, Withdrawn, Event, Row
    <2>6. ASSUME NEW q \in Ids, ApproveEffect(q) PROVE FALSE
      <3>1. q # p /\ outbox' = Append(outbox, Upserted(q))
        BY <1>1, <2>6, OtherRows DEF ApproveEffect
      <3> QED
        BY <2>4, <2>5, <3>1
    <2>7. ASSUME NEW q \in Ids, DeclineEffect(q) PROVE FALSE
      <3>1. outbox' = outbox \/ outbox' = Append(outbox, Withdrawn(q))
        BY <2>7 DEF DeclineEffect
      <3> QED
        BY <2>2, <2>3, <2>4, <2>5, <3>1
    <2> QED
      BY <2>3, <2>6, <2>7
         DEF Effect, NoEffect, CreateEffect, EditEffect, SubmitEffect, DeleteEffect
  <1>2. ASSUME patent'[p].status = "approved"
        PROVE  \E i \in 1..Len(outbox') : IsLast(outbox', i, p) /\ outbox'[i].type = "Upserted"
    <2>1. \E i \in 1..Len(outbox') : IsLast(outbox', i, p) /\ outbox'[i] = Upserted(p)'
      BY <1>2 DEF ApprovedIsAnnounced
    <2>2. Upserted(p)'.type = "Upserted"
      BY DEF Upserted
    <2> QED
      BY <2>1, <2>2
  <1> QED
    BY <1>1, <1>2 DEF CorpusMatches

\* Whatever any number of admins decide at once, what consumers were last told stays
\* true of a patent until a decline commits that had not seen its approval.
THEOREM CorpusFollowsReview == Spec => CorpusFollowsStatus
  <1> DEFINE Follows ==
               \A p \in Ids : CorpusMatches(p) =>
                  \/ CorpusMatches(p)'
                  \/ \E s \in Sessions : MissesApproval(s) /\ req[s].id = p /\ req'[s] # req[s]
  <1>1. ASSUME TableInv, TableInv', [Next]_vars PROVE Follows
    <2>1. TypeInv /\ FreshIsAbsent /\ Effect /\ ApprovedIsAnnounced'
      BY <1>1, StepHasEffect DEF TableInv
    <2> QED
      BY <1>1, <2>1, WithdrawStep, CorpusStep
  <1>2. TableInv /\ TableInv' /\ [Next]_vars => [Follows]_vars
    BY <1>1
  <1> QED
    BY <1>2, TableInvariant, PTL DEF Spec, CorpusFollowsStatus

-----------------------------------------------------------------------------
(* A version stands for one text, but for edits that overlap *)

\* Only an update's write changes the text, the document or the version of a patent
\* that exists before and after, and only a create's one brings a patent.
LEMMA TextByUpdate ==
  ASSUME TypeInv, NEW s \in Sessions, SessionStep(s), ~UpdateWrite(s), NEW p \in Ids,
         p < nextId, Exists(p)'
  PROVE  /\ Exists(p)
         /\ patent'[p].content = patent[p].content
         /\ patent'[p].documentKey = patent[p].documentKey
         /\ patent'[p].version = patent[p].version
  <1>i. ASSUME req[s].op \notin {"none", "create"}
        PROVE  req[s].id \in Ids /\ patent[req[s].id] \in Row
    BY <1>i DEF TypeInv, TypeOK, RequestOK
  <1>1. CASE UNCHANGED patent
    BY <1>1 DEF Exists
  <1>2. CASE CreateWrite(s) /\ ~UNCHANGED patent
    <2> DEFINE row == [status |-> "draft", version |-> 1, content |-> req[s].content,
                       documentKey |-> req[s].key, submittedBy |-> UserOf[s]]
    <2>1. nextId \in Ids /\ patent' = [patent EXCEPT ![nextId] = row]
      BY <1>2 DEF CreateWrite
    <2>2. patent'[p] = patent[p]
      BY <2>1, BoundsAssumption DEF TypeInv, TypeOK, Ids
    <2> QED
      BY <2>2 DEF Exists
  <1>3. ASSUME SubmitWrite(s) \/ ReviewWrite(s), ~UNCHANGED patent
        PROVE  /\ Exists(p)
               /\ patent'[p].content = patent[p].content
               /\ patent'[p].documentKey = patent[p].documentKey
               /\ patent'[p].version = patent[p].version
    <2> DEFINE q == req[s].id
               op == req[s].op
    <2>1. q \in Ids /\ op \in {"submit", "approve", "decline"}
      BY <1>i, <1>3 DEF SubmitWrite, ReviewWrite, At
    <2>2. CanApply(q, op) /\ Apply(q, op)
      BY <1>3 DEF SubmitWrite, ReviewWrite, At
    <2>3. PICK row \in Row : Writes(q, row) /\ SameText(q, row)
      BY <2>1, <2>2, ApplyStep DEF Writes, SameText
    <2>4. Exists(q)
      BY <2>1, <2>2 DEF CanApply, From, Exists
    <2> QED
      BY <2>1, <2>3, <2>4, OtherRows DEF SameText, Exists
  <1>4. CASE DeleteWrite(s) /\ ~UNCHANGED patent
    <2>1. req[s].id \in Ids /\ Writes(req[s].id, NoRow)
      BY <1>i, <1>4, NoRowType DEF DeleteWrite, At, Writes
    <2> QED
      BY <2>1, OtherRows DEF Exists, NoRow
  <1> QED
    BY <1>1, <1>2, <1>3, <1>4
       DEF SessionStep, CreateStart, UpdateRead, SubmitRead, DeleteRead, ReviewRead,
           VerifyAttached, VerifyHead, Discard, ReviewBefore, Abort

\* An update that writes finds the patent it read, and leaves one that exists.
LEMMA UpdateWrites ==
  ASSUME TypeInv, NEW s \in Sessions, UpdateWrite(s), ~UNCHANGED patent
  PROVE  /\ req[s].id \in Ids /\ req[s].op = "update" /\ req[s].pc = "write"
         /\ Exists(req[s].id)
         /\ req[s].key # None => ~KeyTaken(req[s].key, req[s].id)
         /\ Writes(req[s].id, Edited(patent[req[s].id], req[s]))
         /\ Edited(patent[req[s].id], req[s]).status = patent[req[s].id].status
  <1>1. req[s].id \in Ids /\ patent[req[s].id] \in Row /\ req[s] \in Request
    BY DEF UpdateWrite, At, TypeInv, TypeOK, RequestOK
  <1>2. Edited(patent[req[s].id], req[s]) \in Row
        /\ Edited(patent[req[s].id], req[s]).status = patent[req[s].id].status
    BY <1>1, EditedType
  <1>3. UpdateWritable(req[s].id) => Exists(req[s].id)
    BY DEF UpdateWritable, Editable, Exists
  <1> QED
    BY <1>1, <1>2, <1>3 DEF UpdateWrite, At, Writes, UniqueViolation

\* A version never falls, and one that stays is that of the same text, unless an edit
\* is written that read another text.
LEMMA VersionsOnlyGrow ==
  ASSUME TypeInv, FreshIsAbsent, [Next]_vars, NEW p \in Ids, Exists(p), Exists(p)',
         ~\E s \in Sessions : OverlapsEdit(s) /\ req[s].id = p /\ req'[s] # req[s]
  PROVE  /\ patent[p].version <= patent'[p].version
         /\ patent[p].version = patent'[p].version =>
               /\ patent'[p].content = patent[p].content
               /\ patent'[p].documentKey = patent[p].documentKey
  <1>t. patent[p] \in Row /\ patent[p].version \in Nat
    BY DEF TypeInv, TypeOK, Row
  <1>1. CASE UNCHANGED patent
    BY <1>t, <1>1
  <1>2. ASSUME NEW s \in Sessions, SessionStep(s), ~UpdateWrite(s)
        PROVE  /\ patent'[p].content = patent[p].content
               /\ patent'[p].documentKey = patent[p].documentKey
               /\ patent'[p].version = patent[p].version
    <2>1. p < nextId
      BY BoundsAssumption DEF FreshIsAbsent, Exists, TypeInv, TypeOK, Ids
    <2> QED
      BY <1>2, <2>1, TextByUpdate
  <1>3. ASSUME NEW s \in Sessions, UpdateWrite(s), ~UNCHANGED patent
        PROVE  /\ patent[p].version <= patent'[p].version
               /\ patent[p].version = patent'[p].version =>
                     /\ patent'[p].content = patent[p].content
                     /\ patent'[p].documentKey = patent[p].documentKey
    <2> DEFINE q == req[s].id
               row == Edited(patent[q], req[s])
    <2>1. q \in Ids /\ Writes(q, row) /\ req[s].op = "update" /\ req[s].pc = "write"
      BY <1>3, UpdateWrites
    <2>2. patent'[q] = row /\ \A o \in Ids : o # q => patent'[o] = patent[o]
      BY <2>1, OtherRows
    <2>3. CASE q # p
      BY <1>t, <2>2, <2>3
    <2>4. CASE q = p
      <3>1. req'[s].pc # "write"
        BY <1>3, <2>1 DEF UpdateWrite, Goto, Finish, NoRequest, TypeInv, TypeOK, Request
      <3>2. ~OverlapsEdit(s)
        BY <2>1, <2>4, <3>1
      <3>3. TextOf(req[s].seen) = TextOf(patent[p])
        BY <2>1, <2>4, <3>2 DEF OverlapsEdit, At
      <3>4. /\ patent[p].content = req[s].seen.content
            /\ patent[p].documentKey = req[s].seen.documentKey
        BY <3>3 DEF TextOf
      <3>5. /\ patent[p].version <= row.version
            /\ patent[p].version = row.version =>
                  row.content = patent[p].content /\ row.documentKey = patent[p].documentKey
        BY <1>t, <2>4, <3>4 DEF Edited, ContentChanged
      <3> HIDE DEF row
      <3> QED
        BY <2>2, <2>4, <3>5
    <2> QED
      BY <2>3, <2>4
  <1> QED
    BY <1>t, <1>1, <1>2, <1>3 DEF Next, Upload, vars

LEMMA LabelStep ==
  ASSUME TableInv, TableInv', Effect, NEW p \in Ids, Labelled(p),
         Exists(p) /\ Exists(p)' =>
            /\ patent[p].version <= patent'[p].version
            /\ patent[p].version = patent'[p].version =>
                  /\ patent'[p].content = patent[p].content
                  /\ patent'[p].documentKey = patent[p].documentKey
  PROVE  Labelled(p)'
  <1>t. /\ outbox \in Seq(Event)
        /\ patent[p].version \in Nat /\ patent'[p].version \in Nat
        /\ \A i \in 1..Len(outbox) : outbox[i] \in Event
    BY DEF TableInv, TypeInv, TypeOK, Row
  <1>e. /\ \A i \in 1..Len(outbox) : outbox[i].patent = p => Exists(p)
        /\ \A i \in 1..Len(outbox') : outbox'[i].patent = p => Exists(p)'
    BY DEF TableInv, TrailExplainsStatus, Exists
  <1>m. ASSUME NEW i \in 1..Len(outbox), outbox[i].type = "Upserted", outbox[i].patent = p,
               Exists(p)'
        PROVE  /\ outbox[i].version <= patent'[p].version
               /\ outbox[i].version = patent'[p].version =>
                     TextOf(outbox[i]) = TextOf(patent'[p])
    <2>1. outbox[i].version \in Nat /\ Exists(p)
      BY <1>m, <1>t, <1>e DEF Event
    <2>2. /\ outbox[i].version <= patent[p].version
          /\ outbox[i].version = patent[p].version => TextOf(outbox[i]) = TextOf(patent[p])
      BY <1>m DEF Labelled
    <2>3. patent[p].version = patent'[p].version => TextOf(patent'[p]) = TextOf(patent[p])
      BY <1>m, <2>1 DEF TextOf
    <2>4. patent[p].version <= patent'[p].version
      BY <1>m, <2>1
    <2> QED
      BY <1>t, <2>1, <2>2, <2>3, <2>4
  <1>3. CASE UNCHANGED outbox
    BY <1>3, <1>e, <1>m DEF Labelled
  <1>4. ASSUME NEW e \in Event, outbox' = Append(outbox, e),
               e.type = "Upserted" /\ e.patent = p =>
                   e.version = patent'[p].version /\ TextOf(e) = TextOf(patent'[p])
        PROVE  Labelled(p)'
    <2>1. /\ Len(outbox') = Len(outbox) + 1 /\ Len(outbox) \in Nat
          /\ outbox'[Len(outbox) + 1] = e
          /\ \A i \in 1..Len(outbox) : outbox'[i] = outbox[i]
      BY <1>t, <1>4
    <2>2. \A i \in 1..Len(outbox') : i \in 1..Len(outbox) \/ outbox'[i] = e
      BY <2>1
    <2> SUFFICES ASSUME NEW i \in 1..Len(outbox'), outbox'[i].type = "Upserted",
                        outbox'[i].patent = p
                 PROVE  /\ outbox'[i].version <= patent'[p].version
                        /\ outbox'[i].version = patent'[p].version =>
                              TextOf(outbox'[i]) = TextOf(patent'[p])
      BY DEF Labelled, TextOf
    <2>3. CASE i \in 1..Len(outbox)
      BY <1>e, <1>m, <2>1, <2>3
    <2>4. CASE outbox'[i] = e
      BY <1>4, <1>t, <2>4
    <2> QED
      BY <2>2, <2>3, <2>4
  <1>5. ASSUME NEW q \in Ids, ApproveEffect(q) PROVE Labelled(p)'
    <2>1. PICK row : Writes(q, row) /\ SameText(q, row)
      BY <1>5 DEF ApproveEffect
    <2>2. patent'[q] = row
      BY <2>1, OtherRows DEF TableInv
    <2>3. Upserted(q) \in Event /\ Upserted(q).patent = q
      BY DEF TableInv, TypeInv, TypeOK, Upserted, Event, Row
    <2>4. Upserted(q).version = patent'[q].version /\ TextOf(Upserted(q)) = TextOf(patent'[q])
      BY <2>1, <2>2 DEF SameText, Upserted, TextOf
    <2> QED
      BY <1>4, <1>5, <2>3, <2>4 DEF ApproveEffect
  <1>6. ASSUME NEW q \in Ids, DeclineEffect(q) PROVE Labelled(p)'
    <2>1. Withdrawn(q) \in Event /\ Withdrawn(q).type # "Upserted"
      BY DEF TableInv, TypeInv, TypeOK, Withdrawn, Event, Row
    <2> QED
      BY <1>3, <1>4, <1>6, <2>1 DEF DeclineEffect
  <1> QED
    BY <1>3, <1>5, <1>6
       DEF Effect, NoEffect, CreateEffect, EditEffect, SubmitEffect, DeleteEffect

\* However many sessions edit, submit, review and delete at once, an announced version
\* stands for one text and one document until an edit that overlapped another is written.
THEOREM VersionsKeepTheirText == Spec => VersionsIdentifyText
  <1> DEFINE Keeps ==
               \A p \in Ids : Labelled(p) =>
                  \/ Labelled(p)'
                  \/ \E s \in Sessions : OverlapsEdit(s) /\ req[s].id = p /\ req'[s] # req[s]
  <1>1. ASSUME TableInv, TableInv', [Next]_vars PROVE Keeps
    <2>1. TypeInv /\ FreshIsAbsent /\ Effect
      BY <1>1, StepHasEffect DEF TableInv
    <2> QED
      BY <1>1, <2>1, VersionsOnlyGrow, LabelStep
  <1>2. TableInv /\ TableInv' /\ [Next]_vars => [Keeps]_vars
    BY <1>1
  <1> QED
    BY <1>2, TableInvariant, PTL DEF Spec, VersionsIdentifyText

-----------------------------------------------------------------------------
(* PatentWorkflow implements Lifecycle *)

LEMMA LifecycleInit == Init => Promise!Init
  <1> SUFFICES ASSUME Init PROVE Promise!Init
    OBVIOUS
  <1>1. StatusOf = [p \in Ids |-> "absent"] /\ VersionOf = [p \in Ids |-> 0]
    BY DEF Init, NoRow, StatusOf, VersionOf
  <1>2. TextsOf \in [Ids -> AllTexts]
    BY DEF Init, NoRow, TextsOf, TextOf, AllTexts
  <1>3. Retired = {}
    BY DEF Init, Retired, Ids
  <1> QED
    BY <1>1, <1>2, <1>3 DEF Promise!Init

\* What one written row changes under the refinement mapping.
LEMMA MappedWrite ==
  ASSUME TypeInv, NEW p \in Ids, NEW row, Writes(p, row)
  PROVE  /\ StatusOf' = [StatusOf EXCEPT ![p] = row.status]
         /\ TextsOf' = [TextsOf EXCEPT ![p] = TextOf(row)]
         /\ VersionOf' = [VersionOf EXCEPT ![p] = row.version]
         /\ TextOf(row) \in AllTexts
         /\ SameText(p, row) => UNCHANGED <<TextsOf, VersionOf>>
         /\ UNCHANGED nextId /\ (row.status = "absent" <=> patent[p].status = "absent")
               => UNCHANGED Retired
  <1>1. patent'[p] = row /\ \A q \in Ids : q # p => patent'[q] = patent[q]
    BY OtherRows
  <1>2. TextOf(row) \in AllTexts
    BY DEF Writes, Row, TextOf, AllTexts
  <1>3. /\ StatusOf' = [StatusOf EXCEPT ![p] = row.status]
        /\ VersionOf' = [VersionOf EXCEPT ![p] = row.version]
    BY <1>1 DEF StatusOf, VersionOf
  <1>4. TextsOf' = [TextsOf EXCEPT ![p] = TextOf(row)]
    BY <1>1 DEF TextsOf
  <1>5. ASSUME SameText(p, row) PROVE UNCHANGED <<TextsOf, VersionOf>>
    BY <1>1, <1>5 DEF SameText, TextsOf, TextOf, VersionOf
  <1>6. ASSUME UNCHANGED nextId, row.status = "absent" <=> patent[p].status = "absent"
        PROVE  UNCHANGED Retired
    <2>1. \A q \in Ids : Exists(q)' <=> Exists(q)
      BY <1>1, <1>6 DEF Exists
    <2> QED
      BY <1>6, <2>1 DEF Retired
  <1> QED
    BY <1>2, <1>3, <1>4, <1>5, <1>6

\* A transition of the lifecycle is the same transition of the abstract one.
LEMMA MappedTransition ==
  ASSUME TypeInv, NEW p \in Ids, NEW to \in {"pending_admin", "approved", "declined"},
         NEW from \in SUBSET (Statuses \ {"absent"}), patent[p].status \in from,
         \E row : Writes(p, row) /\ SameText(p, row) /\ row.status = to,
         UNCHANGED nextId
  PROVE  Promise!Become(p, from, to) /\ UNCHANGED <<TextsOf, VersionOf, Retired>>
  <1>1. PICK row : Writes(p, row) /\ SameText(p, row) /\ row.status = to
    OBVIOUS
  <1>2. StatusOf[p] = patent[p].status
    BY DEF StatusOf
  <1> QED
    BY <1>1, <1>2, MappedWrite DEF Promise!Become

LEMMA LifecycleStep == TypeInv /\ FreshIsAbsent /\ [Next]_vars => [Promise!Next]_(Promise!vars)
  <1> SUFFICES ASSUME TypeInv, FreshIsAbsent, Effect
               PROVE  Promise!Next \/ UNCHANGED <<StatusOf, TextsOf, VersionOf, Retired>>
    BY StepHasEffect DEF Promise!vars
  <1>n. nextId \in Nat
    BY BoundsAssumption DEF TypeInv, TypeOK
  <1>s. \A p \in Ids : StatusOf[p] = patent[p].status /\ VersionOf[p] = patent[p].version
    BY DEF StatusOf, VersionOf
  <1>1. ASSUME NoEffect PROVE Promise!Next \/ UNCHANGED <<StatusOf, TextsOf, VersionOf, Retired>>
    <2>1. UNCHANGED <<StatusOf, TextsOf, VersionOf>> /\ \A p \in Ids : Exists(p)' <=> Exists(p)
      BY <1>1 DEF NoEffect, StatusOf, TextsOf, VersionOf, Exists
    <2>2. CASE UNCHANGED nextId
      BY <2>1, <2>2 DEF Retired
    <2>3. CASE nextId \in Ids /\ nextId' = nextId + 1
      <3>1. StatusOf[nextId] = "absent" /\ ~Exists(nextId)
        BY <1>n, <1>s, <2>3 DEF FreshIsAbsent, Exists
      <3>2. \A p \in Ids : p < nextId + 1 <=> p < nextId \/ p = nextId
        BY <1>n DEF Ids
      <3>3. Retired' = Retired \cup {nextId}
        BY <2>1, <2>3, <3>1, <3>2 DEF Retired
      <3>4. Promise!Skip(nextId)
        BY <2>1, <3>1, <3>3 DEF Promise!Skip
      <3> QED
        BY <2>3, <3>4 DEF Promise!Next
    <2> QED
      BY <1>1, <2>2, <2>3 DEF NoEffect
  <1>2. CASE CreateEffect
    <2>1. PICK row : Writes(nextId, row) /\ row.status = "draft" /\ row.version = 1
      BY <1>2 DEF CreateEffect
    <2>2. nextId \in Ids /\ nextId' = nextId + 1 /\ patent[nextId].status = "absent"
      BY <1>2, BoundsAssumption DEF CreateEffect, FreshIsAbsent, Ids
    <2>3. nextId \notin Retired
      BY <1>n DEF Retired
    <2>4. UNCHANGED Retired
      <3>1. patent'[nextId].status # "absent" /\ \A q \in Ids : q # nextId => patent'[q] = patent[q]
        BY <2>1, <2>2, OtherRows
      <3>2. \A q \in Ids : (q < nextId + 1 /\ q # nextId) <=> q < nextId
        BY <1>n DEF Ids
      <3> QED
        BY <2>2, <3>1, <3>2 DEF Retired, Exists
    <2>5. Promise!Create(nextId)
      BY <1>s, <2>1, <2>2, <2>3, <2>4, MappedWrite DEF Promise!Create, Promise!Become
    <2> QED
      BY <2>2, <2>5 DEF Promise!Next
  <1>3. ASSUME NEW p \in Ids, EditEffect(p) PROVE Promise!Next
    <2>1. PICK row : /\ Writes(p, row)
                     /\ row.status = patent[p].status
                     /\ row.version \in {patent[p].version, patent[p].version + 1}
      BY <1>3 DEF EditEffect
    <2>2. PICK n \in {0, 1} : row.version = VersionOf[p] + n
      BY <1>s, <2>1 DEF TypeInv, TypeOK, Row
    <2>3. UNCHANGED StatusOf
      BY <2>1, OtherRows DEF StatusOf
    <2>4. VersionOf' = [VersionOf EXCEPT ![p] = VersionOf[p] + n]
      BY <2>1, <2>2, MappedWrite
    <2>5. UNCHANGED Retired
      BY <1>3, <2>1, MappedWrite DEF EditEffect
    <2>6. \E t \in AllTexts : TextsOf' = [TextsOf EXCEPT ![p] = t]
      BY <2>1, MappedWrite
    <2>7. Promise!Edit(p)
      BY <1>3, <1>s, <2>2, <2>3, <2>4, <2>5, <2>6 DEF EditEffect, Promise!Edit
    <2> QED
      BY <2>7 DEF Promise!Next
  <1>4. ASSUME NEW p \in Ids, SubmitEffect(p) PROVE Promise!Next
    <2>1. Promise!Submit(p)
      BY <1>4, MappedTransition DEF SubmitEffect, Promise!Submit, Statuses
    <2> QED
      BY <2>1 DEF Promise!Next
  <1>5. ASSUME NEW p \in Ids, ApproveEffect(p) PROVE Promise!Next
    <2>1. patent[p].status \in {"pending_admin"}
      BY <1>5 DEF ApproveEffect
    <2>2. Promise!Approve(p)
      BY <1>5, <2>1, MappedTransition DEF ApproveEffect, Promise!Approve, Statuses
    <2> QED
      BY <2>2 DEF Promise!Next
  <1>6. ASSUME NEW p \in Ids, DeclineEffect(p) PROVE Promise!Next
    <2>1. Promise!Decline(p)
      BY <1>6, MappedTransition DEF DeclineEffect, Promise!Decline, Statuses
    <2> QED
      BY <2>1 DEF Promise!Next
  <1>7. ASSUME NEW p \in Ids, DeleteEffect(p) PROVE Promise!Next
    <2>1. Writes(p, NoRow) /\ patent[p].status = "draft" /\ UNCHANGED nextId
      BY <1>7 DEF DeleteEffect
    <2>2. p < nextId
      BY <1>n, <2>1 DEF FreshIsAbsent, Ids
    <2>3. Retired' = Retired \cup {p}
      BY <2>1, <2>2, OtherRows DEF Retired, Exists, NoRow
    <2>4. NoRow.status = "absent" /\ NoRow.version = 0
      BY DEF NoRow
    <2>5. Promise!Delete(p)
      BY <1>s, <2>1, <2>3, <2>4, MappedWrite DEF Promise!Delete, Promise!Become
    <2> QED
      BY <2>5 DEF Promise!Next
  <1> QED
    BY <1>1, <1>2, <1>3, <1>4, <1>5, <1>6, <1>7 DEF Effect

\* Every interleaving of the handlers is a behaviour of the lifecycle diagram.
THEOREM WorkflowImplementsLifecycle == Spec => ImplementsLifecycle
  <1>1. TableInv /\ [Next]_vars => [Promise!Next]_(Promise!vars)
    BY LifecycleStep DEF TableInv
  <1> QED
    BY LifecycleInit, <1>1, TableInvariant, PTL DEF Spec, ImplementsLifecycle, Promise!Spec

=============================================================================
