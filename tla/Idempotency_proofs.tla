-------------------------- MODULE Idempotency_proofs --------------------------
(***************************************************************************)
(* Proofs about Idempotency, for any sessions, users, headers, keys and    *)
(* texts.                                                                  *)
(***************************************************************************)
EXTENDS Idempotency, PatentWorkflow_proofs

Call == [pc: {"idle", "reserve", "lookup", "handler", "settle", "answer"}, id: AllIds \cup {<<None, None>>},
         body: Body \cup {NoBody}, reserved: BOOLEAN, patent: Nat]

Owns(s, id) == call[s].reserved /\ call[s].id = id

\* The middleware's state is of its kind; only a request that is about to handle
\* or settle has a key, and the record of that key is its own.
CallsOK ==
    /\ idem \in [AllIds -> [state: {"absent", "in flight", "done"}, body: Body \cup {NoBody},
                            patent: Nat]]
    /\ call \in [Sessions -> Call]
    /\ \A s \in Sessions :
          /\ call[s].pc # "idle" => call[s].id \in AllIds /\ call[s].body \in Body
          /\ call[s].pc = "settle" => call[s].reserved
          /\ call[s].reserved => call[s].pc \in {"handler", "settle"}

\* Each key has at most one owner, whose record it is; a key in flight has an
\* owner or has lost it, and a lost one never gets another.
KeysOK ==
    /\ lost \subseteq AllIds
    /\ \A id \in AllIds :
          /\ \A s, t \in Sessions : Owns(s, id) /\ Owns(t, id) => s = t
          /\ \A s \in Sessions : Owns(s, id) =>
                idem[id].state = "in flight" /\ idem[id].body = call[s].body /\ id \notin lost
          /\ id \in lost => idem[id].state = "in flight"
          /\ idem[id].state = "in flight" => id \in lost \/ \E s \in Sessions : Owns(s, id)

\* This answer is on record under its key, unless nobody could record it.
Recorded(a) ==
    /\ a.id \in AllIds
    /\ \/ a.id \in lost
       \/ idem[a.id].state = "done" /\ idem[a.id].body = a.body /\ idem[a.id].patent = a.patent

\* Whoever was answered, or is about to be, is answered what is on record.
AnswersOK ==
    /\ \A a \in answered : Recorded(a)
    /\ \A s \in Sessions : call[s].pc = "answer" /\ call[s].patent # 0 => Recorded(call[s])

KeyInv == CallsOK /\ KeysOK /\ AnswersOK

LEMMA NobodyNamesNone == <<None, None>> \notin AllIds
  BY NoneAssumption DEF AllIds

LEMMA KeyInit == IdemInit => KeyInv
  <1> SUFFICES ASSUME IdemInit PROVE KeyInv
    OBVIOUS
  <1>1. NoCall \in Call /\ NoCall.pc = "idle" /\ NoCall.reserved = FALSE
    BY DEF NoCall, Call
  <1>2. Absent \in [state: {"absent", "in flight", "done"}, body: Body \cup {NoBody}, patent: Nat]
        /\ Absent.state = "absent"
    BY DEF Absent
  <1>3. /\ idem = [id \in AllIds |-> Absent]
        /\ call = [s \in Sessions |-> NoCall]
        /\ answered = {} /\ lost = {}
    BY DEF IdemInit
  <1> HIDE DEF NoCall, Absent
  <1>4. CallsOK
    BY <1>1, <1>2, <1>3 DEF CallsOK
  <1>5. KeysOK
    BY <1>1, <1>2, <1>3 DEF KeysOK, Owns
  <1>6. AnswersOK
    BY <1>1, <1>3 DEF AnswersOK
  <1> QED
    BY <1>4, <1>5, <1>6 DEF KeyInv

-----------------------------------------------------------------------------
(* The steps of the middleware, seen from its own tables *)

\* One request moves on without touching keys it does not own.
LEMMA MoveStep ==
  ASSUME KeyInv, NEW s \in Sessions, NEW c \in Call, call' = [call EXCEPT ![s] = c],
         c.reserved = call[s].reserved, c.reserved => c.id = call[s].id /\ c.body = call[s].body,
         c.pc # "idle" => c.id \in AllIds /\ c.body \in Body,
         c.pc = "settle" => c.reserved,
         c.reserved => c.pc \in {"handler", "settle"},
         c.pc # "answer",
         UNCHANGED <<idem, lost>>,
         \A a \in answered' \ answered : Recorded(a)
  PROVE  KeyInv'
  <1>1. /\ call' \in [Sessions -> Call]
        /\ call'[s] = c
        /\ \A t \in Sessions \ {s} : call'[t] = call[t]
    BY DEF KeyInv, CallsOK
  <1>2. CallsOK'
    BY <1>1 DEF KeyInv, CallsOK
  <1>3. \A t \in Sessions, id \in AllIds :
           Owns(t, id)' <=> Owns(t, id)
    BY <1>1 DEF Owns
  <1>4. \A t \in Sessions, id \in AllIds : Owns(t, id) => call'[t].body = call[t].body
    BY <1>1 DEF Owns
  <1>5. KeysOK'
    BY <1>3, <1>4 DEF KeyInv, KeysOK
  <1>6. AnswersOK'
    <2>1. \A a : Recorded(a)' <=> Recorded(a)
      BY DEF Recorded
    <2>2. \A t \in Sessions : call'[t].pc = "answer" => call'[t] = call[t]
      BY <1>1
    <2>3. \A a \in answered' : Recorded(a)
      BY DEF KeyInv, AnswersOK
    <2>4. \A t \in Sessions : call'[t].pc = "answer" /\ call'[t].patent # 0 => Recorded(call'[t])
      BY <2>2 DEF KeyInv, AnswersOK
    <2> QED
      BY <2>1, <2>3, <2>4 DEF AnswersOK, Recorded
  <1> QED
    BY <1>2, <1>5, <1>6 DEF KeyInv

\* One request lets go of a key: it settled it, or it is lost.
LEMMA ReleaseStep ==
  ASSUME KeyInv, NEW s \in Sessions, NEW c \in Call, call' = [call EXCEPT ![s] = c],
         c.reserved = FALSE, c.pc \in {"idle", "answer"},
         c.pc = "answer" =>
            c.id = call[s].id /\ c.body = call[s].body /\ c.patent = call[s].patent,
         call[s].reserved,
         \/ UNCHANGED idem /\ lost' = lost \cup {call[s].id}
         \/ /\ idem' = [idem EXCEPT ![call[s].id] = Settled(s)]
            /\ UNCHANGED lost,
         UNCHANGED answered
  PROVE  KeyInv'
  <1> DEFINE k == call[s].id
  <1>1. /\ k \in AllIds /\ Owns(s, k) /\ idem[k].state = "in flight"
        /\ idem[k].body = call[s].body /\ k \notin lost
        /\ call[s] \in Call /\ call[s].body \in Body
    <2>1. call[s] \in Call /\ k \in AllIds /\ call[s].body \in Body
      BY DEF KeyInv, CallsOK
    <2>2. Owns(s, k)
      BY DEF Owns
    <2> HIDE DEF k
    <2> QED
      BY <2>1, <2>2 DEF KeyInv, KeysOK
  <1>2. /\ call' \in [Sessions -> Call]
        /\ call'[s] = c
        /\ \A t \in Sessions \ {s} : call'[t] = call[t]
    BY DEF KeyInv, CallsOK
  <1>3. \A t \in Sessions, id \in AllIds : Owns(t, id)' <=> Owns(t, id) /\ t # s
    BY <1>2 DEF Owns
  <1>4. \A t \in Sessions : Owns(t, k) => t = s
    BY <1>1 DEF KeyInv, KeysOK
  <1>5. /\ idem' \in [AllIds -> [state: {"absent", "in flight", "done"}, body: Body \cup {NoBody},
                                 patent: Nat]]
        /\ \A id \in AllIds \ {k} : idem'[id] = idem[id]
        /\ \/ k \in lost' /\ idem'[k] = idem[k]
           \/ k \notin lost' /\ call[s].patent = 0 /\ idem'[k].state = "absent"
           \/ /\ k \notin lost' /\ call[s].patent # 0 /\ idem'[k].state = "done"
              /\ idem'[k].body = call[s].body /\ idem'[k].patent = call[s].patent
    <2>1. idem \in [AllIds -> [state: {"absent", "in flight", "done"}, body: Body \cup {NoBody},
                               patent: Nat]]
      BY DEF KeyInv, CallsOK
    <2>2. CASE UNCHANGED idem /\ lost' = lost \cup {k}
      BY <2>1, <2>2
    <2>3. CASE idem' = [idem EXCEPT ![k] = Settled(s)] /\ UNCHANGED lost
      BY <1>1, <2>1, <2>3 DEF Settled, Absent, Call
    <2> QED
      BY <2>2, <2>3
  <1>6. \A id \in AllIds \ {k} : id \in lost' <=> id \in lost
    OBVIOUS
  <1>7. lost' \subseteq AllIds
    BY <1>1 DEF KeyInv, KeysOK
  <1>8. ASSUME NEW a, Recorded(a) PROVE Recorded(a)'
    <2>1. a.id \in AllIds /\ a.id # k
      BY <1>1, <1>8 DEF Recorded
    <2> QED
      BY <1>5, <1>6, <1>8, <2>1 DEF Recorded
  <1>9. c.pc = "answer" /\ c.patent # 0 => Recorded(c)'
    BY <1>1, <1>5 DEF Recorded
  <1> HIDE DEF k
  <1>10. CallsOK'
    BY <1>1, <1>2, <1>5 DEF KeyInv, CallsOK
  <1>11. KeysOK'
    <2> SUFFICES ASSUME NEW id \in AllIds
                 PROVE  /\ \A t, u \in Sessions : Owns(t, id)' /\ Owns(u, id)' => t = u
                        /\ \A t \in Sessions : Owns(t, id)' =>
                              /\ idem'[id].state = "in flight" /\ idem'[id].body = call'[t].body
                              /\ id \notin lost'
                        /\ id \in lost' => idem'[id].state = "in flight"
                        /\ idem'[id].state = "in flight" =>
                              id \in lost' \/ \E t \in Sessions : Owns(t, id)'
      BY <1>7 DEF KeysOK
    <2>1. CASE id = k
      <3>1. \A t \in Sessions : ~Owns(t, id)'
        BY <1>3, <1>4, <2>1
      <3>2. id \in lost' <=> idem'[id].state = "in flight"
        BY <1>1, <1>5, <2>1
      <3> QED
        BY <3>1, <3>2
    <2>2. CASE id # k
      <3>1. idem'[id] = idem[id] /\ (id \in lost' <=> id \in lost)
        BY <1>5, <1>6, <2>2
      <3>2. \A t \in Sessions : Owns(t, id)' <=> Owns(t, id)
        <4>1. ~Owns(s, id)
          BY <1>1, <2>2 DEF Owns, k
        <4> QED
          BY <1>3, <4>1
      <3>3. \A t \in Sessions : Owns(t, id) => call'[t].body = call[t].body
        BY <1>2, <1>3, <3>2
      <3>4. /\ \A t, u \in Sessions : Owns(t, id) /\ Owns(u, id) => t = u
            /\ \A t \in Sessions : Owns(t, id) =>
                  idem[id].state = "in flight" /\ idem[id].body = call[t].body /\ id \notin lost
            /\ id \in lost => idem[id].state = "in flight"
            /\ idem[id].state = "in flight" => id \in lost \/ \E t \in Sessions : Owns(t, id)
        BY DEF KeyInv, KeysOK
      <3>5. \A t \in Sessions : Owns(t, id)' =>
               idem'[id].state = "in flight" /\ idem'[id].body = call'[t].body /\ id \notin lost'
        BY <3>1, <3>2, <3>3, <3>4
      <3> QED
        BY ONLY <3>1, <3>2, <3>4, <3>5
    <2> QED
      BY <2>1, <2>2
  <1>12. AnswersOK'
    <2>1. \A a \in answered' : Recorded(a)'
      BY <1>8 DEF KeyInv, AnswersOK
    <2>2. ASSUME NEW t \in Sessions, call'[t].pc = "answer", call'[t].patent # 0
          PROVE  \E a : a = call'[t] /\ Recorded(a)'
      <3>1. CASE t = s
        BY <1>2, <1>9, <2>2, <3>1
      <3>2. CASE t # s
        <4>1. call'[t] = call[t] /\ Recorded(call[t])
          BY <1>2, <2>2, <3>2 DEF KeyInv, AnswersOK
        <4>2. PICK a : a = call[t]
          OBVIOUS
        <4> QED
          BY <1>8, <4>1, <4>2
      <3> QED
        BY <3>1, <3>2
    <2>3. \A t \in Sessions : call'[t].pc = "answer" /\ call'[t].patent # 0 => Recorded(call[t])'
      BY <2>2 DEF Recorded
    <2> QED
      BY <2>1, <2>3 DEF AnswersOK
  <1> QED
    BY <1>10, <1>11, <1>12 DEF KeyInv

\* A free key is reserved.
LEMMA ReserveStep ==
  ASSUME KeyInv, NEW s \in Sessions, Reserve(s), Free(call[s].id)
  PROVE  KeyInv'
  <1> DEFINE k == call[s].id
             c == [call[s] EXCEPT !.pc = "handler", !.reserved = TRUE]
             rec == [state |-> "in flight", body |-> call[s].body, patent |-> 0]
  <1>1. /\ call[s].pc = "reserve" /\ k \in AllIds /\ idem[k].state = "absent"
        /\ call[s] \in Call /\ call[s].body \in Body
    BY DEF Reserve, Free, KeyInv, CallsOK
  <1>2. /\ c \in Call /\ c.pc = "handler" /\ c.reserved = TRUE /\ c.id = k
        /\ c.body = call[s].body
    BY <1>1 DEF Call
  <1>3. /\ rec \in [state: {"absent", "in flight", "done"}, body: Body \cup {NoBody}, patent: Nat]
        /\ rec.state = "in flight" /\ rec.body = call[s].body
    BY <1>1
  <1>4. /\ idem' = [idem EXCEPT ![k] = rec]
        /\ call' = [call EXCEPT ![s] = c]
        /\ UNCHANGED <<answered, lost>>
    BY DEF Reserve
  <1> HIDE DEF c, rec
  <1>5. /\ idem' \in [AllIds -> [state: {"absent", "in flight", "done"}, body: Body \cup {NoBody},
                                 patent: Nat]]
        /\ idem'[k] = rec /\ \A id \in AllIds \ {k} : idem'[id] = idem[id]
    BY <1>1, <1>3, <1>4 DEF KeyInv, CallsOK
  <1>6. /\ call' \in [Sessions -> Call]
        /\ call'[s] = c /\ \A t \in Sessions \ {s} : call'[t] = call[t]
    BY <1>2, <1>4 DEF KeyInv, CallsOK
  <1>7. ~call[s].reserved /\ (\A t \in Sessions : ~Owns(t, k)) /\ k \notin lost
    BY <1>1 DEF KeyInv, CallsOK, KeysOK
  <1>8. \A t \in Sessions, id \in AllIds : Owns(t, id)' <=> Owns(t, id) \/ (t = s /\ id = k)
    BY <1>2, <1>6, <1>7 DEF Owns
  <1> HIDE DEF k
  <1>9. CallsOK'
    BY <1>1, <1>2, <1>5, <1>6 DEF KeyInv, CallsOK
  <1>10. KeysOK'
    <2> SUFFICES ASSUME NEW id \in AllIds
                 PROVE  /\ \A t, u \in Sessions : Owns(t, id)' /\ Owns(u, id)' => t = u
                        /\ \A t \in Sessions : Owns(t, id)' =>
                              /\ idem'[id].state = "in flight" /\ idem'[id].body = call'[t].body
                              /\ id \notin lost'
                        /\ id \in lost' => idem'[id].state = "in flight"
                        /\ idem'[id].state = "in flight" =>
                              id \in lost' \/ \E t \in Sessions : Owns(t, id)'
      BY <1>4 DEF KeyInv, KeysOK
    <2>1. CASE id = k
      <3>1. \A t \in Sessions : Owns(t, id)' <=> t = s
        BY <1>1, <1>7, <1>8, <2>1
      <3>2. idem'[id] = rec /\ id \notin lost' /\ call'[s].body = rec.body
        BY <1>2, <1>3, <1>4, <1>5, <1>6, <1>7, <2>1
      <3> QED
        BY <1>3, <3>1, <3>2
    <2>2. CASE id # k
      <3>1. \A t \in Sessions : Owns(t, id)' <=> Owns(t, id)
        BY <1>8, <2>2
      <3>2. \A t \in Sessions : Owns(t, id) => call'[t].body = call[t].body
        BY <1>6, <1>7, <1>8 DEF Owns
      <3> QED
        BY <1>4, <1>5, <2>2, <3>1, <3>2 DEF KeyInv, KeysOK
    <2> QED
      BY <2>1, <2>2
  <1>11. AnswersOK'
    <2>1. ASSUME NEW a, Recorded(a) PROVE Recorded(a)'
      <3>1. a.id # k
        BY <1>1, <1>7, <2>1 DEF Recorded
      <3> QED
        BY <1>4, <1>5, <2>1, <3>1 DEF Recorded
    <2>2. \A a \in answered' : Recorded(a)'
      BY <1>4, <2>1 DEF KeyInv, AnswersOK
    <2>3. ASSUME NEW t \in Sessions, call'[t].pc = "answer", call'[t].patent # 0
          PROVE  \E a : a = call'[t] /\ Recorded(a)'
      <3>1. call'[t] = call[t] /\ Recorded(call[t])
        BY <1>2, <1>6, <2>3 DEF KeyInv, AnswersOK
      <3>2. PICK a : a = call[t]
        OBVIOUS
      <3> QED
        BY <2>1, <3>1, <3>2
    <2>4. \A t \in Sessions : call'[t].pc = "answer" /\ call'[t].patent # 0 => Recorded(call[t])'
      BY <2>3 DEF Recorded
    <2> QED
      BY <2>2, <2>4 DEF AnswersOK
  <1> QED
    BY <1>9, <1>10, <1>11 DEF KeyInv

-----------------------------------------------------------------------------
(* Behind the middleware the handlers are those of PatentWorkflow *)

\* A session that is idle holds nothing.
IdleIsEmpty == \A s \in Sessions : req[s].pc = "idle" => req[s] = NoRequest

LEMMA IdleStep == TypeInv /\ IdleIsEmpty /\ [Next]_vars => IdleIsEmpty'
  <1> SUFFICES ASSUME TypeInv, IdleIsEmpty, [Next]_vars PROVE IdleIsEmpty'
    OBVIOUS
  <1>1. CASE UNCHANGED req
    BY <1>1 DEF IdleIsEmpty
  <1>2. ASSUME NEW s \in Sessions, req' = [req EXCEPT ![s] = NoRequest] PROVE IdleIsEmpty'
    BY <1>2 DEF IdleIsEmpty, TypeInv, TypeOK
  <1>3. ASSUME NEW s \in Sessions, NEW r, req' = [req EXCEPT ![s] = r], r.pc # "idle"
        PROVE  IdleIsEmpty'
    BY <1>3 DEF IdleIsEmpty, TypeInv, TypeOK
  <1>4. ASSUME NEW s \in Sessions, Finish(s) PROVE IdleIsEmpty'
    BY <1>2, <1>4 DEF Finish
  <1>5. ASSUME NEW s \in Sessions, NEW step, step # "idle", Goto(s, step) PROVE IdleIsEmpty'
    <2> DEFINE r == [req[s] EXCEPT !.pc = step]
    <2>1. r.pc # "idle"
      BY <1>5 DEF TypeInv, TypeOK, Request
    <2>2. req' = [req EXCEPT ![s] = r]
      BY <1>5 DEF Goto
    <2> HIDE DEF r
    <2> QED
      BY <1>3, <2>1, <2>2
  <1>6. ASSUME NEW s \in Sessions, NEW r, Begin(s, r), r.pc # "idle" PROVE IdleIsEmpty'
    BY <1>3, <1>6 DEF Begin
  <1>7. ASSUME NEW s \in Sessions, SessionStep(s) PROVE IdleIsEmpty'
    <2>1. CASE \E c \in Contents, k \in Keys : CreateStart(s, c, k)
      BY <1>6, <2>1 DEF CreateStart, NoRequest
    <2>2. CASE \E p \in Ids, c \in Contents \cup {None}, k \in Keys \cup {None} :
                  UpdateRead(s, p, c, k)
      BY <1>6, <2>2 DEF UpdateRead, NoRequest
    <2>3. CASE \E p \in Ids : SubmitRead(s, p) \/ DeleteRead(s, p)
      BY <1>6, <2>3 DEF SubmitRead, DeleteRead, NoRequest
    <2>4. CASE \E p \in Ids, op \in {"approve", "decline"} : ReviewRead(s, p, op)
      BY <1>6, <2>4 DEF ReviewRead, NoRequest
    <2>5. CASE ReviewBefore(s)
      <3> DEFINE r == [req[s] EXCEPT !.pc = "write", !.before = patent[req[s].id].status]
      <3>1. r.pc # "idle"
        BY DEF TypeInv, TypeOK, Request
      <3>2. req' = [req EXCEPT ![s] = r]
        BY <2>5 DEF ReviewBefore
      <3> HIDE DEF r
      <3> QED
        BY <1>3, <3>1, <3>2
    <2>6. CASE \/ VerifyAttached(s) \/ VerifyHead(s) \/ Discard(s)
               \/ CreateWrite(s) \/ UpdateWrite(s) \/ SubmitWrite(s)
               \/ ReviewWrite(s) \/ DeleteWrite(s) \/ Abort(s)
      BY <1>4, <1>5, <2>6
         DEF VerifyAttached, VerifyHead, Discard, CreateWrite, UpdateWrite, SubmitWrite,
             ReviewWrite, DeleteWrite, Abort
    <2> QED
      BY <1>7, <2>1, <2>2, <2>3, <2>4, <2>5, <2>6 DEF SessionStep
  <1> QED
    BY <1>1, <1>7 DEF Next, Upload, vars

LEMMA MiddlewareStep ==
  ASSUME TypeInv, IdleIsEmpty, CallsOK, [IdemNext]_<<vars, idemVars>>
  PROVE  [Next]_vars
  <1>1. CASE UNCHANGED <<vars, idemVars>>
    BY <1>1
  <1>2. ASSUME NEW k \in Keys, Upload(k) PROVE Next
    BY <1>2 DEF Next
  <1>3. ASSUME NEW s \in Sessions, NEW tag \in Tags, NEW c \in Contents, NEW k \in Keys,
               Post(s, tag, c, k)
        PROVE  UNCHANGED vars
    BY <1>3 DEF Post
  <1>4. ASSUME NEW s \in Sessions, Reserve(s) \/ Lookup(s) \/ Settle(s) \/ Respond(s)
        PROVE  UNCHANGED vars
    BY <1>4 DEF Reserve, Lookup, Settle, Respond
  <1>5. ASSUME NEW s \in Sessions, Handle(s) PROVE Next
    <2>1. call[s].body.content \in Contents /\ call[s].body.key \in Keys
      BY <1>5 DEF Handle, CallsOK, Body
    <2> QED
      BY <1>5, <2>1 DEF Handle, Next, SessionStep
  <1>6. ASSUME NEW s \in Sessions, Die(s) PROVE [Next]_vars
    <2>1. Finish(s) /\ UNCHANGED <<patent, nextId, object, reviews, outbox>>
      BY <1>6 DEF Die
    <2>2. CASE req[s].pc # "idle"
      BY <2>1, <2>2 DEF Abort, SessionStep, Next
    <2>3. CASE req[s].pc = "idle"
      <3>1. req[s] = NoRequest
        BY <2>3 DEF IdleIsEmpty
      <3>2. req' = req
        BY <2>1, <3>1 DEF Finish, TypeInv, TypeOK
      <3> QED
        BY <2>1, <3>2 DEF vars
    <2> QED
      BY <2>2, <2>3
  <1>7. ASSUME NEW s \in Sessions, Other(s) PROVE Next
    BY <1>7 DEF Other, Next, SessionStep
  <1> QED
    BY <1>1, <1>2, <1>3, <1>4, <1>5, <1>6, <1>7 DEF IdemNext

LEMMA KeyStep ==
  ASSUME TypeInv, KeyInv, [IdemNext]_<<vars, idemVars>>
  PROVE  KeyInv'
  <1>n. nextId \in Nat
    BY BoundsAssumption DEF TypeInv, TypeOK
  <1>c. /\ call \in [Sessions -> Call]
        /\ \A s \in Sessions :
              /\ call[s] \in Call
              /\ call[s].pc # "idle" => call[s].id \in AllIds /\ call[s].body \in Body
              /\ call[s].pc = "settle" => call[s].reserved
              /\ call[s].reserved => call[s].pc \in {"handler", "settle"}
    BY DEF KeyInv, CallsOK
  <1>e. /\ NoCall \in Call /\ NoCall.pc = "idle" /\ NoCall.reserved = FALSE
    BY DEF NoCall, Call
  <1>1. CASE UNCHANGED idemVars
    <2>1. idem' = idem /\ call' = call /\ answered' = answered /\ lost' = lost
      BY <1>1 DEF idemVars
    <2>2. CallsOK'
      BY <2>1 DEF KeyInv, CallsOK
    <2>3. KeysOK'
      BY <2>1 DEF KeyInv, KeysOK, Owns
    <2>4. AnswersOK'
      BY <2>1 DEF KeyInv, AnswersOK, Recorded
    <2> QED
      BY <2>2, <2>3, <2>4 DEF KeyInv
  <1>2. ASSUME NEW s \in Sessions, ~call[s].reserved, UNCHANGED <<idem, lost>>,
               call' = [call EXCEPT ![s] = NoCall],
               \A a \in answered' \ answered : Recorded(a)
        PROVE  KeyInv'
    <2> HIDE DEF NoCall
    <2>1. /\ NoCall.reserved = call[s].reserved
          /\ NoCall.reserved = FALSE
          /\ NoCall.pc = "idle"
          /\ NoCall \in Call
          /\ UNCHANGED <<idem, lost>>
          /\ call' = [call EXCEPT ![s] = NoCall]
      BY <1>2, <1>c, <1>e DEF Call
    <2> QED
      BY <2>1, <1>2, MoveStep
  <1>3. ASSUME NEW s \in Sessions, NEW tag \in Tags, NEW c \in Contents, NEW k \in Keys,
               Post(s, tag, c, k)
        PROVE  KeyInv'
    <2> DEFINE new == [NoCall EXCEPT !.pc = "reserve", !.id = <<UserOf[s], tag>>,
                                     !.body = [content |-> c, key |-> k]]
    <2>1. <<UserOf[s], tag>> \in AllIds /\ [content |-> c, key |-> k] \in Body
      BY ActorsAssumption DEF AllIds, Body
    <2>2. /\ new \in Call /\ new.pc = "reserve" /\ new.reserved = FALSE
          /\ new.id \in AllIds /\ new.body \in Body
      BY <2>1 DEF NoCall, Call
    <2>3. /\ call' = [call EXCEPT ![s] = new] /\ UNCHANGED <<idem, answered, lost>>
          /\ call[s].reserved = FALSE
      BY <1>3, <1>c DEF Post, Call
    <2> HIDE DEF new
    <2> QED
      BY <2>2, <2>3, MoveStep
  <1>4. ASSUME NEW s \in Sessions, NEW pc \in {"lookup", "handler"}, Step(s, pc),
               call[s].pc \in {"reserve", "lookup"}, UNCHANGED <<idem, answered, lost>>
        PROVE  KeyInv'
    <2> DEFINE new == [call[s] EXCEPT !.pc = pc]
    <2>1. /\ new \in Call /\ new.pc = pc /\ new.reserved = call[s].reserved
          /\ new.id = call[s].id /\ new.body = call[s].body
      BY <1>c DEF Call
    <2>2. ~call[s].reserved /\ new.id \in AllIds /\ new.body \in Body
      BY <1>4, <1>c, <2>1
    <2>3. call' = [call EXCEPT ![s] = new]
      BY <1>4 DEF Step
    <2> HIDE DEF new
    <2> QED
      BY <1>4, <2>1, <2>2, <2>3, MoveStep
  <1>5. ASSUME NEW s \in Sessions, Reserve(s) PROVE KeyInv'
    <2>1. CASE Free(call[s].id)
      BY <1>5, <2>1, ReserveStep
    <2>2. CASE ~Free(call[s].id)
      BY <1>4, <1>5, <2>2 DEF Reserve
    <2> QED
      BY <2>1, <2>2
  <1>6. ASSUME NEW s \in Sessions, Lookup(s) PROVE KeyInv'
    <2>1. call[s].pc = "lookup" /\ UNCHANGED <<idem, lost>> /\ ~call[s].reserved
      BY <1>6, <1>c DEF Lookup
    <2>2. CASE Step(s, "handler") /\ UNCHANGED answered
      BY <1>4, <2>1, <2>2
    <2>3. CASE Hangup(s) /\ UNCHANGED answered
      BY <1>2, <2>1, <2>3 DEF Hangup
    <2>4. CASE /\ idem[call[s].id].state = "done" /\ idem[call[s].id].body = call[s].body
               /\ Answer(s, idem[call[s].id].patent) /\ Hangup(s)
      <3>1. call[s].id \in AllIds
        BY <1>c, <2>1
      <3>2. \A a \in answered' \ answered : Recorded(a)
        BY <2>4, <3>1 DEF Answer, Recorded
      <3> QED
        BY <1>2, <2>1, <2>4, <3>2 DEF Hangup
    <2> QED
      BY <1>6, <2>2, <2>3, <2>4 DEF Lookup
  <1>7. ASSUME NEW s \in Sessions, Handle(s) PROVE KeyInv'
    <2>1. call[s].pc = "handler" /\ UNCHANGED <<idem, answered, lost>>
      BY <1>7 DEF Handle
    <2>2. CASE UNCHANGED call
      BY <1>1, <2>1, <2>2 DEF idemVars
    <2>3. ASSUME call[s].reserved, NEW n \in Nat,
                 call' = [call EXCEPT ![s] = [call[s] EXCEPT !.pc = "settle", !.patent = n]]
          PROVE  KeyInv'
      <3> DEFINE new == [call[s] EXCEPT !.pc = "settle", !.patent = n]
      <3>1. /\ new \in Call /\ new.pc = "settle" /\ new.reserved = call[s].reserved
            /\ new.id = call[s].id /\ new.body = call[s].body
        BY <1>c, <2>3 DEF Call
      <3>2. new.id \in AllIds /\ new.body \in Body /\ new.reserved
        BY <1>c, <2>1, <2>3, <3>1
      <3>3. call' = [call EXCEPT ![s] = new]
        BY <2>3
      <3> HIDE DEF new
      <3> QED
        BY <2>1, <3>1, <3>2, <3>3, MoveStep
    <2>4. CASE ~call[s].reserved /\ call' = [call EXCEPT ![s] = NoCall]
      BY <1>2, <2>1, <2>4
    <2>5. (IF patent' # patent THEN nextId ELSE 0) \in Nat
      BY <1>n
    <2> QED
      BY <1>7, <2>2, <2>3, <2>4, <2>5 DEF Handle
  <1>8. ASSUME NEW s \in Sessions, Settle(s) PROVE KeyInv'
    <2> DEFINE new == [call[s] EXCEPT !.pc = "answer", !.reserved = FALSE]
    <2>1. /\ new \in Call /\ new.pc = "answer" /\ new.reserved = FALSE
          /\ new.id = call[s].id /\ new.body = call[s].body /\ new.patent = call[s].patent
      BY <1>c DEF Call
    <2>2. call' = [call EXCEPT ![s] = new]
      BY <1>8 DEF Settle
    <2>3. call[s].reserved /\ UNCHANGED answered
      BY <1>8, <1>c DEF Settle
    <2> HIDE DEF new
    <2> QED
      BY <1>8, <2>1, <2>2, <2>3, ReleaseStep DEF Settle
  <1>11. ASSUME NEW s \in Sessions, Respond(s) PROVE KeyInv'
    <2>1. ~call[s].reserved
      BY <1>11, <1>c DEF Respond
    <2>2. \A a \in answered' \ answered : Recorded(a)
      <3>1. CASE call[s].patent # 0 /\ Answer(s, call[s].patent)
        <4>1. Recorded(call[s])
          BY <1>11, <3>1 DEF Respond, KeyInv, AnswersOK
        <4> QED
          BY <3>1, <4>1 DEF Answer, Recorded
      <3> QED
        BY <1>11, <3>1 DEF Respond
    <2> QED
      BY <1>2, <1>11, <2>1, <2>2 DEF Respond, Hangup
  <1>9. ASSUME NEW s \in Sessions, Die(s) PROVE KeyInv'
    <2>1. CASE call[s].reserved
      <3> HIDE DEF NoCall
      <3>1. /\ NoCall \in Call /\ NoCall.pc = "idle" /\ NoCall.reserved = FALSE
            /\ call' = [call EXCEPT ![s] = NoCall]
            /\ UNCHANGED <<idem, answered>> /\ lost' = lost \cup {call[s].id}
        BY <1>9, <1>e, <2>1 DEF Die, Hangup
      <3> QED
        BY <2>1, <3>1, ReleaseStep
    <2>2. CASE ~call[s].reserved
      BY <1>2, <1>9, <2>2 DEF Die, Hangup
    <2> QED
      BY <2>1, <2>2
  <1>10. ASSUME NEW s \in Sessions, Other(s) PROVE KeyInv'
    BY <1>1, <1>10 DEF Other
  <1> QED
    BY <1>1, <1>3, <1>5, <1>6, <1>7, <1>8, <1>9, <1>10, <1>11 DEF IdemNext, idemVars

IdemInv == TypeInv /\ IdleIsEmpty /\ KeyInv

LEMMA IdemInvariant == IdemSpec => []IdemInv
  <1>1. IdemInit => IdemInv
    BY TypeInit, KeyInit DEF IdemInit, Init, IdemInv, IdleIsEmpty
  <1>2. IdemInv /\ [IdemNext]_<<vars, idemVars>> => IdemInv'
    BY MiddlewareStep, TypeStep, IdleStep, KeyStep DEF IdemInv, KeyInv
  <1> QED
    BY <1>1, <1>2, PTL DEF IdemSpec

\* Whatever the middleware replays, refuses or loses, the handlers behind it do
\* only what they do without it: every theorem about them carries over.
THEOREM MiddlewareAddsNothing == IdemSpec => Spec
  <1>1. IdemInit => Init
    BY DEF IdemInit
  <1>2. IdemInv /\ [IdemNext]_<<vars, idemVars>> => [Next]_vars
    BY MiddlewareStep DEF IdemInv, KeyInv
  <1> QED
    BY <1>1, <1>2, IdemInvariant, PTL DEF IdemSpec, Spec

\* However a retry overlaps with the first request, all answers given under a key
\* that is settled are the answer on record.
THEOREM KeysHaveOneAnswer == IdemSpec => []OneAnswerPerKey
  <1>1. IdemInv => OneAnswerPerKey
    BY DEF IdemInv, KeyInv, KeysOK, AnswersOK, Recorded, OneAnswerPerKey
  <1> QED
    BY <1>1, IdemInvariant, PTL

\* Whoever dies at whatever await, a key in flight has exactly one request at work
\* on it, or has lost it.
THEOREM KeysInFlightAreOwned == IdemSpec => []InFlightIsOwned
  <1>1. IdemInv => InFlightIsOwned
    BY DEF IdemInv, KeyInv, KeysOK, Owns, InFlightIsOwned
  <1> QED
    BY <1>1, IdemInvariant, PTL

\* Whoever was told of a patent under a key finds the answer on record, or the key in
\* flight for good when its settlement failed, whatever crashed or overlapped.
THEOREM AnswersAreOnRecord == IdemSpec => []AnsweredIsRecorded
  <1>1. IdemInv => AnsweredIsRecorded
    BY DEF IdemInv, KeyInv, KeysOK, AnswersOK, Recorded, AnsweredIsRecorded
  <1> QED
    BY <1>1, IdemInvariant, PTL

=============================================================================
