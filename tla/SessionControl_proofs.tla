------------------------ MODULE SessionControl_proofs ------------------------
(***************************************************************************)
(* The control plane for any number of sessions, agents and requests in    *)
(* progress, with API restarts: typing, the start barrier, and the review  *)
(* gate; and, for one request at a time, what overlapping requests break:  *)
(* OneStart, OneDecision, StoredWasVerified and SessionLifecycle, with     *)
(* what SessionLifecycle promises: the review gate and final states.       *)
(***************************************************************************)
EXTENDS SessionControl, TLAPS

-----------------------------------------------------------------------------
\* Typing, and what is known of a request at its steps

\* A request in progress is about a session whose row it has read, so the row
\* it carries is never the missing one; only requests that queue commands get
\* to the step that queues them.
RequestOK(r) ==
  /\ r \in Request
  /\ r.pc # "free" => r.s \in Session /\ r.row.state # Absent
  /\ r.pc = "queue" => r.op \in DOMAIN Queues
  /\ r.pc = "act" => r.a \in Agent
  /\ r.pc \in {"act", "write"} => r.op # "create"

HandlersOK == /\ handlers \in [Handler -> Request]
              /\ \A h \in Handler : RequestOK(handlers[h])

TablesOK == /\ db \in [Session -> Row]
            /\ tracks \in [Session -> SUBSET Agent]
            /\ readiness \in [Session -> SUBSET Agent]
            /\ queued \in [Session -> [Agent -> [CommandType -> Nat]]]
            /\ manifests \in [Session -> SUBSET Agent]
            /\ objects \in [Session -> SUBSET Agent]
            /\ saved \subseteq Session
            /\ reported \in [Session -> SUBSET Agent]
            /\ restarted \subseteq Session

TypeInv == TablesOK /\ HandlersOK

LEMMA TypeInvTypes == TypeInv => TypeOK
BY DEF TypeInv, TablesOK, HandlersOK, TypeOK

LEMMA HandlerSet ==
  ASSUME HandlersOK, NEW h \in Handler, NEW r, RequestOK(r),
         handlers' = [handlers EXCEPT ![h] = r]
  PROVE  HandlersOK'
<1>1. handlers' \in [Handler -> Request]
  BY DEF HandlersOK, RequestOK
<1>2. ASSUME NEW g \in Handler
      PROVE  RequestOK(handlers'[g])
  BY DEF HandlersOK
<1> QED
  BY <1>1, <1>2 DEF HandlersOK, RequestOK

LEMMA FreeOK == RequestOK(Free)
BY DEF RequestOK, Free, Request, Op, Row, NoRow, Absent

\* transition() of a request that has read a row: the request it leaves.
Moved(r, to, pre, parts) ==
  [r EXCEPT !.row = [r.row EXCEPT !.state = to, !.prefix = r.row.prefix \/ pre],
            !.pc = "write", !.parts = parts]

LEMMA TransitionMoves ==
  ASSUME TypeInv, NEW h \in Handler, NEW to \in SessionState, NEW pre \in BOOLEAN,
         Transition(h, to, pre)
  PROVE  LET r == handlers[h]
             q == Moved(r, to, pre, tracks[r.s])
         IN /\ handlers' = [handlers EXCEPT ![h] = q]
            /\ q.op = r.op /\ q.s = r.s /\ q.a = r.a /\ q.pc = "write"
            /\ q.row.state = to
            /\ r.s \in Session => q \in Request
<1> DEFINE r == handlers[h]
           p == r.row.prefix \/ pre
           n == [r.row EXCEPT !.state = to, !.prefix = p]
           q == [r EXCEPT !.row = n, !.pc = "write", !.parts = tracks[r.s]]
<1>1. r \in Request /\ r.row \in Row /\ handlers \in [Handler -> Request]
  BY DEF TypeInv, HandlersOK, Request
<1>2. handlers' = [handlers EXCEPT ![h] = q]
  BY <1>1 DEF Transition, Request, Row
<1>3. p \in BOOLEAN
  OBVIOUS
<1> HIDE DEF p
<1>4. n \in Row /\ n.state = to
  BY <1>1, <1>3 DEF Row
<1> HIDE DEF n
<1>5. r.s \in Session => tracks[r.s] \in SUBSET Agent
  BY DEF TypeInv, TablesOK
<1>6. /\ q.op = r.op /\ q.s = r.s /\ q.a = r.a /\ q.pc = "write" /\ q.row = n
      /\ r.s \in Session => q \in Request
  BY <1>1, <1>4, <1>5 DEF Request
<1> QED
  BY <1>2, <1>4, <1>6 DEF Moved, n, p

LEMMA TransitionOK ==
  ASSUME TypeInv, NEW h \in Handler, NEW to \in SessionState, NEW pre \in BOOLEAN,
         handlers[h].pc = "act", Transition(h, to, pre)
  PROVE  HandlersOK'
<1> DEFINE r == handlers[h]
           q == Moved(r, to, pre, tracks[r.s])
<1>1. r.s \in Session /\ r.op # "create"
  BY DEF TypeInv, HandlersOK, RequestOK
<1>2. /\ handlers' = [handlers EXCEPT ![h] = q]
      /\ q.op = r.op /\ q.s = r.s /\ q.pc = "write" /\ q.row.state = to
      /\ q \in Request
  BY <1>1, TransitionMoves
<1>3. to # Absent
  BY DEF SessionState, Absent
<1> HIDE DEF q
<1>4. RequestOK(q)
  BY <1>1, <1>2, <1>3 DEF RequestOK
<1> QED
  BY <1>2, <1>4, HandlerSet DEF TypeInv

LEMMA CloseOK ==
  ASSUME TypeInv, NEW h \in Handler, Close(h)
  PROVE  HandlersOK'
BY FreeOK, HandlerSet DEF Close, TypeInv

LEMMA OpenOK ==
  ASSUME TypeInv, NEW h \in Handler, NEW op \in Op \ {"create"}, NEW s \in Session,
         NEW a \in Agent, Open(h, op, s, a, "act")
  PROVE  HandlersOK'
<1> DEFINE r == [op |-> op, s |-> s, a |-> a, pc |-> "act", row |-> db[s],
                 todo |-> {}, parts |-> {}]
<1>1. db[s] \in Row /\ db[s].state # Absent
  BY DEF TypeInv, TablesOK, Open
<1>2. r \in Request
  BY <1>1 DEF Request
<1>3. RequestOK(r)
  BY <1>1, <1>2 DEF RequestOK
<1> QED
  BY <1>3, HandlerSet DEF Open, TypeInv

\* The steps that open a request or decide on a row write no table, or only
\* the sets they name.
LEMMA CreateTyped ==
  ASSUME TypeInv, NEW h \in Handler, NEW s \in Session, NEW chosen \in SUBSET Agent,
         CreateSession(h, s, chosen)
  PROVE  TypeInv'
<1> DEFINE n == [NoRow EXCEPT !.state = "preparing"]
           r == [op |-> "create", s |-> s, a |-> "none", pc |-> "insert", row |-> n,
                 todo |-> chosen, parts |-> chosen]
<1>1. n \in Row /\ n.state # Absent
  BY DEF NoRow, Row, SessionState, Absent
<1>2. r \in Request
  BY <1>1 DEF Request, Op
<1>3. RequestOK(r)
  BY <1>1, <1>2 DEF RequestOK
<1>4. HandlersOK'
  BY <1>3, HandlerSet DEF CreateSession, TypeInv
<1> QED
  BY <1>4 DEF CreateSession, TypeInv, TablesOK, history

LEMMA InsertSessionTyped ==
  ASSUME TypeInv, NEW h \in Handler, InsertSession(h)
  PROVE  TypeInv'
<1> DEFINE r == handlers[h]
           q == [r EXCEPT !.pc = "tracks"]
<1>1. r \in Request /\ RequestOK(r) /\ r.pc = "insert" /\ r.op = "create"
  BY DEF TypeInv, HandlersOK, InsertSession, Busy, RequestOK
<1>2. r.s \in Session /\ r.row \in Row
  BY <1>1 DEF RequestOK, Request
<1>3. q \in Request /\ q.s = r.s /\ q.row = r.row /\ q.pc = "tracks"
  BY <1>1 DEF Request
<1>4. RequestOK(q)
  BY <1>1, <1>3 DEF RequestOK
<1>5. handlers' = [handlers EXCEPT ![h] = Free] \/ handlers' = [handlers EXCEPT ![h] = q]
  BY DEF InsertSession
<1>6. HandlersOK'
  BY <1>4, <1>5, FreeOK, HandlerSet DEF TypeInv
<1> QED
  BY <1>2, <1>6 DEF InsertSession, TypeInv, TablesOK, history

LEMMA InsertTracksTyped ==
  ASSUME TypeInv, NEW h \in Handler, InsertTracks(h)
  PROVE  TypeInv'
<1> DEFINE r == handlers[h]
<1>1. r \in Request /\ RequestOK(r) /\ r.pc = "tracks" /\ r.op = "create"
  BY DEF TypeInv, HandlersOK, InsertTracks, Busy, RequestOK
<1>2. PICK a \in r.todo :
        /\ tracks' = [tracks EXCEPT ![r.s] = @ \cup {a}]
        /\ handlers' = IF r.todo = {a}
                       THEN [handlers EXCEPT ![h].pc = "queue", ![h].todo = r.parts]
                       ELSE [handlers EXCEPT ![h].todo = @ \ {a}]
  BY DEF InsertTracks
<1>3. a \in Agent /\ r.s \in Session
  BY <1>1 DEF RequestOK, Request
<1> DEFINE q1 == [r EXCEPT !.pc = "queue", !.todo = r.parts]
           q2 == [r EXCEPT !.todo = @ \ {a}]
<1>4. q1 \in Request /\ q1.op = r.op /\ q1.s = r.s /\ q1.row = r.row /\ q1.pc = "queue"
  BY <1>1 DEF Request
<1>5. q2 \in Request /\ q2.s = r.s /\ q2.row = r.row /\ q2.pc = "tracks"
  BY <1>1 DEF Request
<1>6. RequestOK(q1) /\ RequestOK(q2)
  BY <1>1, <1>4, <1>5 DEF RequestOK, Queues
<1>7. handlers' = [handlers EXCEPT ![h] = q1] \/ handlers' = [handlers EXCEPT ![h] = q2]
  BY <1>2 DEF TypeInv, HandlersOK
<1>8. HandlersOK'
  BY <1>6, <1>7, HandlerSet DEF TypeInv
<1>9. tracks' \in [Session -> SUBSET Agent]
  BY <1>2, <1>3 DEF TypeInv, TablesOK
<1> QED
  BY <1>8, <1>9 DEF InsertTracks, TypeInv, TablesOK, history

LEMMA OpenedTyped ==
  ASSUME TypeInv, NEW h \in Handler, NEW s \in Session, NEW a \in Agent,
         \/ \E report \in Kinds : ReportStatus(h, s, a, report)
         \/ IngestManifest(h, s, a)
         \/ CompleteUpload(h, s, a)
  PROVE  TypeInv'
<1>1. PICK op \in Op \ {"create"} : Open(h, op, s, a, "act")
  BY DEF ReportStatus, IngestManifest, CompleteUpload, Op
<1>2. HandlersOK'
  BY <1>1, OpenOK
<1> QED
  BY <1>2 DEF ReportStatus, IngestManifest, CompleteUpload, TypeInv, TablesOK, history

LEMMA OperatorTyped ==
  ASSUME TypeInv, NEW h \in Handler, NEW s \in Session, NEW op \in Kinds, Operator(h, op, s)
  PROVE  TypeInv'
<1> DEFINE n == [state |-> Target[op], prefix |-> db[s].prefix \/ op = "save"]
           r == [op |-> op, s |-> s, a |-> "none", pc |-> "write", row |-> n,
                 todo |-> {}, parts |-> {}]
<1>1. op \in {"stop", "save", "discard"}
  BY DEF Operator, Target
<1>2. n \in Row /\ n.state # Absent
  BY <1>1 DEF Target, Row, SessionState, Absent
<1>3. r \in Request
  BY <1>1, <1>2 DEF Request, Op
<1>4. RequestOK(r)
  BY <1>1, <1>2, <1>3 DEF RequestOK
<1>5. HandlersOK'
  BY <1>4, HandlerSet DEF Operator, TypeInv
<1> QED
  BY <1>5 DEF Operator, TypeInv, TablesOK, history

LEMMA ActTyped ==
  ASSUME TypeInv, NEW h \in Handler,
         ActFailed(h) \/ ActStopped(h) \/ ActReady(h) \/ ActManifest(h) \/ ActComplete(h)
  PROVE  TypeInv'
<1> DEFINE r == handlers[h]
<1>1. r \in Request /\ RequestOK(r) /\ r.pc = "act"
  BY DEF TypeInv, HandlersOK, RequestOK, ActFailed, ActStopped, ActReady, ActManifest,
         ActComplete, Busy
<1>2. r.s \in Session /\ r.a \in Agent
  BY <1>1 DEF RequestOK
<1>3. HandlersOK'
  <2>1. CASE \/ \E to \in SessionState, pre \in BOOLEAN : Transition(h, to, pre)
             \/ Close(h)
    BY <1>1, <2>1, TransitionOK, CloseOK
  <2>2. CASE ActManifest(h)
    <3> DEFINE q == [r EXCEPT !.pc = "write"]
    <3>1. q \in Request /\ q.op = r.op /\ q.s = r.s /\ q.row = r.row /\ q.pc = "write"
      BY <1>1 DEF Request
    <3>2. RequestOK(q)
      BY <1>1, <3>1 DEF RequestOK
    <3>3. handlers' = [handlers EXCEPT ![h] = q]
      BY <2>2 DEF ActManifest, TypeInv, HandlersOK
    <3> QED
      BY <3>2, <3>3, HandlerSet DEF TypeInv
  <2>3. {"failed", "review", "recording", "stored"} \subseteq SessionState
    BY DEF SessionState
  <2>4. CASE ActFailed(h) \/ ActStopped(h) \/ ActComplete(h)
    BY <2>1, <2>3, <2>4 DEF ActFailed, ActStopped, ActComplete
  <2>5. CASE ActReady(h)
    BY <2>1, <2>3, <2>5 DEF ActReady
  <2> QED
    BY <2>2, <2>4, <2>5
<1>4. TablesOK'
  <2>1. CASE ActFailed(h) \/ ActStopped(h) \/ ActComplete(h)
    BY <2>1 DEF ActFailed, ActStopped, ActComplete, TypeInv, TablesOK, history
  <2>2. CASE ActManifest(h)
    BY <1>2, <2>2 DEF ActManifest, TypeInv, TablesOK, history
  <2>3. CASE ActReady(h)
    BY <1>2, <2>3 DEF ActReady, TypeInv, TablesOK
  <2> QED
    BY <2>1, <2>2, <2>3
<1> QED
  BY <1>3, <1>4 DEF TypeInv

LEMMA WriteRowTyped ==
  ASSUME TypeInv, NEW h \in Handler, WriteRow(h)
  PROVE  TypeInv'
<1> DEFINE r == handlers[h]
           parts == IF r.op = "ready" THEN r.parts ELSE tracks[r.s]
           q == [r EXCEPT !.pc = "queue", !.todo = parts]
<1>1. r \in Request /\ RequestOK(r) /\ r.pc = "write"
  BY DEF TypeInv, HandlersOK, RequestOK, WriteRow
<1>2. r.s \in Session /\ r.row \in Row /\ parts \subseteq Agent
  BY <1>1 DEF RequestOK, Request, TypeInv, TablesOK
<1>3. q \in Request /\ q.op = r.op /\ q.s = r.s /\ q.row = r.row /\ q.pc = "queue"
  BY <1>1, <1>2 DEF Request
<1>4. r.op \in DOMAIN Queues => RequestOK(q)
  BY <1>1, <1>3 DEF RequestOK
<1>5. \/ handlers' = [handlers EXCEPT ![h] = Free]
      \/ r.op \in DOMAIN Queues /\ handlers' = [handlers EXCEPT ![h] = q]
  BY DEF WriteRow
<1>6. HandlersOK'
  BY <1>4, <1>5, FreeOK, HandlerSet DEF TypeInv
<1>7. TablesOK'
  BY <1>2 DEF WriteRow, TypeInv, TablesOK
<1> QED
  BY <1>6, <1>7 DEF TypeInv

LEMMA QueueCommandTyped ==
  ASSUME TypeInv, NEW h \in Handler, QueueCommand(h)
  PROVE  TypeInv'
<1> DEFINE r == handlers[h]
<1>1. r \in Request /\ RequestOK(r) /\ r.pc = "queue"
  BY DEF TypeInv, HandlersOK, RequestOK, QueueCommand
<1>2. r.s \in Session /\ r.op \in DOMAIN Queues
  BY <1>1 DEF RequestOK
<1>3. Queues[r.op] \in CommandType
  BY <1>2 DEF Queues, CommandType
<1>4. PICK a \in r.todo :
        /\ queued' = [queued EXCEPT ![r.s][a][Queues[r.op]] = @ + 1]
        /\ handlers' = [handlers EXCEPT ![h] = IF r.todo = {a} THEN Free
                                               ELSE [r EXCEPT !.todo = @ \ {a}]]
        /\ readiness' = IF r.todo = {a} /\ r.op \in {"create", "ready"}
                        THEN [readiness EXCEPT ![r.s] = {}] ELSE readiness
  BY DEF QueueCommand
<1>5. a \in Agent
  BY <1>1 DEF Request
<1> DEFINE q == [r EXCEPT !.todo = @ \ {a}]
<1>6. q \in Request /\ q.op = r.op /\ q.s = r.s /\ q.row = r.row /\ q.pc = "queue"
  BY <1>1 DEF Request
<1>7. RequestOK(q)
  BY <1>1, <1>6 DEF RequestOK
<1>8. HandlersOK'
  BY <1>4, <1>7, FreeOK, HandlerSet DEF TypeInv
<1>9. queued' \in [Session -> [Agent -> [CommandType -> Nat]]]
  BY <1>2, <1>3, <1>4, <1>5 DEF TypeInv, TablesOK
<1>10. readiness' \in [Session -> SUBSET Agent]
  BY <1>2, <1>4 DEF TypeInv, TablesOK
<1> QED
  BY <1>8, <1>9, <1>10 DEF QueueCommand, TypeInv, TablesOK, history

LEMMA TypeInductive == TypeInv /\ [Next]_vars => TypeInv'
<1> SUFFICES ASSUME TypeInv, [Next]_vars
             PROVE  TypeInv'
  OBVIOUS
<1>1. ASSUME NEW h \in Handler, Begin(h)
      PROVE  TypeInv'
  BY <1>1, CreateTyped, OperatorTyped, OpenedTyped DEF Begin
<1>2. ASSUME NEW h \in Handler, Continue(h)
      PROVE  TypeInv'
  BY <1>2, InsertSessionTyped, InsertTracksTyped, ActTyped, WriteRowTyped, QueueCommandTyped
     DEF Continue
<1>3. ASSUME NEW s \in Session, PurgeObjects(s) \/ \E a \in Agent : UploadObjects(s, a)
      PROVE  TypeInv'
  <2>1. objects' \in [Session -> SUBSET Agent]
    <3>1. CASE PurgeObjects(s)
      BY <3>1 DEF PurgeObjects, TypeInv, TablesOK
    <3>2. ASSUME NEW a \in Agent, UploadObjects(s, a)
          PROVE  objects' \in [Session -> SUBSET Agent]
      BY <3>2 DEF UploadObjects, TypeInv, TablesOK
    <3> QED
      BY <1>3, <3>1, <3>2
  <2> QED
    BY <1>3, <2>1 DEF PurgeObjects, UploadObjects, TypeInv, TablesOK, HandlersOK, history
<1>4. CASE ApiRestart
  <2>1. HandlersOK'
    BY <1>4, FreeOK DEF ApiRestart, HandlersOK, RequestOK
  <2> QED
    BY <1>4, <2>1 DEF ApiRestart, TypeInv, TablesOK
<1>5. CASE UNCHANGED vars
  BY <1>5 DEF vars, TypeInv, TablesOK, HandlersOK
<1> QED
  BY <1>1, <1>2, <1>3, <1>4, <1>5 DEF Next

LEMMA TypeInitial == Init => TypeInv
<1> SUFFICES ASSUME Init
             PROVE  TypeInv
  OBVIOUS
<1>1. TablesOK
  BY DEF Init, TablesOK, NoRow, Row
<1>2. HandlersOK
  BY FreeOK DEF Init, HandlersOK, RequestOK
<1> QED
  BY <1>1, <1>2 DEF TypeInv

\* Rows, requests and tables stay in their types, and no request about a row
\* that does not exist gets past its first step.
THEOREM TypeCorrect == Spec => []TypeOK
BY TypeInitial, TypeInductive, TypeInvTypes, PTL DEF Spec

-----------------------------------------------------------------------------
\* The start barrier.  `Every participant has reported ready' is only as good
\* as the list of participants: create() is still writing it while the session
\* can already be discarded, or fail.  The invariant says from when on the list
\* is complete, and who relies on that.

Inserting(r, s) == r.op = "create" /\ r.s = s /\ r.pc \in {"insert", "tracks"}
Complete(s) == /\ db[s].state # Absent
               /\ \A g \in Handler : ~Inserting(handlers[g], s)

\* What a request at each of its steps relies on.
Relies(r) ==
  /\ r.op = "create" /\ r.pc = "tracks" => db[r.s].state # Absent
  /\ r.op = "create" /\ r.pc = "queue" => Complete(r.s)
  /\ r.op = "ready" /\ r.pc # "free" => Complete(r.s)
  /\ r.op = "ready" /\ r.pc \in {"write", "queue"} => tracks[r.s] \subseteq reported[r.s]

ReadyWasReported == \A s \in Session : readiness[s] \subseteq reported[s]
RequestsRely == \A h \in Handler : Relies(handlers[h])
OneCreates == \A s \in Session, g, h \in Handler :
                Inserting(handlers[g], s) /\ Inserting(handlers[h], s) => g = h
PreparedIsComplete == \A s \in Session, a \in Agent : Sent(s, a, "prepare") => Complete(s)
StartedIsComplete ==
  \A s \in Session, a \in Agent :
    Sent(s, a, "start") => Complete(s) /\ tracks[s] \subseteq reported[s]

BarrierInv == /\ ReadyWasReported /\ RequestsRely /\ OneCreates
              /\ PreparedIsComplete /\ StartedIsComplete

\* One request moves and none starts inserting tracks: what others rely on
\* stands, if rows stay, participants stay, and reports are only added.
LEMMA BarrierKept ==
  ASSUME TypeInv, BarrierInv, NEW h \in Handler, NEW r,
         handlers' = [handlers EXCEPT ![h] = r],
         tracks' = tracks,
         \A s \in Session : /\ reported[s] \subseteq reported'[s]
                            /\ readiness'[s] \subseteq reported'[s]
                            /\ db[s].state # Absent => db'[s].state # Absent,
         \A s \in Session : Inserting(r, s) => Inserting(handlers[h], s),
         r.pc # "free" => r.s \in Session,
         r.op = "create" /\ r.pc = "tracks" => db'[r.s].state # Absent,
         r.op = "create" /\ r.pc = "queue" => Complete(r.s),
         r.op = "ready" /\ r.pc # "free" => Complete(r.s),
         r.op = "ready" /\ r.pc \in {"write", "queue"} => tracks[r.s] \subseteq reported'[r.s],
         \A s \in Session, a \in Agent :
           /\ queued'[s][a]["prepare"] > 0 => Complete(s)
           /\ queued'[s][a]["start"] > 0 => Complete(s) /\ tracks[s] \subseteq reported'[s]
  PROVE  BarrierInv'
<1>1. ReadyWasReported /\ RequestsRely /\ OneCreates /\ PreparedIsComplete /\ StartedIsComplete
  BY DEF BarrierInv
<1>2. \A g \in Handler : handlers'[g] = IF g = h THEN r ELSE handlers[g]
  BY DEF TypeInv, HandlersOK
<1>3. \A s \in Session, g \in Handler : Inserting(handlers'[g], s) => Inserting(handlers[g], s)
  BY <1>2
<1>4. \A s \in Session : Complete(s) => Complete(s)'
  BY <1>3 DEF Complete, Inserting
<1>5. ReadyWasReported'
  BY DEF ReadyWasReported
<1>6. RequestsRely'
  <2> SUFFICES ASSUME NEW g \in Handler
               PROVE  Relies(handlers[g])'
    BY DEF RequestsRely
  <2>1. CASE g = h
    <3>1. handlers'[g] = r
      BY <1>2, <2>1
    <3> QED
      BY <3>1, <1>4 DEF Relies
  <2>2. CASE g # h
    <3>1. handlers'[g] = handlers[g] /\ Relies(handlers[g])
      BY <1>1, <1>2, <2>2 DEF RequestsRely
    <3>2. handlers[g].pc # "free" => handlers[g].s \in Session
      BY DEF TypeInv, HandlersOK, RequestOK
    <3> QED
      BY <3>1, <3>2, <1>4 DEF Relies
  <2> QED
    BY <2>1, <2>2
<1>7. OneCreates'
  BY <1>1, <1>3 DEF OneCreates, Inserting
<1>8. PreparedIsComplete' /\ StartedIsComplete'
  BY <1>4 DEF PreparedIsComplete, StartedIsComplete, Sent
<1> QED
  BY <1>5, <1>6, <1>7, <1>8 DEF BarrierInv

\* The same for the steps that queue nothing and hear of no readiness.
LEMMA BarrierMoved ==
  ASSUME TypeInv, BarrierInv, NEW h \in Handler, NEW r,
         handlers' = [handlers EXCEPT ![h] = r],
         UNCHANGED <<tracks, queued, reported>>,
         \A s \in Session : /\ readiness'[s] \subseteq readiness[s]
                            /\ db[s].state # Absent => db'[s].state # Absent,
         \A s \in Session : Inserting(r, s) => Inserting(handlers[h], s),
         r.pc # "free" => r.s \in Session,
         r.op = "create" /\ r.pc = "tracks" => db'[r.s].state # Absent,
         r.op = "create" /\ r.pc = "queue" => Complete(r.s),
         r.op = "ready" /\ r.pc # "free" => Complete(r.s),
         r.op = "ready" /\ r.pc \in {"write", "queue"} => tracks[r.s] \subseteq reported[r.s]
  PROVE  BarrierInv'
<1>1. ReadyWasReported /\ PreparedIsComplete /\ StartedIsComplete
  BY DEF BarrierInv
<1>2. \A s \in Session : readiness'[s] \subseteq reported'[s]
  BY <1>1 DEF ReadyWasReported
<1>3. \A s \in Session, a \in Agent :
        /\ queued'[s][a]["prepare"] > 0 => Complete(s)
        /\ queued'[s][a]["start"] > 0 => Complete(s) /\ tracks[s] \subseteq reported'[s]
  BY <1>1 DEF PreparedIsComplete, StartedIsComplete, Sent
<1> QED
  BY <1>2, <1>3, BarrierKept

LEMMA FreeMoves ==
  ASSUME TypeInv, BarrierInv, NEW h \in Handler,
         handlers' = [handlers EXCEPT ![h] = Free],
         UNCHANGED <<tracks, queued, reported>>,
         \A s \in Session : /\ readiness'[s] \subseteq readiness[s]
                            /\ db[s].state # Absent => db'[s].state # Absent
  PROVE  BarrierInv'
<1>1. Free.pc = "free" /\ Free.op = "none"
  BY DEF Free
<1>2. \A s \in Session : ~Inserting(Free, s)
  BY <1>1 DEF Inserting
<1> QED
  BY <1>1, <1>2, BarrierMoved

LEMMA CreateBarrier ==
  ASSUME TypeInv, BarrierInv, NEW h \in Handler, NEW s \in Session, NEW chosen \in SUBSET Agent,
         CreateSession(h, s, chosen)
  PROVE  BarrierInv'
<1>1. ReadyWasReported /\ RequestsRely /\ OneCreates /\ PreparedIsComplete /\ StartedIsComplete
  BY DEF BarrierInv
<1> DEFINE r == [op |-> "create", s |-> s, a |-> "none", pc |-> "insert",
                row |-> [NoRow EXCEPT !.state = "preparing"], todo |-> chosen, parts |-> chosen]
<1>2. /\ handlers' = [handlers EXCEPT ![h] = r]
      /\ r.op = "create" /\ r.s = s /\ r.pc = "insert"
  BY DEF CreateSession
<1> HIDE DEF r
<1>3. \A g \in Handler : handlers'[g] = IF g = h THEN r ELSE handlers[g]
  BY <1>2 DEF TypeInv, HandlersOK
<1>4. UNCHANGED <<db, tracks, readiness, queued, reported>>
  BY DEF CreateSession, history
<1>5. db[s].state = Absent /\ \A g \in Handler : handlers[g].s # s
  BY DEF CreateSession
<1>6. \A t \in Session : Complete(t) => Complete(t)'
  BY <1>2, <1>3, <1>4, <1>5 DEF Complete, Inserting
<1>7. ReadyWasReported' /\ PreparedIsComplete' /\ StartedIsComplete'
  BY <1>1, <1>4, <1>6 DEF ReadyWasReported, PreparedIsComplete, StartedIsComplete, Sent
<1>8. RequestsRely'
  <2> SUFFICES ASSUME NEW g \in Handler
               PROVE  Relies(handlers[g])'
    BY DEF RequestsRely
  <2>1. CASE g = h
    BY <1>2, <1>3, <2>1 DEF Relies
  <2>2. CASE g # h
    <3>1. handlers'[g] = handlers[g] /\ Relies(handlers[g])
      BY <1>1, <1>3, <2>2 DEF RequestsRely
    <3>2. handlers[g].pc # "free" => handlers[g].s \in Session
      BY DEF TypeInv, HandlersOK, RequestOK
    <3> QED
      BY <3>1, <3>2, <1>4, <1>6 DEF Relies
  <2> QED
    BY <2>1, <2>2
<1>9. OneCreates'
  BY <1>1, <1>2, <1>3, <1>5 DEF OneCreates, Inserting
<1> QED
  BY <1>7, <1>8, <1>9 DEF BarrierInv

LEMMA InsertSessionBarrier ==
  ASSUME TypeInv, BarrierInv, NEW h \in Handler, InsertSession(h)
  PROVE  BarrierInv'
<1> DEFINE r == handlers[h]
           q == [r EXCEPT !.pc = "tracks"]
<1>1. r \in Request /\ RequestOK(r) /\ r.pc = "insert" /\ r.op = "create"
  BY DEF TypeInv, HandlersOK, InsertSession, Busy, RequestOK
<1>2. r.s \in Session /\ r.row.state # Absent
  BY <1>1 DEF RequestOK
<1>3. q.op = "create" /\ q.s = r.s /\ q.pc = "tracks"
  BY <1>1 DEF Request
<1>4. /\ db' = [db EXCEPT ![r.s] = r.row]
      /\ UNCHANGED <<tracks, readiness, queued, reported>>
      /\ handlers' = [handlers EXCEPT ![h] = Free] \/ handlers' = [handlers EXCEPT ![h] = q]
  BY DEF InsertSession, history
<1>5. db'[r.s].state # Absent /\ \A t \in Session : db[t].state # Absent => db'[t].state # Absent
  BY <1>2, <1>4 DEF TypeInv, TablesOK
<1>6. CASE handlers' = [handlers EXCEPT ![h] = Free]
  BY <1>4, <1>5, <1>6, FreeMoves
<1>7. CASE handlers' = [handlers EXCEPT ![h] = q]
  <2>1. \A s \in Session : Inserting(q, s) => Inserting(r, s)
    BY <1>1, <1>3 DEF Inserting
  <2> HIDE DEF q
  <2> QED
    BY <1>2, <1>3, <1>4, <1>5, <1>7, <2>1, BarrierMoved
<1> QED
  BY <1>4, <1>6, <1>7

LEMMA InsertTracksBarrier ==
  ASSUME TypeInv, BarrierInv, NEW h \in Handler, InsertTracks(h)
  PROVE  BarrierInv'
<1>0. ReadyWasReported /\ RequestsRely /\ OneCreates /\ PreparedIsComplete /\ StartedIsComplete
  BY DEF BarrierInv
<1> DEFINE r == handlers[h]
<1>1. r \in Request /\ RequestOK(r) /\ r.pc = "tracks" /\ r.op = "create"
  BY DEF TypeInv, HandlersOK, InsertTracks, Busy, RequestOK
<1>2. r.s \in Session /\ db[r.s].state # Absent
  BY <1>0, <1>1 DEF RequestOK, RequestsRely, Relies
<1>3. PICK a \in r.todo :
        /\ tracks' = [tracks EXCEPT ![r.s] = @ \cup {a}]
        /\ handlers' = IF r.todo = {a}
                       THEN [handlers EXCEPT ![h].pc = "queue", ![h].todo = r.parts]
                       ELSE [handlers EXCEPT ![h].todo = @ \ {a}]
  BY DEF InsertTracks
<1>4. UNCHANGED <<db, readiness, queued, reported>>
  BY DEF InsertTracks, history
<1>5. PICK q : /\ handlers' = [handlers EXCEPT ![h] = q]
               /\ q.op = "create" /\ q.s = r.s /\ q.pc \in {"tracks", "queue"}
  <2> DEFINE q1 == [r EXCEPT !.pc = "queue", !.todo = r.parts]
             q2 == [r EXCEPT !.todo = @ \ {a}]
  <2>1. q1.op = "create" /\ q1.s = r.s /\ q1.pc = "queue"
    BY <1>1 DEF Request
  <2>2. q2.op = "create" /\ q2.s = r.s /\ q2.pc = "tracks"
    BY <1>1 DEF Request
  <2>3. handlers' = [handlers EXCEPT ![h] = q1] \/ handlers' = [handlers EXCEPT ![h] = q2]
    BY <1>3 DEF TypeInv, HandlersOK
  <2> HIDE DEF q1, q2
  <2> QED
    BY <2>1, <2>2, <2>3
<1>6. \A g \in Handler : handlers'[g] = IF g = h THEN q ELSE handlers[g]
  BY <1>5 DEF TypeInv, HandlersOK
<1>7. \A s \in Session : s # r.s => tracks'[s] = tracks[s]
  BY <1>3 DEF TypeInv, TablesOK
\* Nobody relies on the participants of this session yet, except this request
\* once it is through.
<1>8. ~Complete(r.s)
  BY <1>1 DEF Complete, Inserting
<1>9. \A s \in Session : Complete(s) => Complete(s)'
  BY <1>1, <1>4, <1>5, <1>6 DEF Complete, Inserting
<1>10. q.pc = "queue" => Complete(r.s)'
  <2> SUFFICES ASSUME q.pc = "queue", NEW g \in Handler
               PROVE  ~Inserting(handlers'[g], r.s)
    <3>1. handlers'[h].s = r.s
      BY <1>5, <1>6
    <3> QED
      BY <1>2, <1>4, <3>1 DEF Complete, Inserting
  <2>1. CASE g = h
    BY <1>6, <2>1 DEF Inserting
  <2>2. CASE g # h
    <3>1. ~Inserting(handlers[g], r.s)
      BY <1>0, <1>1, <1>2, <2>2 DEF OneCreates, Inserting
    <3> QED
      BY <3>1, <1>6, <2>2
  <2> QED
    BY <2>1, <2>2
<1>11. RequestsRely'
  <2> SUFFICES ASSUME NEW g \in Handler
               PROVE  Relies(handlers[g])'
    BY DEF RequestsRely
  <2>1. CASE g = h
    <3>1. handlers'[g] = q
      BY <1>6, <2>1
    <3> QED
      BY <1>2, <1>4, <1>5, <1>10, <3>1 DEF Relies
  <2>2. CASE g # h
    <3>1. handlers'[g] = handlers[g] /\ Relies(handlers[g])
      BY <1>0, <1>6, <2>2 DEF RequestsRely
    <3>2. handlers[g].pc # "free" => handlers[g].s \in Session
      BY DEF TypeInv, HandlersOK, RequestOK
    <3> QED
      BY <3>1, <3>2, <1>4, <1>7, <1>8, <1>9 DEF Relies
  <2> QED
    BY <2>1, <2>2
<1>12. OneCreates'
  BY <1>0, <1>1, <1>5, <1>6 DEF OneCreates, Inserting
<1>13. PreparedIsComplete' /\ StartedIsComplete'
  BY <1>0, <1>4, <1>7, <1>8, <1>9 DEF PreparedIsComplete, StartedIsComplete, Sent
<1> QED
  BY <1>0, <1>4, <1>11, <1>12, <1>13 DEF BarrierInv, ReadyWasReported

LEMMA OpenedBarrier ==
  ASSUME TypeInv, BarrierInv, NEW h \in Handler, NEW s \in Session, NEW a \in Agent,
         \/ \E report \in Kinds : ReportStatus(h, s, a, report)
         \/ IngestManifest(h, s, a)
         \/ CompleteUpload(h, s, a)
  PROVE  BarrierInv'
<1>1. PICK op \in Op : /\ Open(h, op, s, a, "act")
                       /\ op # "create"
                       /\ op = "ready" => Sent(s, a, "prepare")
  BY DEF ReportStatus, IngestManifest, CompleteUpload, Op
<1>2. UNCHANGED <<db, tracks, readiness, queued, reported>>
  BY DEF ReportStatus, IngestManifest, CompleteUpload, history
<1>3. op = "ready" => Complete(s)
  BY <1>1 DEF BarrierInv, PreparedIsComplete
<1> DEFINE r == [op |-> op, s |-> s, a |-> a, pc |-> "act", row |-> db[s],
                 todo |-> {}, parts |-> {}]
<1>4. /\ handlers' = [handlers EXCEPT ![h] = r]
      /\ r.op = op /\ r.s = s /\ r.pc = "act"
      /\ \A t \in Session : ~Inserting(r, t)
  BY <1>1 DEF Open, Inserting
<1> HIDE DEF r
<1> QED
  BY <1>1, <1>2, <1>3, <1>4, BarrierMoved

LEMMA OperatorBarrier ==
  ASSUME TypeInv, BarrierInv, NEW h \in Handler, NEW s \in Session, NEW op \in Kinds,
         Operator(h, op, s)
  PROVE  BarrierInv'
<1> DEFINE r == [op |-> op, s |-> s, a |-> "none", pc |-> "write",
                 row |-> [state |-> Target[op], prefix |-> db[s].prefix \/ op = "save"],
                 todo |-> {}, parts |-> {}]
<1>1. op \in {"stop", "save", "discard"}
  BY DEF Operator, Target
<1>2. /\ handlers' = [handlers EXCEPT ![h] = r]
      /\ r.op = op /\ r.s = s /\ r.pc = "write"
      /\ \A t \in Session : ~Inserting(r, t)
      /\ UNCHANGED <<db, tracks, readiness, queued, reported>>
  BY <1>1 DEF Operator, Inserting, history
<1> HIDE DEF r
<1> QED
  BY <1>1, <1>2, BarrierMoved

\* Where a decision can take a request that is at `act'.
LEMMA ActMoves ==
  ASSUME TypeInv, NEW h \in Handler, handlers[h].pc = "act",
         \/ \E to \in SessionState, pre \in BOOLEAN : Transition(h, to, pre)
         \/ Close(h)
         \/ ActManifest(h)
  PROVE  \E r : /\ handlers' = [handlers EXCEPT ![h] = r]
                /\ \/ r = Free
                   \/ r.op = handlers[h].op /\ r.s = handlers[h].s /\ r.pc = "write"
<1> DEFINE r == handlers[h]
<1>1. r \in Request /\ r.row \in Row
  BY DEF TypeInv, HandlersOK, RequestOK, Request
<1>2. ASSUME NEW to \in SessionState, NEW pre \in BOOLEAN, Transition(h, to, pre)
      PROVE  \E q : /\ handlers' = [handlers EXCEPT ![h] = q]
                    /\ q.op = r.op /\ q.s = r.s /\ q.pc = "write"
  <2> DEFINE q == Moved(r, to, pre, tracks[r.s])
  <2>1. handlers' = [handlers EXCEPT ![h] = q]
    BY <1>2, TransitionMoves
  <2>2. q.op = r.op /\ q.s = r.s /\ q.pc = "write"
    BY <1>2, TransitionMoves
  <2> HIDE DEF q
  <2> QED
    BY <2>1, <2>2
<1>3. CASE ActManifest(h)
  <2> DEFINE q == [r EXCEPT !.pc = "write"]
  <2>1. handlers' = [handlers EXCEPT ![h] = q]
    BY <1>3 DEF ActManifest, TypeInv, HandlersOK
  <2>2. q.op = r.op /\ q.s = r.s /\ q.pc = "write"
    BY <1>1 DEF Request
  <2> HIDE DEF q
  <2> QED
    BY <2>1, <2>2
<1>4. CASE Close(h)
  BY <1>4 DEF Close
<1> QED
  BY <1>2, <1>3, <1>4

LEMMA ActQuietBarrier ==
  ASSUME TypeInv, BarrierInv, NEW h \in Handler,
         ActFailed(h) \/ ActStopped(h) \/ ActManifest(h) \/ ActComplete(h)
  PROVE  BarrierInv'
<1>1. handlers[h].pc = "act" /\ handlers[h].op \in {"failed", "stopped", "manifest", "complete"}
  BY DEF ActFailed, ActStopped, ActManifest, ActComplete, Busy
<1>2. \/ \E to \in SessionState, pre \in BOOLEAN : Transition(h, to, pre)
      \/ Close(h)
      \/ ActManifest(h)
  <2>1. {"failed", "review", "stored"} \subseteq SessionState
    BY DEF SessionState
  <2> QED
    BY <2>1 DEF ActFailed, ActStopped, ActComplete
<1>3. PICK r : /\ handlers' = [handlers EXCEPT ![h] = r]
               /\ \/ r = Free
                  \/ r.op = handlers[h].op /\ r.s = handlers[h].s /\ r.pc = "write"
  BY <1>1, <1>2, ActMoves
<1>4. UNCHANGED <<db, tracks, readiness, queued, reported>>
  BY DEF ActFailed, ActStopped, ActManifest, ActComplete, history
<1>5. CASE r = Free
  BY <1>3, <1>4, <1>5, FreeMoves
<1>6. CASE r.op = handlers[h].op /\ r.s = handlers[h].s /\ r.pc = "write"
  <2>1. r.s \in Session
    BY <1>1, <1>6 DEF TypeInv, HandlersOK, RequestOK
  <2>2. \A t \in Session : ~Inserting(r, t)
    BY <1>6 DEF Inserting
  <2> QED
    BY <1>1, <1>3, <1>4, <1>6, <2>1, <2>2, BarrierMoved
<1> QED
  BY <1>3, <1>5, <1>6

LEMMA ActReadyBarrier ==
  ASSUME TypeInv, BarrierInv, NEW h \in Handler, ActReady(h)
  PROVE  BarrierInv'
<1>0. ReadyWasReported /\ RequestsRely /\ PreparedIsComplete /\ StartedIsComplete
  BY DEF BarrierInv
<1> DEFINE s == handlers[h].s
           a == handlers[h].a
           ready == readiness[s] \cup {a}
<1>1. handlers[h].pc = "act" /\ handlers[h].op = "ready" /\ s \in Session /\ Complete(s)
  BY <1>0 DEF ActReady, Busy, TypeInv, HandlersOK, RequestOK, RequestsRely, Relies
<1>2. /\ readiness' = [readiness EXCEPT ![s] = ready]
      /\ reported' = [reported EXCEPT ![s] = @ \cup {a}]
      /\ UNCHANGED <<db, tracks, queued>>
      /\ \/ tracks[s] \subseteq ready /\ Transition(h, "recording", TRUE)
         \/ Close(h)
  BY DEF ActReady
<1>3. \A t \in Session : reported[t] \subseteq reported'[t] /\ readiness'[t] \subseteq reported'[t]
  BY <1>0, <1>1, <1>2 DEF ReadyWasReported, TypeInv, TablesOK
<1>4. ready \subseteq reported'[s]
  BY <1>0, <1>1, <1>2 DEF ReadyWasReported, TypeInv, TablesOK
<1>5. \A t \in Session, b \in Agent :
        /\ queued'[t][b]["prepare"] > 0 => Complete(t)
        /\ queued'[t][b]["start"] > 0 => Complete(t) /\ tracks[t] \subseteq reported'[t]
  BY <1>0, <1>2, <1>3 DEF PreparedIsComplete, StartedIsComplete, Sent
<1>6. PICK r : /\ handlers' = [handlers EXCEPT ![h] = r]
               /\ \/ r = Free
                  \/ /\ r.op = "ready" /\ r.s = s /\ r.pc = "write"
                     /\ tracks[s] \subseteq ready
  <2>1. CASE Close(h)
    BY <2>1 DEF Close
  <2>2. CASE tracks[s] \subseteq ready /\ Transition(h, "recording", TRUE)
    <3>1. "recording" \in SessionState
      BY DEF SessionState
    <3>2. PICK r : /\ handlers' = [handlers EXCEPT ![h] = r]
                   /\ r = Free \/ (r.op = "ready" /\ r.s = s /\ r.pc = "write")
      BY <1>1, <2>2, <3>1, ActMoves
    <3> QED
      BY <2>2, <3>2
  <2> QED
    BY <1>2, <2>1, <2>2
<1>7. \A t \in Session : db[t].state # Absent => db'[t].state # Absent
  BY <1>2
<1>8. CASE r = Free
  <2>1. r.pc = "free" /\ r.op = "none" /\ \A t \in Session : ~Inserting(r, t)
    BY <1>8 DEF Free, Inserting
  <2> QED
    BY <1>2, <1>3, <1>5, <1>6, <1>7, <2>1, BarrierKept
<1>9. CASE r.op = "ready" /\ r.s = s /\ r.pc = "write" /\ tracks[s] \subseteq ready
  <2>1. \A t \in Session : ~Inserting(r, t)
    BY <1>9 DEF Inserting
  <2>2. tracks[r.s] \subseteq reported'[r.s] /\ Complete(r.s) /\ r.s \in Session
    BY <1>1, <1>4, <1>9
  <2> QED
    BY <1>2, <1>3, <1>5, <1>6, <1>7, <1>9, <2>1, <2>2, BarrierKept
<1> QED
  BY <1>6, <1>8, <1>9

LEMMA WriteRowBarrier ==
  ASSUME TypeInv, BarrierInv, NEW h \in Handler, WriteRow(h)
  PROVE  BarrierInv'
<1> DEFINE r == handlers[h]
           parts == IF r.op = "ready" THEN r.parts ELSE tracks[r.s]
           q == [r EXCEPT !.pc = "queue", !.todo = parts]
<1>1. r \in Request /\ RequestOK(r) /\ r.pc = "write" /\ Relies(r)
  BY DEF TypeInv, HandlersOK, RequestOK, WriteRow, BarrierInv, RequestsRely
<1>2. r.s \in Session /\ r.row.state # Absent
  BY <1>1 DEF RequestOK
<1>3. q.op = r.op /\ q.s = r.s /\ q.pc = "queue"
  BY <1>1 DEF Request
<1>4. /\ handlers' = [handlers EXCEPT ![h] = Free] \/ handlers' = [handlers EXCEPT ![h] = q]
      /\ UNCHANGED <<tracks, queued, reported>>
  BY DEF WriteRow
<1>5. \A t \in Session : /\ readiness'[t] \subseteq readiness[t]
                         /\ db[t].state # Absent => db'[t].state # Absent
  BY <1>2 DEF WriteRow, TypeInv, TablesOK
<1>6. CASE handlers' = [handlers EXCEPT ![h] = Free]
  BY <1>4, <1>5, <1>6, FreeMoves
<1>7. CASE handlers' = [handlers EXCEPT ![h] = q]
  <2>1. \A t \in Session : ~Inserting(q, t)
    BY <1>3 DEF Inserting
  <2>2. r.op # "create"
    BY <1>1 DEF RequestOK
  <2>3. r.op = "ready" => Complete(r.s) /\ tracks[r.s] \subseteq reported[r.s]
    BY <1>1 DEF Relies
  <2> HIDE DEF q
  <2> QED
    BY <1>2, <1>3, <1>4, <1>5, <1>7, <2>1, <2>2, <2>3, BarrierMoved
<1> QED
  BY <1>4, <1>6, <1>7

LEMMA QueueCommandBarrier ==
  ASSUME TypeInv, BarrierInv, NEW h \in Handler, QueueCommand(h)
  PROVE  BarrierInv'
<1>0. ReadyWasReported /\ PreparedIsComplete /\ StartedIsComplete
  BY DEF BarrierInv
<1> DEFINE r == handlers[h]
<1>1. r \in Request /\ RequestOK(r) /\ r.pc = "queue" /\ Relies(r)
  BY DEF TypeInv, HandlersOK, RequestOK, QueueCommand, BarrierInv, RequestsRely
<1>2. r.s \in Session /\ r.op \in DOMAIN Queues /\ Queues[r.op] \in CommandType
  BY <1>1 DEF RequestOK, Queues, CommandType
<1>3. PICK a \in r.todo :
        /\ queued' = [queued EXCEPT ![r.s][a][Queues[r.op]] = @ + 1]
        /\ handlers' = [handlers EXCEPT ![h] = IF r.todo = {a} THEN Free
                                               ELSE [r EXCEPT !.todo = @ \ {a}]]
        /\ readiness' = IF r.todo = {a} /\ r.op \in {"create", "ready"}
                        THEN [readiness EXCEPT ![r.s] = {}] ELSE readiness
  BY DEF QueueCommand
<1>4. a \in Agent
  BY <1>1 DEF Request
<1>5. UNCHANGED <<db, tracks, reported>>
  BY DEF QueueCommand, history
\* Only create() queues prepare, and only the barrier queues start.
<1>6. ASSUME NEW t \in Session, NEW b \in Agent
      PROVE  /\ queued'[t][b]["prepare"] > 0 => Complete(t)
             /\ queued'[t][b]["start"] > 0 => Complete(t) /\ tracks[t] \subseteq reported'[t]
  <2>1. /\ Queues[r.op] = "prepare" => r.op = "create"
        /\ Queues[r.op] = "start" => r.op = "ready"
    BY <1>2 DEF Queues
  <2>2. ASSUME NEW c \in CommandType
        PROVE  \/ queued'[t][b][c] = queued[t][b][c]
               \/ t = r.s /\ c = Queues[r.op]
    BY <1>2, <1>3, <1>4 DEF TypeInv, TablesOK
  <2>3. "prepare" \in CommandType /\ "start" \in CommandType
    BY DEF CommandType
  <2>4. ASSUME queued'[t][b]["prepare"] > 0
        PROVE  Complete(t)
    <3>1. queued[t][b]["prepare"] > 0 \/ (t = r.s /\ r.op = "create")
      BY <2>1, <2>2, <2>3, <2>4
    <3> QED
      BY <1>0, <1>1, <3>1 DEF PreparedIsComplete, Sent, Relies
  <2>5. ASSUME queued'[t][b]["start"] > 0
        PROVE  Complete(t) /\ tracks[t] \subseteq reported'[t]
    <3>1. queued[t][b]["start"] > 0 \/ (t = r.s /\ r.op = "ready")
      BY <2>1, <2>2, <2>3, <2>5
    <3> QED
      BY <1>0, <1>1, <1>5, <3>1 DEF StartedIsComplete, Sent, Relies
  <2> QED
    BY <2>4, <2>5
<1>7. \A t \in Session : /\ reported[t] \subseteq reported'[t]
                         /\ readiness'[t] \subseteq reported'[t]
                         /\ db[t].state # Absent => db'[t].state # Absent
  BY <1>0, <1>2, <1>3, <1>5 DEF ReadyWasReported, TypeInv, TablesOK
<1>8. CASE r.todo = {a}
  <2>1. handlers' = [handlers EXCEPT ![h] = Free]
    BY <1>3, <1>8
  <2>2. Free.pc = "free" /\ Free.op = "none" /\ \A t \in Session : ~Inserting(Free, t)
    BY DEF Free, Inserting
  <2> QED
    BY <1>5, <1>6, <1>7, <2>1, <2>2, BarrierKept
<1>9. CASE r.todo # {a}
  <2> DEFINE q == [r EXCEPT !.todo = @ \ {a}]
  <2>1. handlers' = [handlers EXCEPT ![h] = q]
    BY <1>3, <1>9
  <2>2. q.op = r.op /\ q.s = r.s /\ q.pc = "queue"
    BY <1>1 DEF Request
  <2>3. \A t \in Session : ~Inserting(q, t)
    BY <2>2 DEF Inserting
  <2>4. /\ r.op = "create" => Complete(r.s)
        /\ r.op = "ready" => Complete(r.s) /\ tracks[r.s] \subseteq reported'[r.s]
    BY <1>1, <1>5 DEF Relies
  <2> HIDE DEF q
  <2> QED
    BY <1>2, <1>5, <1>6, <1>7, <2>1, <2>2, <2>3, <2>4, BarrierKept
<1> QED
  BY <1>8, <1>9

LEMMA RestartBarrier ==
  ASSUME TypeInv, BarrierInv, ApiRestart
  PROVE  BarrierInv'
<1>1. ReadyWasReported /\ PreparedIsComplete /\ StartedIsComplete
  BY DEF BarrierInv
<1>2. /\ \A h \in Handler : handlers'[h] = Free
      /\ \A s \in Session : readiness'[s] = {}
      /\ UNCHANGED <<db, tracks, queued, reported>>
  BY DEF ApiRestart
<1>3. Free.op = "none"
  BY DEF Free
<1>4. \A s \in Session : Complete(s) => Complete(s)'
  BY <1>2, <1>3 DEF Complete, Inserting
<1>5. RequestsRely' /\ OneCreates' /\ ReadyWasReported'
  BY <1>2, <1>3 DEF RequestsRely, Relies, OneCreates, Inserting, ReadyWasReported
<1>6. PreparedIsComplete' /\ StartedIsComplete'
  BY <1>1, <1>2, <1>4 DEF PreparedIsComplete, StartedIsComplete, Sent
<1> QED
  BY <1>5, <1>6 DEF BarrierInv

LEMMA BarrierInductive == TypeInv /\ BarrierInv /\ [Next]_vars => BarrierInv'
<1> SUFFICES ASSUME TypeInv, BarrierInv, [Next]_vars
             PROVE  BarrierInv'
  OBVIOUS
<1>1. ASSUME NEW h \in Handler, Begin(h)
      PROVE  BarrierInv'
  BY <1>1, CreateBarrier, OperatorBarrier, OpenedBarrier DEF Begin
<1>2. ASSUME NEW h \in Handler, Continue(h)
      PROVE  BarrierInv'
  BY <1>2, InsertSessionBarrier, InsertTracksBarrier, ActQuietBarrier, ActReadyBarrier,
     WriteRowBarrier, QueueCommandBarrier DEF Continue
<1>3. CASE UNCHANGED <<db, tracks, readiness, queued, handlers, reported>>
  BY <1>3 DEF BarrierInv, ReadyWasReported, RequestsRely, Relies, OneCreates, Inserting,
              PreparedIsComplete, StartedIsComplete, Complete, Sent
<1>4. ASSUME NEW s \in Session, PurgeObjects(s) \/ \E a \in Agent : UploadObjects(s, a)
      PROVE  BarrierInv'
  BY <1>3, <1>4 DEF PurgeObjects, UploadObjects, history
<1>5. CASE UNCHANGED vars
  BY <1>3, <1>5 DEF vars
<1> QED
  BY <1>1, <1>2, <1>4, <1>5, RestartBarrier DEF Next

\* No agent is sent start before every participant has reported ready, however
\* requests overlap and whenever the API restarts.
THEOREM StartBarrierHolds == Spec => []StartNeedsAllReady
<1>1. Init => BarrierInv
  BY DEF Init, BarrierInv, ReadyWasReported, RequestsRely, Relies, OneCreates, Inserting,
         PreparedIsComplete, StartedIsComplete, Sent, Free, CommandType
<1>2. BarrierInv => StartNeedsAllReady
  BY DEF BarrierInv, StartedIsComplete, StartNeedsAllReady
<1> QED
  BY <1>1, <1>2, TypeInitial, TypeInductive, BarrierInductive, PTL DEF Spec

-----------------------------------------------------------------------------
\* The review gate.  Rows are written back whole and late, so what has to be
\* kept track of is not only the row but every copy of it a request carries:
\* none says `uploading' or `stored' without a Save, except that of the Save.

InStorage == {"uploading", "stored"}
Carries(r) ==
  /\ r.op # "save" /\ r.pc # "free" /\ r.row.state \in InStorage => r.s \in saved
  /\ r.op = "save" /\ r.pc = "queue" => r.s \in saved

RowsSaved == \A s \in Session : db[s].state \in InStorage => s \in saved
CopiesSaved == \A h \in Handler : Carries(handlers[h])
UploadsSaved == \A s \in Session, a \in Agent : Sent(s, a, "upload") => s \in saved

GateInv == RowsSaved /\ CopiesSaved /\ UploadsSaved

LEMMA GateKept ==
  ASSUME TypeInv, GateInv, NEW h \in Handler, NEW r,
         handlers' = [handlers EXCEPT ![h] = r],
         saved \subseteq saved',
         r.op # "save" /\ r.pc # "free" /\ r.row.state \in InStorage => r.s \in saved',
         r.op = "save" /\ r.pc = "queue" => r.s \in saved',
         \A s \in Session : db'[s].state \in InStorage => s \in saved',
         \A s \in Session, a \in Agent : queued'[s][a]["upload"] > 0 => s \in saved'
  PROVE  GateInv'
<1>1. \A g \in Handler : handlers'[g] = IF g = h THEN r ELSE handlers[g]
  BY DEF TypeInv, HandlersOK
<1>2. CopiesSaved'
  <2> SUFFICES ASSUME NEW g \in Handler
               PROVE  Carries(handlers[g])'
    BY DEF CopiesSaved
  <2>1. CASE g = h
    BY <1>1, <2>1 DEF Carries
  <2>2. CASE g # h
    BY <1>1, <2>2 DEF Carries, GateInv, CopiesSaved
  <2> QED
    BY <2>1, <2>2
<1> QED
  BY <1>2 DEF GateInv, RowsSaved, UploadsSaved, Sent

\* The same for the steps that write no row and queue nothing.
LEMMA GateMoved ==
  ASSUME TypeInv, GateInv, NEW h \in Handler, NEW r,
         handlers' = [handlers EXCEPT ![h] = r],
         UNCHANGED <<db, queued, saved>>,
         r.op # "save" /\ r.pc # "free" /\ r.row.state \in InStorage => r.s \in saved,
         r.op = "save" => r.pc # "queue"
  PROVE  GateInv'
<1>1. RowsSaved /\ UploadsSaved
  BY DEF GateInv
<1> QED
  BY <1>1, GateKept DEF RowsSaved, UploadsSaved, Sent

LEMMA BeginGate ==
  ASSUME TypeInv, GateInv, NEW h \in Handler, Begin(h)
  PROVE  GateInv'
<1>0. RowsSaved
  BY DEF GateInv
<1>1. ASSUME NEW s \in Session, NEW chosen \in SUBSET Agent, CreateSession(h, s, chosen)
      PROVE  GateInv'
  <2> DEFINE n == [NoRow EXCEPT !.state = "preparing"]
             r == [op |-> "create", s |-> s, a |-> "none", pc |-> "insert", row |-> n,
                   todo |-> chosen, parts |-> chosen]
  <2>1. n.state \notin InStorage
    BY DEF NoRow, InStorage
  <2>2. r.op = "create" /\ r.row.state \notin InStorage
    BY <2>1
  <2>3. handlers' = [handlers EXCEPT ![h] = r] /\ UNCHANGED <<db, queued, saved>>
    BY <1>1 DEF CreateSession, history
  <2> HIDE DEF r
  <2> QED
    BY <2>2, <2>3, GateMoved
<1>2. ASSUME NEW s \in Session, NEW a \in Agent, NEW op \in Op \ {"save"},
             Open(h, op, s, a, "act"), UNCHANGED <<db, queued, saved>>
      PROVE  GateInv'
  <2> DEFINE r == [op |-> op, s |-> s, a |-> a, pc |-> "act", row |-> db[s],
                   todo |-> {}, parts |-> {}]
  <2>1. r.op = op /\ r.s = s /\ r.row = db[s]
    OBVIOUS
  <2>2. handlers' = [handlers EXCEPT ![h] = r]
    BY <1>2 DEF Open
  <2> HIDE DEF r
  <2> QED
    BY <1>0, <1>2, <2>1, <2>2, GateMoved DEF RowsSaved
<1>3. ASSUME NEW s \in Session, NEW op \in Kinds, Operator(h, op, s)
      PROVE  GateInv'
  <2> DEFINE n == [state |-> Target[op], prefix |-> db[s].prefix \/ op = "save"]
             r == [op |-> op, s |-> s, a |-> "none", pc |-> "write", row |-> n,
                   todo |-> {}, parts |-> {}]
  <2>1. op \in {"stop", "save", "discard"}
    BY <1>3 DEF Operator, Target
  <2>2. r.op = op /\ r.pc = "write" /\ r.row.state = Target[op]
    OBVIOUS
  <2>3. op # "save" => Target[op] \notin InStorage
    BY <2>1 DEF Target, InStorage
  <2>4. handlers' = [handlers EXCEPT ![h] = r] /\ UNCHANGED <<db, queued, saved>>
    BY <1>3 DEF Operator, history
  <2> HIDE DEF r
  <2> QED
    BY <2>2, <2>3, <2>4, GateMoved
<1>4. ASSUME NEW s \in Session, NEW a \in Agent,
             \/ \E report \in Kinds : ReportStatus(h, s, a, report)
             \/ IngestManifest(h, s, a)
             \/ CompleteUpload(h, s, a)
      PROVE  GateInv'
  <2>1. PICK op \in Op \ {"save"} : Open(h, op, s, a, "act")
    BY <1>4 DEF ReportStatus, IngestManifest, CompleteUpload, Op
  <2>2. UNCHANGED <<db, queued, saved>>
    BY <1>4 DEF ReportStatus, IngestManifest, CompleteUpload, history
  <2> QED
    BY <1>2, <2>1, <2>2
<1> QED
  BY <1>1, <1>3, <1>4 DEF Begin

\* A decision carries on what it read: only `stored' is new, and it is only
\* reached from `uploading'.
LEMMA ActGate ==
  ASSUME TypeInv, GateInv, NEW h \in Handler,
         ActFailed(h) \/ ActStopped(h) \/ ActReady(h) \/ ActManifest(h) \/ ActComplete(h)
  PROVE  GateInv'
<1> DEFINE r == handlers[h]
<1>1. /\ r \in Request /\ r.pc = "act" /\ r.s \in Session
      /\ r.op \in {"failed", "stopped", "ready", "manifest", "complete"}
      /\ Carries(r)
  BY DEF ActFailed, ActStopped, ActReady, ActManifest, ActComplete, Busy, TypeInv, HandlersOK,
         RequestOK, GateInv, CopiesSaved
<1>2. UNCHANGED <<db, queued, saved>>
  BY DEF ActFailed, ActStopped, ActReady, ActManifest, ActComplete, history
<1>3. ASSUME NEW to \in {"failed", "review", "recording", "stored"}, NEW pre \in BOOLEAN,
             Transition(h, to, pre)
      PROVE  GateInv'
  <2> DEFINE q == Moved(r, to, pre, tracks[r.s])
  <2>1. to \in SessionState
    BY DEF SessionState
  <2>2. /\ handlers' = [handlers EXCEPT ![h] = q]
        /\ q.op = r.op /\ q.s = r.s /\ q.pc = "write" /\ q.row.state = to
    BY <1>3, <2>1, TransitionMoves
  <2>3. r.row.state \in SessionState \cup {Absent}
    BY <1>1 DEF Request, Row
  <2>4. to = "stored" => r.row.state = "uploading"
    BY <1>3, <2>3 DEF Transition, isLegalTransition, LEGAL, SessionState, Absent
  <2>5. to \in InStorage => r.s \in saved
    BY <1>1, <2>4 DEF Carries, InStorage
  <2> HIDE DEF q
  <2> QED
    BY <1>1, <1>2, <2>2, <2>5, GateMoved
<1>4. CASE Close(h)
  BY <1>2, <1>4, GateMoved DEF Close, Free
<1>5. CASE ActManifest(h)
  <2> DEFINE q == [r EXCEPT !.pc = "write"]
  <2>1. handlers' = [handlers EXCEPT ![h] = q]
    BY <1>5 DEF ActManifest, TypeInv, HandlersOK
  <2>2. q.op = r.op /\ q.s = r.s /\ q.row = r.row /\ q.pc = "write"
    BY <1>1 DEF Request
  <2> HIDE DEF q
  <2> QED
    BY <1>1, <1>2, <2>1, <2>2, GateMoved DEF Carries
<1> QED
  BY <1>3, <1>4, <1>5 DEF ActFailed, ActStopped, ActReady, ActComplete

LEMMA ContinueGate ==
  ASSUME TypeInv, GateInv, NEW h \in Handler,
         InsertSession(h) \/ InsertTracks(h) \/ WriteRow(h) \/ QueueCommand(h)
  PROVE  GateInv'
<1> DEFINE r == handlers[h]
<1>0. RowsSaved /\ UploadsSaved
  BY DEF GateInv
<1>1. r \in Request /\ RequestOK(r) /\ Carries(r)
  BY DEF TypeInv, HandlersOK, RequestOK, GateInv, CopiesSaved
<1>2. CASE InsertTracks(h)
  <2>1. PICK a \in r.todo :
          handlers' = IF r.todo = {a}
                      THEN [handlers EXCEPT ![h].pc = "queue", ![h].todo = r.parts]
                      ELSE [handlers EXCEPT ![h].todo = @ \ {a}]
    BY <1>2 DEF InsertTracks
  <2>2. r.op = "create" /\ r.pc = "tracks" /\ UNCHANGED <<db, queued, saved>>
    BY <1>2 DEF InsertTracks, Busy, history
  <2>3. PICK q : /\ handlers' = [handlers EXCEPT ![h] = q]
                 /\ q.op = "create" /\ q.s = r.s /\ q.row = r.row
    <3> DEFINE q1 == [r EXCEPT !.pc = "queue", !.todo = r.parts]
               q2 == [r EXCEPT !.todo = @ \ {a}]
    <3>1. q1.op = r.op /\ q1.s = r.s /\ q1.row = r.row /\ q2.op = r.op /\ q2.s = r.s /\ q2.row = r.row
      BY <1>1 DEF Request
    <3>2. handlers' = [handlers EXCEPT ![h] = q1] \/ handlers' = [handlers EXCEPT ![h] = q2]
      BY <2>1 DEF TypeInv, HandlersOK
    <3> HIDE DEF q1, q2
    <3> QED
      BY <2>2, <3>1, <3>2
  <2> QED
    BY <1>1, <2>2, <2>3, GateMoved DEF Carries
<1>3. CASE InsertSession(h)
  <2> DEFINE q == [r EXCEPT !.pc = "tracks"]
  <2>1. r.op = "create" /\ r.pc = "insert" /\ r.s \in Session
    BY <1>1, <1>3 DEF InsertSession, Busy, RequestOK
  <2>2. q.op = "create" /\ q.s = r.s /\ q.row = r.row
    BY <1>1, <2>1 DEF Request
  <2>3. /\ handlers' = [handlers EXCEPT ![h] = Free] \/ handlers' = [handlers EXCEPT ![h] = q]
        /\ db' = [db EXCEPT ![r.s] = r.row] /\ UNCHANGED <<queued, saved>>
    BY <1>3 DEF InsertSession, history
  <2>4. \A s \in Session : db'[s].state \in InStorage => s \in saved'
    BY <1>0, <1>1, <2>1, <2>3 DEF RowsSaved, Carries, TypeInv, TablesOK
  <2>5. \A s \in Session, a \in Agent : queued'[s][a]["upload"] > 0 => s \in saved'
    BY <1>0, <2>3 DEF UploadsSaved, Sent
  <2>6. Free.op = "none" /\ Free.pc = "free"
    BY DEF Free
  <2>7. r.row.state \in InStorage => r.s \in saved
    BY <1>1, <2>1 DEF Carries
  <2> HIDE DEF q
  <2> QED
    BY <2>2, <2>3, <2>4, <2>5, <2>6, <2>7, GateKept
<1>4. CASE WriteRow(h)
  <2> DEFINE parts == IF r.op = "ready" THEN r.parts ELSE tracks[r.s]
             q == [r EXCEPT !.pc = "queue", !.todo = parts]
  <2>1. r.pc = "write" /\ r.s \in Session
    BY <1>1, <1>4 DEF WriteRow, RequestOK
  <2>2. q.op = r.op /\ q.s = r.s /\ q.row = r.row
    BY <1>1 DEF Request
  <2>3. /\ handlers' = [handlers EXCEPT ![h] = Free] \/ handlers' = [handlers EXCEPT ![h] = q]
        /\ db' = [db EXCEPT ![r.s] = r.row]
        /\ saved' = IF r.op = "save" THEN saved \cup {r.s} ELSE saved
        /\ UNCHANGED queued
    BY <1>4 DEF WriteRow
  <2>4. r.row.state \in InStorage => r.s \in saved'
    BY <1>1, <2>1, <2>3 DEF Carries
  <2>5. \A s \in Session : db'[s].state \in InStorage => s \in saved'
    BY <1>0, <2>1, <2>3, <2>4 DEF RowsSaved, TypeInv, TablesOK
  <2>6. \A s \in Session, a \in Agent : queued'[s][a]["upload"] > 0 => s \in saved'
    BY <1>0, <2>3 DEF UploadsSaved, Sent
  <2>7. Free.op = "none" /\ Free.pc = "free"
    BY DEF Free
  <2> HIDE DEF q
  <2> QED
    BY <2>2, <2>3, <2>4, <2>5, <2>6, <2>7, GateKept
<1>5. CASE QueueCommand(h)
  <2>1. r.pc = "queue" /\ r.s \in Session /\ r.op \in DOMAIN Queues
    BY <1>1, <1>5 DEF QueueCommand, RequestOK
  <2>2. PICK a \in r.todo :
          /\ queued' = [queued EXCEPT ![r.s][a][Queues[r.op]] = @ + 1]
          /\ handlers' = [handlers EXCEPT ![h] = IF r.todo = {a} THEN Free
                                                 ELSE [r EXCEPT !.todo = @ \ {a}]]
    BY <1>5 DEF QueueCommand
  <2>3. UNCHANGED <<db, saved>> /\ a \in Agent
    BY <1>1, <1>5 DEF QueueCommand, history, Request
  <2>4. /\ Queues[r.op] \in CommandType
        /\ Queues[r.op] = "upload" => r.op = "save"
    BY <2>1 DEF Queues, CommandType
  <2>5. \A s \in Session, b \in Agent : queued'[s][b]["upload"] > 0 => s \in saved'
    <3> SUFFICES ASSUME NEW s \in Session, NEW b \in Agent, queued'[s][b]["upload"] > 0
                 PROVE  s \in saved
      BY <2>3
    <3>1. "upload" \in CommandType
      BY DEF CommandType
    <3>2. queued[s][b]["upload"] > 0 \/ (s = r.s /\ r.op = "save")
      BY <2>1, <2>2, <2>3, <2>4, <3>1 DEF TypeInv, TablesOK
    <3> QED
      BY <1>0, <1>1, <2>1, <3>2 DEF UploadsSaved, Sent, Carries
  <2>6. \A s \in Session : db'[s].state \in InStorage => s \in saved'
    BY <1>0, <2>3 DEF RowsSaved
  <2> DEFINE q == [r EXCEPT !.todo = @ \ {a}]
  <2>7. q.op = r.op /\ q.s = r.s /\ q.row = r.row /\ q.pc = r.pc
    BY <1>1 DEF Request
  <2>8. handlers' = [handlers EXCEPT ![h] = Free] \/ handlers' = [handlers EXCEPT ![h] = q]
    BY <2>2
  <2>9. Free.op = "none" /\ Free.pc = "free"
    BY DEF Free
  <2> HIDE DEF q
  <2> QED
    BY <1>1, <2>1, <2>3, <2>5, <2>6, <2>7, <2>8, <2>9, GateKept DEF Carries
<1> QED
  BY <1>2, <1>3, <1>4, <1>5

LEMMA GateInductive == TypeInv /\ GateInv /\ [Next]_vars => GateInv'
<1> SUFFICES ASSUME TypeInv, GateInv, [Next]_vars
             PROVE  GateInv'
  OBVIOUS
<1>1. ASSUME NEW h \in Handler, Continue(h)
      PROVE  GateInv'
  BY <1>1, ActGate, ContinueGate DEF Continue
<1>2. CASE UNCHANGED <<db, queued, handlers, saved>>
  BY <1>2 DEF GateInv, RowsSaved, CopiesSaved, UploadsSaved, Carries, Sent
<1>3. ASSUME NEW s \in Session, PurgeObjects(s) \/ \E a \in Agent : UploadObjects(s, a)
      PROVE  GateInv'
  BY <1>2, <1>3 DEF PurgeObjects, UploadObjects, history
<1>4. CASE ApiRestart
  <2>1. \A h \in Handler : handlers'[h].op = "none" /\ handlers'[h].pc = "free"
    BY <1>4 DEF ApiRestart, Free
  <2> QED
    BY <1>4, <2>1 DEF ApiRestart, GateInv, RowsSaved, CopiesSaved, UploadsSaved, Carries, Sent
<1>5. CASE UNCHANGED vars
  BY <1>2, <1>5 DEF vars
<1> QED
  BY <1>1, <1>3, <1>4, <1>5, BeginGate DEF Next

\* Nothing is sent to storage or called stored without the operator's Save,
\* even with stale copies of the row being written back.
THEOREM ReviewGateHolds == Spec => []UploadNeedsSave
<1>1. Init => GateInv
  BY DEF Init, GateInv, RowsSaved, CopiesSaved, UploadsSaved, Carries, Sent, InStorage, NoRow,
         Absent, Free, CommandType
<1>2. GateInv => UploadNeedsSave
  BY DEF GateInv, RowsSaved, UploadsSaved, UploadNeedsSave, InStorage
<1> QED
  BY <1>1, <1>2, TypeInitial, TypeInductive, GateInductive, PTL DEF Spec
-----------------------------------------------------------------------------
\* One request at a time.  With a single slot a request's copy of the row is
\* the row: it decides on what it overwrites.  That is what three promises take
\* which overlapping requests break: rows follow the table, an agent is started
\* once, and what a decision has ruled out is not carried out by another one.
\* Restarts still cut a request short at any of its steps.

Serial == \A g, h \in Handler : g = h

\* The row a request is about, at each of the request's steps.
Lawful(r, rows, sent) ==
  /\ r.pc = "insert" => rows[r.s].state = Absent /\ r.row.state = "preparing"
  /\ r.pc = "act" => r.row = rows[r.s]
  /\ r.pc = "write" /\ r.op = "manifest" => r.row.state = rows[r.s].state
  /\ r.pc = "write" /\ r.op # "manifest" =>
       /\ r.row.state \in LEGAL[rows[r.s].state]
       /\ r.op = "save" <=> r.row.state = "uploading"
       /\ r.op = "ready" => r.row.state = "recording"
       /\ r.op = "discard" => r.row.state = "discarded"
  /\ r.pc = "queue" =>
       /\ r.op = "ready" => /\ rows[r.s].state = "recording"
                            /\ \A a \in r.todo : sent[r.s][a]["start"] = 0
       /\ r.op = "save" => rows[r.s].state = "uploading"
       /\ r.op = "discard" => rows[r.s].state = "discarded"

\* A request about to store a session has just found its objects.
Checked(r, listed, present) ==
  r.pc = "write" /\ r.op # "manifest" /\ r.row.state = "stored" =>
    listed[r.s] # {} /\ listed[r.s] \subseteq present[r.s]

\* What has been sent for a session, by the state of its row.
CommandsFit(rows, sent) ==
  \A s \in Session, a \in Agent :
    /\ sent[s][a]["start"] <= 1
    /\ sent[s][a]["start"] > 0 => rows[s].state \notin {Absent, "preparing"}
    /\ sent[s][a]["upload"] > 0 => rows[s].state \in {"uploading", "stored", "failed"}
    /\ sent[s][a]["abort"] > 0 => rows[s].state = "discarded"

SerialInv == /\ \A h \in Handler : /\ Lawful(handlers[h], db, queued)
                                   /\ Checked(handlers[h], manifests, objects)
             /\ CommandsFit(db, queued)

\* The only request there is moves.
LEMMA SerialMoved ==
  ASSUME Serial, TypeInv, NEW h \in Handler, NEW r,
         handlers' = [handlers EXCEPT ![h] = r],
         Lawful(r, db', queued'), Checked(r, manifests', objects'), CommandsFit(db', queued')
  PROVE  SerialInv'
<1>1. \A g \in Handler : handlers'[g] = r
  BY DEF TypeInv, HandlersOK, Serial
<1> QED
  BY <1>1 DEF SerialInv, Lawful, Checked, CommandsFit

LEMMA IdleLawful ==
  ASSUME NEW r, r.pc \in {"free", "tracks"}, NEW rows, NEW sent, NEW listed, NEW present
  PROVE  Lawful(r, rows, sent) /\ Checked(r, listed, present)
BY DEF Lawful, Checked

LEMMA SerialFreed ==
  ASSUME Serial, TypeInv, NEW h \in Handler, handlers' = [handlers EXCEPT ![h] = Free],
         CommandsFit(db', queued')
  PROVE  SerialInv'
<1>1. Free.pc = "free"
  BY DEF Free
<1>2. Lawful(Free, db', queued') /\ Checked(Free, manifests', objects')
  BY <1>1, IdleLawful
<1> QED
  BY <1>2, SerialMoved

\* A row that moves along the table keeps to what has been sent.
LEMMA RowMoves ==
  ASSUME TypeInv, CommandsFit(db, queued), NEW s \in Session, NEW row \in Row,
         db' = [db EXCEPT ![s] = row], queued' = queued,
         \/ row.state = db[s].state
         \/ row.state \in LEGAL[db[s].state]
         \/ db[s].state = Absent
  PROVE  CommandsFit(db', queued')
<1>1. db[s].state \in SessionState \cup {Absent}
  BY DEF TypeInv, TablesOK, Row
<1>2. \A t \in Session : db'[t] = IF t = s THEN row ELSE db[t]
  BY DEF TypeInv, TablesOK
<1>3. SUFFICES ASSUME NEW t \in Session, NEW a \in Agent
               PROVE  /\ queued[t][a]["start"] <= 1
                      /\ queued[t][a]["start"] > 0 => db'[t].state \notin {Absent, "preparing"}
                      /\ queued[t][a]["upload"] > 0 =>
                           db'[t].state \in {"uploading", "stored", "failed"}
                      /\ queued[t][a]["abort"] > 0 => db'[t].state = "discarded"
  BY DEF CommandsFit
<1>4. /\ queued[t][a]["start"] <= 1
      /\ queued[t][a]["start"] > 0 => db[t].state \notin {Absent, "preparing"}
      /\ queued[t][a]["upload"] > 0 => db[t].state \in {"uploading", "stored", "failed"}
      /\ queued[t][a]["abort"] > 0 => db[t].state = "discarded"
  BY DEF CommandsFit
<1>5. CASE t # s
  BY <1>2, <1>4, <1>5
<1>6. CASE t = s /\ row.state = db[s].state
  BY <1>2, <1>4, <1>6
<1>7. CASE t = s /\ row.state \in LEGAL[db[s].state]
  <2>1. /\ row.state \notin {Absent, "preparing"}
        /\ db[s].state \in {"uploading", "stored", "failed"} => row.state \in {"stored", "failed"}
        /\ db[s].state # "discarded"
    BY <1>1, <1>7 DEF LEGAL, SessionState, Absent
  <2> QED
    BY <1>2, <1>4, <1>7, <2>1
<1>8. CASE t = s /\ db[s].state = Absent
  BY <1>2, <1>4, <1>8 DEF Absent
<1> QED
  BY <1>5, <1>6, <1>7, <1>8

LEMMA BeginSerial ==
  ASSUME Serial, TypeInv, SerialInv, NEW h \in Handler, Begin(h)
  PROVE  SerialInv'
<1>1. CommandsFit(db, queued)
  BY DEF SerialInv
<1>2. ASSUME NEW s \in Session, NEW chosen \in SUBSET Agent, CreateSession(h, s, chosen)
      PROVE  SerialInv'
  <2> DEFINE n == [NoRow EXCEPT !.state = "preparing"]
             r == [op |-> "create", s |-> s, a |-> "none", pc |-> "insert", row |-> n,
                   todo |-> chosen, parts |-> chosen]
  <2>1. n.state = "preparing"
    BY DEF NoRow
  <2>2. r.s = s /\ r.pc = "insert" /\ r.row.state = "preparing"
    BY <2>1
  <2>3. handlers' = [handlers EXCEPT ![h] = r] /\ UNCHANGED <<db, queued>> /\ db[s].state = Absent
    BY <1>2 DEF CreateSession, history
  <2> HIDE DEF r
  <2>4. Lawful(r, db', queued') /\ Checked(r, manifests', objects')
    BY <2>2, <2>3 DEF Lawful, Checked
  <2> QED
    BY <1>1, <2>3, <2>4, SerialMoved
<1>3. ASSUME NEW s \in Session, NEW a \in Agent, NEW op \in Op,
             Open(h, op, s, a, "act"), UNCHANGED <<db, queued>>
      PROVE  SerialInv'
  <2> DEFINE r == [op |-> op, s |-> s, a |-> a, pc |-> "act", row |-> db[s],
                   todo |-> {}, parts |-> {}]
  <2>1. r.s = s /\ r.pc = "act" /\ r.row = db[s]
    OBVIOUS
  <2>2. handlers' = [handlers EXCEPT ![h] = r]
    BY <1>3 DEF Open
  <2> HIDE DEF r
  <2>3. Lawful(r, db', queued') /\ Checked(r, manifests', objects')
    BY <1>3, <2>1 DEF Lawful, Checked
  <2> QED
    BY <1>1, <1>3, <2>2, <2>3, SerialMoved
<1>4. ASSUME NEW s \in Session, NEW op \in Kinds, Operator(h, op, s)
      PROVE  SerialInv'
  <2> DEFINE n == [state |-> Target[op], prefix |-> db[s].prefix \/ op = "save"]
             r == [op |-> op, s |-> s, a |-> "none", pc |-> "write", row |-> n,
                   todo |-> {}, parts |-> {}]
  <2>1. op \in {"stop", "save", "discard"}
    BY <1>4 DEF Operator, Target
  <2>2. r.op = op /\ r.s = s /\ r.pc = "write" /\ r.row.state = Target[op]
    OBVIOUS
  <2>3. /\ op = "save" <=> Target[op] = "uploading"
        /\ op = "discard" => Target[op] = "discarded"
        /\ Target[op] # "stored"
    BY <2>1 DEF Target
  <2>4. /\ handlers' = [handlers EXCEPT ![h] = r] /\ UNCHANGED <<db, queued>>
        /\ Target[op] \in LEGAL[db[s].state]
    BY <1>4 DEF Operator, isLegalTransition, history
  <2> HIDE DEF r
  <2>5. Lawful(r, db', queued')
    BY <2>1, <2>2, <2>3, <2>4 DEF Lawful
  <2>6. Checked(r, manifests', objects')
    BY <2>2, <2>3 DEF Checked
  <2> QED
    BY <1>1, <2>4, <2>5, <2>6, SerialMoved
<1>5. ASSUME NEW s \in Session, NEW a \in Agent,
             \/ \E report \in Kinds : ReportStatus(h, s, a, report)
             \/ IngestManifest(h, s, a)
             \/ CompleteUpload(h, s, a)
      PROVE  SerialInv'
  <2>1. PICK op \in Op : Open(h, op, s, a, "act")
    BY <1>5 DEF ReportStatus, IngestManifest, CompleteUpload, Op
  <2>2. UNCHANGED <<db, queued>>
    BY <1>5 DEF ReportStatus, IngestManifest, CompleteUpload, history
  <2> QED
    BY <1>3, <2>1, <2>2
<1> QED
  BY <1>2, <1>4, <1>5 DEF Begin

\* A decision is taken on the row that is there.
LEMMA ActSerial ==
  ASSUME Serial, TypeInv, SerialInv, NEW h \in Handler,
         ActFailed(h) \/ ActStopped(h) \/ ActReady(h) \/ ActManifest(h) \/ ActComplete(h)
  PROVE  SerialInv'
<1> DEFINE r == handlers[h]
<1>1. /\ r \in Request /\ r.pc = "act" /\ r.s \in Session
      /\ r.op \in {"failed", "stopped", "ready", "manifest", "complete"}
      /\ r.row = db[r.s]
      /\ CommandsFit(db, queued)
  BY DEF ActFailed, ActStopped, ActReady, ActManifest, ActComplete, Busy, TypeInv, HandlersOK,
         RequestOK, SerialInv, Lawful
<1>2. UNCHANGED <<db, queued>>
  BY DEF ActFailed, ActStopped, ActReady, ActManifest, ActComplete, history
<1>3. ASSUME NEW to \in {"failed", "review", "recording", "stored"}, NEW pre \in BOOLEAN,
             Transition(h, to, pre),
             r.op # "manifest", r.op = "ready" => to = "recording",
             to = "stored" => Verified(r.s) /\ UNCHANGED <<manifests, objects>>
      PROVE  SerialInv'
  <2> DEFINE q == Moved(r, to, pre, tracks[r.s])
  <2>1. to \in SessionState
    BY DEF SessionState
  <2>2. /\ handlers' = [handlers EXCEPT ![h] = q]
        /\ q.op = r.op /\ q.s = r.s /\ q.pc = "write" /\ q.row.state = to
    BY <1>3, <2>1, TransitionMoves
  <2>3. to \in LEGAL[db[r.s].state]
    BY <1>1, <1>3 DEF Transition, isLegalTransition
  <2> HIDE DEF q
  <2>4. Lawful(q, db', queued')
    BY <1>1, <1>2, <1>3, <2>2, <2>3 DEF Lawful
  <2>5. Checked(q, manifests', objects')
    BY <1>3, <2>2 DEF Checked, Verified
  <2> QED
    BY <1>1, <1>2, <2>2, <2>4, <2>5, SerialMoved
<1>4. CASE Close(h)
  BY <1>1, <1>2, <1>4, SerialFreed DEF Close
<1>5. CASE ActManifest(h)
  <2> DEFINE q == [r EXCEPT !.pc = "write"]
  <2>1. handlers' = [handlers EXCEPT ![h] = q] /\ r.op = "manifest"
    BY <1>5 DEF ActManifest, Busy, TypeInv, HandlersOK
  <2>2. q.op = r.op /\ q.s = r.s /\ q.row = r.row /\ q.pc = "write"
    BY <1>1 DEF Request
  <2> HIDE DEF q
  <2>3. Lawful(q, db', queued') /\ Checked(q, manifests', objects')
    BY <1>1, <1>2, <2>1, <2>2 DEF Lawful, Checked
  <2> QED
    BY <1>1, <1>2, <2>1, <2>3, SerialMoved
<1>6. CASE ActFailed(h)
  BY <1>1, <1>3, <1>4, <1>6 DEF ActFailed, Busy
<1>7. CASE ActStopped(h)
  BY <1>1, <1>3, <1>4, <1>7 DEF ActStopped, Busy
<1>8. CASE ActReady(h)
  BY <1>1, <1>3, <1>4, <1>8 DEF ActReady, Busy
<1>9. CASE ActComplete(h)
  BY <1>1, <1>3, <1>4, <1>9 DEF ActComplete, Busy
<1> QED
  BY <1>5, <1>6, <1>7, <1>8, <1>9

LEMMA InsertSerial ==
  ASSUME Serial, TypeInv, SerialInv, NEW h \in Handler, InsertSession(h) \/ InsertTracks(h)
  PROVE  SerialInv'
<1> DEFINE r == handlers[h]
<1>1. r \in Request /\ RequestOK(r) /\ Lawful(r, db, queued) /\ CommandsFit(db, queued)
  BY DEF TypeInv, HandlersOK, RequestOK, SerialInv
<1>2. CASE InsertSession(h)
  <2> DEFINE q == [r EXCEPT !.pc = "tracks"]
  <2>1. r.op = "create" /\ r.pc = "insert" /\ r.s \in Session /\ r.row \in Row
    BY <1>1, <1>2 DEF InsertSession, Busy, RequestOK, Request
  <2>2. db[r.s].state = Absent
    BY <1>1, <2>1 DEF Lawful
  <2>3. q.pc = "tracks"
    BY <1>1 DEF Request
  <2>4. /\ handlers' = [handlers EXCEPT ![h] = Free] \/ handlers' = [handlers EXCEPT ![h] = q]
        /\ db' = [db EXCEPT ![r.s] = r.row] /\ queued' = queued
    BY <1>2 DEF InsertSession
  <2>5. CommandsFit(db', queued')
    BY <1>1, <2>1, <2>2, <2>4, RowMoves
  <2> HIDE DEF q
  <2>6. Lawful(q, db', queued') /\ Checked(q, manifests', objects')
    BY <2>3, IdleLawful
  <2> QED
    BY <2>4, <2>5, <2>6, SerialMoved, SerialFreed
<1>3. CASE InsertTracks(h)
  <2>1. r.op = "create" /\ UNCHANGED <<db, queued>>
    BY <1>3 DEF InsertTracks, Busy
  <2>2. PICK q : /\ handlers' = [handlers EXCEPT ![h] = q]
                 /\ q.op = "create" /\ q.pc \in {"tracks", "queue"}
    <3>1. PICK a \in r.todo :
            handlers' = IF r.todo = {a}
                        THEN [handlers EXCEPT ![h].pc = "queue", ![h].todo = r.parts]
                        ELSE [handlers EXCEPT ![h].todo = @ \ {a}]
      BY <1>3 DEF InsertTracks
    <3> DEFINE q1 == [r EXCEPT !.pc = "queue", !.todo = r.parts]
               q2 == [r EXCEPT !.todo = @ \ {a}]
    <3>2. q1.op = r.op /\ q1.pc = "queue" /\ q2.op = r.op /\ q2.pc = r.pc /\ r.pc = "tracks"
      BY <1>1, <1>3 DEF Request, InsertTracks, Busy
    <3>3. handlers' = [handlers EXCEPT ![h] = q1] \/ handlers' = [handlers EXCEPT ![h] = q2]
      BY <3>1 DEF TypeInv, HandlersOK
    <3> HIDE DEF q1, q2
    <3> QED
      BY <2>1, <3>2, <3>3
  <2>3. Lawful(q, db', queued') /\ Checked(q, manifests', objects')
    BY <2>2 DEF Lawful, Checked
  <2> QED
    BY <1>1, <2>1, <2>2, <2>3, SerialMoved
<1> QED
  BY <1>2, <1>3

\* The row moves along the table, because it is still the one that was read.
LEMMA WriteSerial ==
  ASSUME Serial, TypeInv, SerialInv, NEW h \in Handler, WriteRow(h)
  PROVE  SerialInv'
<1> DEFINE r == handlers[h]
           parts == IF r.op = "ready" THEN r.parts ELSE tracks[r.s]
           q == [r EXCEPT !.pc = "queue", !.todo = parts]
<1>1. r \in Request /\ RequestOK(r) /\ Lawful(r, db, queued) /\ CommandsFit(db, queued)
  BY DEF TypeInv, HandlersOK, RequestOK, SerialInv
<1>2. r.pc = "write" /\ r.s \in Session /\ r.row \in Row /\ r.parts \in SUBSET Agent
  BY <1>1 DEF WriteRow, RequestOK, Request
<1>3. q.op = r.op /\ q.s = r.s /\ q.pc = "queue" /\ q.todo = parts
  BY <1>1 DEF Request
<1>4. /\ handlers' = [handlers EXCEPT ![h] = Free]
         \/ (handlers' = [handlers EXCEPT ![h] = q] /\ r.op \in DOMAIN Queues)
      /\ db' = [db EXCEPT ![r.s] = r.row] /\ queued' = queued
  BY DEF WriteRow
<1>5. r.row.state = db[r.s].state \/ r.row.state \in LEGAL[db[r.s].state]
  BY <1>1, <1>2 DEF Lawful
<1>6. CommandsFit(db', queued')
  BY <1>1, <1>2, <1>4, <1>5, RowMoves
<1>7. CASE handlers' = [handlers EXCEPT ![h] = Free]
  BY <1>6, <1>7, SerialFreed
<1>8. CASE handlers' = [handlers EXCEPT ![h] = q] /\ r.op \in DOMAIN Queues
  <2>1. r.op # "manifest"
    BY <1>8 DEF Queues
  <2>2. /\ r.row.state \in LEGAL[db[r.s].state]
        /\ r.op = "save" => r.row.state = "uploading"
        /\ r.op = "ready" => r.row.state = "recording"
        /\ r.op = "discard" => r.row.state = "discarded"
    BY <1>1, <1>2, <2>1 DEF Lawful
  <2>3. db'[r.s] = r.row
    BY <1>2, <1>4 DEF TypeInv, TablesOK
  <2>4. r.op = "ready" => \A a \in r.parts : queued[r.s][a]["start"] = 0
    <3> SUFFICES ASSUME r.op = "ready", NEW a \in r.parts
                 PROVE  queued[r.s][a]["start"] = 0
      OBVIOUS
    <3>1. db[r.s].state \in SessionState \cup {Absent}
      BY <1>2 DEF TypeInv, TablesOK, Row
    <3>2. db[r.s].state = "preparing"
      BY <2>2, <3>1 DEF LEGAL, SessionState, Absent
    <3>3. a \in Agent
      BY <1>2
    <3>4. ~(queued[r.s][a]["start"] > 0)
      BY <1>1, <1>2, <3>2, <3>3 DEF CommandsFit
    <3>5. "start" \in CommandType
      BY DEF CommandType
    <3>6. queued[r.s][a]["start"] \in Nat
      BY <1>2, <3>3, <3>5 DEF TypeInv, TablesOK
    <3> QED
      BY <3>4, <3>6
  <2>5. parts = r.parts \/ r.op # "ready"
    OBVIOUS
  <2> HIDE DEF q, parts
  <2>6. Lawful(q, db', queued') /\ Checked(q, manifests', objects')
    BY <1>3, <1>4, <2>2, <2>3, <2>4, <2>5 DEF Lawful, Checked
  <2> QED
    BY <1>6, <1>8, <2>6, SerialMoved
<1> QED
  BY <1>4, <1>7, <1>8

LEMMA QueueSerial ==
  ASSUME Serial, TypeInv, SerialInv, NEW h \in Handler, QueueCommand(h)
  PROVE  SerialInv'
<1> DEFINE r == handlers[h]
<1>1. /\ r \in Request /\ RequestOK(r) /\ Lawful(r, db, queued) /\ CommandsFit(db, queued)
      /\ r.pc = "queue"
  BY DEF TypeInv, HandlersOK, RequestOK, SerialInv, QueueCommand
<1>2. r.s \in Session /\ r.op \in DOMAIN Queues
  BY <1>1 DEF RequestOK
<1>3. PICK a \in r.todo :
        /\ queued' = [queued EXCEPT ![r.s][a][Queues[r.op]] = @ + 1]
        /\ handlers' = [handlers EXCEPT ![h] = IF r.todo = {a} THEN Free
                                               ELSE [r EXCEPT !.todo = @ \ {a}]]
  BY DEF QueueCommand
<1>4. db' = db /\ a \in Agent /\ r.todo \in SUBSET Agent
  BY <1>1 DEF QueueCommand, Request
<1>5. Queues[r.op] \in CommandType
  BY <1>2 DEF Queues, CommandType
<1>6. /\ Queues[r.op] = "start" => r.op = "ready"
      /\ Queues[r.op] = "upload" => r.op = "save"
      /\ Queues[r.op] = "abort" => r.op = "discard"
  BY <1>2 DEF Queues
<1>7. {"start", "upload", "abort"} \subseteq CommandType
  BY DEF CommandType
<1>8. ASSUME NEW t \in Session, NEW b \in Agent, NEW c \in CommandType
      PROVE  queued'[t][b][c] = IF t = r.s /\ b = a /\ c = Queues[r.op]
                                THEN queued[t][b][c] + 1 ELSE queued[t][b][c]
  BY <1>2, <1>3, <1>4, <1>5 DEF TypeInv, TablesOK
<1>9. /\ r.op = "ready" => /\ db[r.s].state = "recording"
                           /\ \A b \in r.todo : queued[r.s][b]["start"] = 0
      /\ r.op = "save" => db[r.s].state = "uploading"
      /\ r.op = "discard" => db[r.s].state = "discarded"
  BY <1>1 DEF Lawful
<1>10. CommandsFit(db', queued')
  <2> SUFFICES ASSUME NEW t \in Session, NEW b \in Agent
               PROVE  /\ queued'[t][b]["start"] <= 1
                      /\ queued'[t][b]["start"] > 0 => db[t].state \notin {Absent, "preparing"}
                      /\ queued'[t][b]["upload"] > 0 =>
                           db[t].state \in {"uploading", "stored", "failed"}
                      /\ queued'[t][b]["abort"] > 0 => db[t].state = "discarded"
    BY <1>4 DEF CommandsFit
  <2>1. /\ queued[t][b]["start"] <= 1
        /\ queued[t][b]["start"] > 0 => db[t].state \notin {Absent, "preparing"}
        /\ queued[t][b]["upload"] > 0 => db[t].state \in {"uploading", "stored", "failed"}
        /\ queued[t][b]["abort"] > 0 => db[t].state = "discarded"
    BY <1>1 DEF CommandsFit
  <2>2. /\ queued'[t][b]["start"] <= 1
        /\ queued'[t][b]["start"] > 0 => db[t].state \notin {Absent, "preparing"}
    <3>1. CASE t = r.s /\ b = a /\ "start" = Queues[r.op]
      <4>1. queued[t][b]["start"] = 0 /\ db[t].state = "recording"
        BY <1>6, <1>9, <3>1
      <4>2. queued'[t][b]["start"] = 1
        BY <1>7, <1>8, <3>1, <4>1
      <4> QED
        BY <4>1, <4>2 DEF Absent
    <3>2. CASE ~(t = r.s /\ b = a /\ "start" = Queues[r.op])
      BY <1>7, <1>8, <2>1, <3>2
    <3> QED
      BY <3>1, <3>2
  <2>3. queued'[t][b]["upload"] > 0 => db[t].state \in {"uploading", "stored", "failed"}
    BY <1>6, <1>7, <1>8, <1>9, <2>1
  <2>4. queued'[t][b]["abort"] > 0 => db[t].state = "discarded"
    BY <1>6, <1>7, <1>8, <1>9, <2>1
  <2> QED
    BY <2>2, <2>3, <2>4
<1>11. CASE r.todo = {a}
  BY <1>3, <1>10, <1>11, SerialFreed
<1>12. CASE r.todo # {a}
  <2> DEFINE q == [r EXCEPT !.todo = @ \ {a}]
  <2>1. handlers' = [handlers EXCEPT ![h] = q]
    BY <1>3, <1>12
  <2>2. q.op = r.op /\ q.s = r.s /\ q.pc = "queue" /\ q.todo = r.todo \ {a}
    BY <1>1 DEF Request
  <2> HIDE DEF q
\* The agents still to be served have not been sent this command.
  <2>3. r.op = "ready" => \A b \in q.todo : queued'[r.s][b]["start"] = 0
    BY <1>2, <1>4, <1>7, <1>8, <1>9, <2>2
  <2>4. Lawful(q, db', queued') /\ Checked(q, manifests', objects')
    BY <1>4, <1>9, <2>2, <2>3 DEF Lawful, Checked
  <2> QED
    BY <1>10, <2>1, <2>4, SerialMoved
<1> QED
  BY <1>11, <1>12

LEMMA SerialInductive ==
  ASSUME Serial, TypeInv, SerialInv, [Next]_vars
  PROVE  SerialInv'
<1>1. ASSUME NEW h \in Handler, Continue(h)
      PROVE  SerialInv'
  BY <1>1, ActSerial, InsertSerial, WriteSerial, QueueSerial DEF Continue
<1>2. CASE UNCHANGED <<db, queued, handlers, manifests>>
           /\ \A s \in Session : objects[s] \subseteq objects'[s]
  <2>1. ASSUME NEW h \in Handler
        PROVE  Lawful(handlers'[h], db', queued') /\ Checked(handlers'[h], manifests', objects')
    <3>1. Lawful(handlers[h], db, queued) /\ Checked(handlers[h], manifests, objects)
      BY DEF SerialInv
    <3>2. handlers[h].pc # "free" => handlers[h].s \in Session
      BY DEF TypeInv, HandlersOK, RequestOK
    <3> QED
      BY <1>2, <3>1, <3>2 DEF Lawful, Checked
  <2> QED
    BY <1>2, <2>1 DEF SerialInv, CommandsFit, Lawful, Checked
<1>3. ASSUME NEW s \in Session, NEW a \in Agent, UploadObjects(s, a)
      PROVE  SerialInv'
  <2>1. \A t \in Session : objects[t] \subseteq objects'[t]
    BY <1>3 DEF UploadObjects, TypeInv, TablesOK
  <2> QED
    BY <1>2, <1>3, <2>1 DEF UploadObjects
\* An abort has been sent for a discarded session only, and no request is
\* storing one: the purge takes nothing away that was found.
<1>4. ASSUME NEW s \in Session, PurgeObjects(s)
      PROVE  SerialInv'
  <2>1. db[s].state = "discarded"
    BY <1>4 DEF PurgeObjects, Sent, SerialInv, CommandsFit
  <2>2. /\ UNCHANGED <<db, queued, handlers, manifests>>
        /\ \A t \in Session : t # s => objects'[t] = objects[t]
    BY <1>4 DEF PurgeObjects, TypeInv, TablesOK
  <2>3. ASSUME NEW h \in Handler
        PROVE  Lawful(handlers'[h], db', queued') /\ Checked(handlers'[h], manifests', objects')
    <3> DEFINE r == handlers[h]
    <3>1. Lawful(r, db, queued) /\ Checked(r, manifests, objects)
      BY DEF SerialInv
    <3>2. r.pc # "free" => r.s \in Session
      BY DEF TypeInv, HandlersOK, RequestOK
    <3>3. r.pc = "write" /\ r.op # "manifest" => r.s # s
      BY <2>1, <3>1 DEF Lawful, LEGAL
    <3> HIDE DEF r
    <3>4. Lawful(r, db', queued') /\ Checked(r, manifests', objects')
      BY <2>2, <3>1, <3>2, <3>3 DEF Checked
    <3> QED
      BY <2>2, <3>4 DEF r
  <2> QED
    BY <2>2, <2>3 DEF SerialInv, CommandsFit, Lawful, Checked
<1>5. CASE ApiRestart
  <2>1. \A h \in Handler : handlers'[h].pc = "free"
    BY <1>5 DEF ApiRestart, Free
  <2> QED
    BY <1>5, <2>1 DEF ApiRestart, SerialInv, CommandsFit, Lawful, Checked
<1>6. CASE UNCHANGED vars
  BY <1>2, <1>6 DEF vars
<1> QED
  BY <1>1, <1>3, <1>4, <1>5, <1>6, BeginSerial DEF Next

LEMMA SerialInitial == Init => SerialInv
BY DEF Init, SerialInv, Lawful, Checked, CommandsFit, Free, CommandType

\* An agent gets at most one start for a session: a row that has left
\* `preparing' does not come back, so the barrier opens once.
THEOREM OneStartHolds ==
  ASSUME Serial
  PROVE  Spec => []OneStart
<1>1. SerialInv => OneStart
  BY DEF SerialInv, CommandsFit, OneStart
<1>2. TypeInv /\ SerialInv /\ [Next]_vars => SerialInv'
  BY SerialInductive
<1> QED
  BY <1>1, <1>2, TypeInitial, TypeInductive, SerialInitial, PTL DEF Spec

\* Save and Discard exclude each other: the row a save has moved is not in
\* `review' any more when a discard reads it, and the other way round.
THEOREM OneDecisionHolds ==
  ASSUME Serial
  PROVE  Spec => []OneDecision
<1>1. SerialInv => OneDecision
  BY DEF SerialInv, CommandsFit, OneDecision, Sent
<1>2. TypeInv /\ SerialInv /\ [Next]_vars => SerialInv'
  BY SerialInductive
<1> QED
  BY <1>1, <1>2, TypeInitial, TypeInductive, SerialInitial, PTL DEF Spec

\* The row is written by one of two steps, and what it becomes is known.
LEMMA RowStep ==
  ASSUME Serial, TypeInv, SerialInv, [Next]_vars
  PROVE  \/ db' = db /\ saved' = saved
         \/ \E s \in Session : /\ db[s].state = Absent /\ saved' = saved
                               /\ db' = [db EXCEPT ![s] = db'[s]]
                               /\ db'[s].state = "preparing"
         \/ \E s \in Session :
              /\ db' = [db EXCEPT ![s] = db'[s]]
              /\ \/ db'[s].state = db[s].state /\ saved' = saved
                 \/ /\ db'[s].state \in LEGAL[db[s].state]
                    /\ saved' = IF db'[s].state = "uploading" THEN saved \cup {s} ELSE saved
                    /\ db'[s].state = "stored" => Verified(s)
<1>1. ASSUME NEW h \in Handler, InsertSession(h)
      PROVE  \E s \in Session : /\ db[s].state = Absent /\ saved' = saved
                                /\ db' = [db EXCEPT ![s] = db'[s]]
                                /\ db'[s].state = "preparing"
  <2> DEFINE r == handlers[h]
  <2>1. r.pc = "insert" /\ r.s \in Session /\ Lawful(r, db, queued)
    BY <1>1 DEF InsertSession, Busy, TypeInv, HandlersOK, RequestOK, SerialInv
  <2>2. db' = [db EXCEPT ![r.s] = r.row] /\ saved' = saved
    BY <1>1 DEF InsertSession, history
  <2>3. db'[r.s] = r.row
    BY <2>1, <2>2 DEF TypeInv, TablesOK
  <2> QED
    BY <2>1, <2>2, <2>3 DEF Lawful
<1>2. ASSUME NEW h \in Handler, WriteRow(h)
      PROVE  \E s \in Session :
               /\ db' = [db EXCEPT ![s] = db'[s]]
               /\ \/ db'[s].state = db[s].state /\ saved' = saved
                  \/ /\ db'[s].state \in LEGAL[db[s].state]
                     /\ saved' = IF db'[s].state = "uploading" THEN saved \cup {s} ELSE saved
                     /\ db'[s].state = "stored" => Verified(s)
  <2> DEFINE r == handlers[h]
  <2>1. /\ r.pc = "write" /\ r.s \in Session
        /\ Lawful(r, db, queued) /\ Checked(r, manifests, objects)
    BY <1>2 DEF WriteRow, TypeInv, HandlersOK, RequestOK, SerialInv
  <2>2. /\ db' = [db EXCEPT ![r.s] = r.row]
        /\ saved' = IF r.op = "save" THEN saved \cup {r.s} ELSE saved
    BY <1>2 DEF WriteRow
  <2>3. db'[r.s] = r.row
    BY <2>1, <2>2 DEF TypeInv, TablesOK
  <2>4. CASE r.op = "manifest"
    BY <2>1, <2>2, <2>3, <2>4 DEF Lawful
  <2>5. CASE r.op # "manifest"
    <3>1. r.row.state \in LEGAL[db[r.s].state] /\ (r.op = "save" <=> r.row.state = "uploading")
      BY <2>1, <2>5 DEF Lawful
    <3>2. r.row.state = "stored" => Verified(r.s)
      BY <2>1, <2>5 DEF Checked, Verified
    <3> QED
      BY <2>1, <2>2, <2>3, <3>1, <3>2
  <2> QED
    BY <2>4, <2>5
<1>3. ASSUME NEW h \in Handler, Begin(h)
      PROVE  db' = db /\ saved' = saved
  BY <1>3 DEF Begin, CreateSession, Operator, ReportStatus, IngestManifest, CompleteUpload, history
<1>4. ASSUME NEW h \in Handler, Continue(h), ~InsertSession(h), ~WriteRow(h)
      PROVE  db' = db /\ saved' = saved
  BY <1>4 DEF Continue, InsertTracks, ActFailed, ActStopped, ActReady, ActManifest, ActComplete,
              QueueCommand, history
<1>5. ASSUME NEW s \in Session, PurgeObjects(s) \/ \E a \in Agent : UploadObjects(s, a)
      PROVE  db' = db /\ saved' = saved
  BY <1>5 DEF PurgeObjects, UploadObjects, history
<1>6. CASE ApiRestart \/ UNCHANGED vars
  BY <1>6 DEF ApiRestart, vars
<1> QED
  BY <1>1, <1>2, <1>3, <1>4, <1>5, <1>6 DEF Next

\* A session is stored on a readback that still holds when the row is written.
THEOREM StoredWasVerifiedHolds ==
  ASSUME Serial
  PROVE  Spec => StoredWasVerified
<1>1. TypeInv /\ SerialInv /\ [Next]_vars =>
        [\A s \in Session : db[s].state # "stored" /\ db'[s].state = "stored" => Verified(s)]_vars
  <2> SUFFICES ASSUME TypeInv, SerialInv, [Next]_vars, NEW s \in Session,
                      db[s].state # "stored", db'[s].state = "stored"
               PROVE  Verified(s)
    OBVIOUS
  <2>1. \A t \in Session : db' = [db EXCEPT ![t] = db'[t]] /\ t # s => db'[s] = db[s]
    BY DEF TypeInv, TablesOK
  <2> QED
    BY <2>1, RowStep
<1>2. TypeInv /\ SerialInv /\ [Next]_vars => SerialInv'
  BY SerialInductive
<1> QED
  BY <1>1, <1>2, TypeInitial, TypeInductive, SerialInitial, PTL DEF Spec, StoredWasVerified

\* The control plane implements SessionLifecycle: every row follows the table.
THEOREM Refinement ==
  ASSUME Serial
  PROVE  Spec => ImplementsLifecycle
<1> DEFINE state == [s \in Session |-> db[s].state]
<1>1. Init => Lifecycle!Init
  BY DEF Init, Lifecycle!Init, Lifecycle!Absent, Absent, NoRow
<1>2. TypeInv /\ SerialInv /\ [Next]_vars => [Lifecycle!Next]_Lifecycle!vars
  <2> SUFFICES ASSUME TypeInv, SerialInv, [Next]_vars
               PROVE  [Lifecycle!Next]_Lifecycle!vars
    OBVIOUS
  <2>1. CASE db' = db /\ saved' = saved
    BY <2>1 DEF Lifecycle!vars
  <2>2. ASSUME NEW s \in Session, db' = [db EXCEPT ![s] = db'[s]]
        PROVE  state' = [state EXCEPT ![s] = db'[s].state]
    BY <2>2 DEF TypeInv, TablesOK
  <2>3. ASSUME NEW s \in Session, db[s].state = Absent, saved' = saved,
               db' = [db EXCEPT ![s] = db'[s]], db'[s].state = "preparing"
        PROVE  Lifecycle!Next
    <3>1. Lifecycle!Create(s)
      BY <2>2, <2>3 DEF Lifecycle!Create, Lifecycle!Absent, Absent
    <3> QED
      BY <3>1 DEF Lifecycle!Next
  <2>4. ASSUME NEW s \in Session, saved' = saved,
               db' = [db EXCEPT ![s] = db'[s]], db'[s].state = db[s].state
        PROVE  UNCHANGED Lifecycle!vars
    <3>1. state' = state
      BY <2>2, <2>4
    <3> QED
      BY <2>4, <3>1 DEF Lifecycle!vars
  <2>5. ASSUME NEW s \in Session, db' = [db EXCEPT ![s] = db'[s]],
               db'[s].state \in LEGAL[db[s].state],
               saved' = IF db'[s].state = "uploading" THEN saved \cup {s} ELSE saved
        PROVE  Lifecycle!Next
    <3>1. PICK to : to = db'[s].state
      OBVIOUS
    <3>2. state[s] = db[s].state /\ Lifecycle!isLegalTransition(state[s], to)
      BY <2>5, <3>1 DEF Lifecycle!isLegalTransition, Lifecycle!LEGAL, LEGAL
    <3>3. CASE to = "uploading"
      <4>1. Lifecycle!Save(s)
        BY <2>2, <2>5, <3>1, <3>2, <3>3 DEF Lifecycle!Save
      <4> QED
        BY <4>1 DEF Lifecycle!Next
    <3>4. CASE to # "uploading"
      <4>1. db[s].state \in SessionState \cup {Absent}
        BY DEF TypeInv, TablesOK, Row
      <4>2. to \in Lifecycle!SessionState
        BY <2>5, <3>1, <4>1 DEF LEGAL, SessionState, Absent, Lifecycle!SessionState
      <4>3. Lifecycle!Advance(s, to)
        BY <2>2, <2>5, <3>1, <3>2, <3>4 DEF Lifecycle!Advance
      <4> QED
        BY <4>2, <4>3 DEF Lifecycle!Next
    <3> QED
      BY <3>3, <3>4
  <2> QED
    BY <2>1, <2>3, <2>4, <2>5, RowStep
<1>3. TypeInv /\ SerialInv /\ [Next]_vars => SerialInv'
  BY SerialInductive
<1> QED
  BY <1>1, <1>2, <1>3, TypeInitial, TypeInductive, SerialInitial, PTL
     DEF Spec, ImplementsLifecycle, Lifecycle!Spec

-----------------------------------------------------------------------------
\* What SessionLifecycle promises

\* The table read backwards, as far as the review gate needs it: the only
\* ways into `stored' and `discarded', for every state there is.
LEMMA WaysIn ==
  ASSUME NEW from \in SessionState \cup {Absent}, NEW to,
         to \in LEGAL[from]
  PROVE  /\ to \in SessionState
         /\ to = "stored" => from = "uploading"
         /\ to = "uploading" => from = "review"
         /\ to = "discarded" => from \in {"preparing", "review"}
         /\ from = "uploading" => to \in {"stored", "failed"}
         /\ from \notin Terminal /\ from # Absent
<1>1. from # Absent
  BY DEF LEGAL, SessionState, Absent
<1>2. from \notin Terminal
  BY DEF Terminal
<1>3. /\ to \in SessionState
      /\ to = "stored" => from = "uploading"
      /\ to = "uploading" => from = "review"
      /\ to = "discarded" => from \in {"preparing", "review"}
      /\ from = "uploading" => to \in {"stored", "failed"}
  BY <1>1 DEF LEGAL, SessionState, Absent
<1>4. QED
  BY <1>1, <1>2, <1>3

\* The steps of the lifecycle, read as one: a row appears, or moves along the
\* table, and only the move to `uploading' is a Save.
LEMMA LifecycleStep ==
  ASSUME Lifecycle!TypeOK, [Lifecycle!Next]_Lifecycle!vars
  PROVE  \/ UNCHANGED Lifecycle!vars
         \/ \E s \in Session :
              /\ \A r \in Session \ {s} : db'[r].state = db[r].state
              /\ \/ db[s].state = Absent /\ db'[s].state = "preparing" /\ saved' = saved
                 \/ /\ db'[s].state \in LEGAL[db[s].state]
                    /\ saved' = IF db'[s].state = "uploading" THEN saved \cup {s} ELSE saved
<1> DEFINE state == [s \in Session |-> db[s].state]
           Appears(s) == db[s].state = Absent /\ db'[s].state = "preparing" /\ saved' = saved
           Moves(s) == /\ db'[s].state \in LEGAL[db[s].state]
                       /\ saved' = IF db'[s].state = "uploading" THEN saved \cup {s} ELSE saved
<1>1. ASSUME NEW s \in Session, Lifecycle!Create(s)
      PROVE  /\ \A r \in Session \ {s} : db'[r].state = db[r].state
             /\ Appears(s)
  BY <1>1 DEF Lifecycle!Create, Lifecycle!Absent, Absent
<1>2. ASSUME NEW s \in Session, Lifecycle!Save(s)
      PROVE  /\ \A r \in Session \ {s} : db'[r].state = db[r].state
             /\ Moves(s)
  BY <1>2 DEF Lifecycle!Save, Lifecycle!isLegalTransition, Lifecycle!LEGAL, LEGAL
<1>3. ASSUME NEW s \in Session, NEW to \in Lifecycle!SessionState, Lifecycle!Advance(s, to)
      PROVE  /\ \A r \in Session \ {s} : db'[r].state = db[r].state
             /\ Moves(s)
  BY <1>3 DEF Lifecycle!Advance, Lifecycle!isLegalTransition, Lifecycle!LEGAL, LEGAL
<1> QED
  BY <1>1, <1>2, <1>3 DEF Lifecycle!Next

\* The abstract lifecycle keeps its types.
LEMMA LifecycleTyped ==
  Lifecycle!TypeOK /\ [Lifecycle!Next]_Lifecycle!vars => Lifecycle!TypeOK'
<1> SUFFICES ASSUME Lifecycle!TypeOK, [Lifecycle!Next]_Lifecycle!vars
             PROVE  Lifecycle!TypeOK'
  OBVIOUS
<1>1. \A s \in Session : db[s].state \in SessionState \cup {Absent}
  BY DEF Lifecycle!TypeOK, Lifecycle!SessionState, SessionState, Lifecycle!Absent, Absent
<1>2. CASE UNCHANGED Lifecycle!vars
  BY <1>2 DEF Lifecycle!vars, Lifecycle!TypeOK
<1>3. ASSUME NEW s \in Session, \A r \in Session \ {s} : db'[r].state = db[r].state,
             \/ db'[s].state = "preparing" /\ saved' = saved
             \/ /\ db'[s].state \in LEGAL[db[s].state]
                /\ saved' = IF db'[s].state = "uploading" THEN saved \cup {s} ELSE saved
      PROVE  Lifecycle!TypeOK'
  <2>1. db'[s].state \in SessionState
    BY <1>1, <1>3, WaysIn DEF SessionState
  <2> QED
    BY <1>1, <1>3, <2>1 DEF Lifecycle!TypeOK, Lifecycle!SessionState, SessionState,
                            Lifecycle!Absent, Absent
<1> QED
  BY <1>2, <1>3, LifecycleStep

\* The gate alone is not inductive: a saved session must also be known to be
\* past its review, or Discard could follow Save.
SavedIsPastReview ==
  \A s \in saved : db[s].state \in {"uploading", "stored", "failed"}

LifecycleInv == Lifecycle!TypeOK /\ Lifecycle!ReviewGate /\ SavedIsPastReview

LEMMA LifecycleInductive ==
  LifecycleInv /\ [Lifecycle!Next]_Lifecycle!vars => LifecycleInv'
<1> SUFFICES ASSUME LifecycleInv, [Lifecycle!Next]_Lifecycle!vars
             PROVE  Lifecycle!ReviewGate' /\ SavedIsPastReview'
  BY LifecycleTyped DEF LifecycleInv
<1> USE DEF LifecycleInv
<1>1. \A s \in Session : /\ db[s].state \in SessionState \cup {Absent}
                         /\ db[s].state \in {"uploading", "stored"} => s \in saved
                         /\ db[s].state = "discarded" => s \notin saved
  BY DEF Lifecycle!ReviewGate, Lifecycle!TypeOK, Lifecycle!SessionState, SessionState,
         Lifecycle!Absent, Absent
<1>2. saved \subseteq Session
  BY DEF Lifecycle!TypeOK
<1>3. CASE UNCHANGED Lifecycle!vars
  <2>1. saved' = saved /\ \A s \in Session : db'[s].state = db[s].state
    BY <1>3 DEF Lifecycle!vars
  <2> QED
    BY <1>1, <1>2, <2>1 DEF Lifecycle!ReviewGate, SavedIsPastReview
<1>4. ASSUME NEW s \in Session, \A r \in Session \ {s} : db'[r].state = db[r].state,
             db[s].state = Absent, db'[s].state = "preparing", saved' = saved
      PROVE  Lifecycle!ReviewGate' /\ SavedIsPastReview'
  <2>1. s \notin saved
    BY <1>4 DEF SavedIsPastReview, Absent
  <2> QED
    BY <1>1, <1>2, <1>4, <2>1 DEF Lifecycle!ReviewGate, SavedIsPastReview
<1>5. ASSUME NEW s \in Session, \A r \in Session \ {s} : db'[r].state = db[r].state,
             db'[s].state \in LEGAL[db[s].state],
             saved' = IF db'[s].state = "uploading" THEN saved \cup {s} ELSE saved
      PROVE  Lifecycle!ReviewGate' /\ SavedIsPastReview'
  <2>1. PICK from, to : from = db[s].state /\ to = db'[s].state
    OBVIOUS
  <2>2. from \in SessionState \cup {Absent} /\ to \in LEGAL[from]
    BY <1>1, <1>5, <2>1
  <2>3. /\ to = "stored" => from = "uploading"
        /\ to = "uploading" => from = "review"
        /\ to = "discarded" => from \in {"preparing", "review"}
        /\ from = "uploading" => to \in {"stored", "failed"}
        /\ from \notin {"stored", "failed"}
    <3>1. from \notin Terminal
      BY <2>2, WaysIn
    <3>2. {"stored", "failed"} \subseteq Terminal
      BY DEF Terminal, SessionState, LEGAL
    <3> QED
      BY <2>2, <3>1, <3>2, WaysIn
  <2>4. s \in saved => from = "uploading"
    BY <2>1, <2>3 DEF SavedIsPastReview
  <2>5. /\ to \in {"uploading", "stored"} => s \in saved'
        /\ to = "discarded" => s \notin saved'
        /\ s \in saved' => to \in {"uploading", "stored", "failed"}
    BY <1>1, <1>5, <2>1, <2>3, <2>4
  <2>6. \A r \in Session \ {s} : r \in saved' <=> r \in saved
    BY <1>5
  <2>7. saved' \subseteq Session
    BY <1>2, <1>5
  <2> QED
    BY <1>1, <1>5, <2>1, <2>5, <2>6, <2>7 DEF Lifecycle!ReviewGate, SavedIsPastReview
<1> QED
  BY <1>3, <1>4, <1>5, LifecycleStep

\* The lifecycle itself keeps the review gate, for any number of sessions:
\* nothing is uploaded or stored without Save, and what was discarded was
\* never saved.
THEOREM LifecycleGate == Lifecycle!Spec => []Lifecycle!ReviewGate
<1>1. Lifecycle!Init => LifecycleInv
  <2> SUFFICES ASSUME Lifecycle!Init
               PROVE  LifecycleInv
    OBVIOUS
  <2>1. saved = {} /\ \A s \in Session : db[s].state = "absent"
    BY DEF Lifecycle!Init, Lifecycle!Absent
  <2> QED
    BY <2>1 DEF LifecycleInv, Lifecycle!TypeOK, Lifecycle!ReviewGate, SavedIsPastReview,
                Lifecycle!SessionState, Lifecycle!Absent
<1>2. LifecycleInv => Lifecycle!ReviewGate
  BY DEF LifecycleInv
<1> QED
  BY <1>1, <1>2, LifecycleInductive, PTL DEF Lifecycle!Spec

\* The gate at the rows the control plane writes, one request at a time: no
\* session is uploading or stored unless Save was accepted for it, and none is
\* discarded for which it was.
THEOREM RowsPassTheGate ==
  ASSUME Serial
  PROVE  Spec => []Lifecycle!ReviewGate
BY Refinement, LifecycleGate, PTL DEF ImplementsLifecycle

\* One request at a time, no row leaves a terminal state: a session stored,
\* discarded or failed stays so, whenever the API restarts.
THEOREM TerminalStatesAreFinal ==
  ASSUME Serial
  PROVE  Spec => TerminalIsFinal
<1>1. TypeInv /\ SerialInv /\ [Next]_vars =>
        [\A s \in Session : db[s].state \in Terminal => db'[s].state = db[s].state]_vars
  <2> SUFFICES ASSUME TypeInv, SerialInv, [Next]_vars,
                      NEW s \in Session, db[s].state \in Terminal
               PROVE  db'[s].state = db[s].state
    OBVIOUS
  <2>1. \A r \in Session : /\ db[r].state \in SessionState \cup {Absent}
                           /\ db' = [db EXCEPT ![r] = db'[r]] /\ r # s => db'[s] = db[s]
    BY DEF TypeInv, TablesOK, Row
  <2>2. db[s].state # Absent
    BY DEF Terminal, SessionState, Absent
  <2>3. db'[s].state \notin LEGAL[db[s].state]
    BY DEF Terminal
  <2> QED
    BY <2>1, <2>2, <2>3, RowStep
<1>2. TypeInv /\ SerialInv /\ [Next]_vars => SerialInv'
  BY SerialInductive
<1> QED
  BY <1>1, <1>2, TypeInitial, TypeInductive, SerialInitial, PTL DEF Spec, TerminalIsFinal
=============================================================================
