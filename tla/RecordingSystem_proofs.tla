----------------------- MODULE RecordingSystem_proofs -----------------------
(***************************************************************************)
(* The whole system for any number of agents, any cap, any faults and any  *)
(* number of crashes: typing, the refinement of the lifecycle, and what an *)
(* agent's capture can rely on; and, where every request is served, that a *)
(* session in review has a manifest.                                       *)
(***************************************************************************)
EXTENDS RecordingSystem, SequenceTheorems, TLAPS

-----------------------------------------------------------------------------
\* What is known of one agent: m its memory, ap its applied-set, rs its rows,
\* n its captures, and t the start barrier's T0.

Handling(m) == m.pc \notin {"down", "idle"}
Ends(r) == r.type \in {"stop", "abort"}

AgentTypes(m, ap, rs, n) ==
  /\ m \in Memory
  /\ ap \subseteq DOMAIN rs
  /\ rs \in Seq(Row)
  /\ n \in 0..1

\* A command in hand is one of the agent's, and the step tells which kind.
InHandOK(m, rs) ==
  /\ Handling(m) => m.cmd \in DOMAIN rs /\ rs[m.cmd].count > 0
  /\ m.pc = "post" => m.say \in Report
  /\ m.pc = "waitT0" => rs[m.cmd].type = "start"
  /\ m.pc = "stopping" => rs[m.cmd].type = "stop"
  /\ m.pc \in {"aborting", "purge"} => rs[m.cmd].type = "abort"
  /\ m.pc = "complete" => rs[m.cmd].type = "upload"
  /\ m.pc = "post" => rs[m.cmd].type # "abort"
  /\ m.pc \in {"stopping", "aborting", "purge"} => m.capture # "running"
  /\ m.pc = "post" /\ rs[m.cmd].type = "stop" => m.capture # "running"

\* There is one start, before every stop and abort, and none before T0 is set.
RowsOK(rs, n, t) ==
  /\ \A i, j \in DOMAIN rs : rs[i].type = "start" /\ rs[j].type = "start" => i = j
  /\ \A i, j \in DOMAIN rs : rs[i].type = "start" /\ Ends(rs[j]) => i < j
  /\ t = "none" => n = 0 /\ \A i \in DOMAIN rs : rs[i].type # "start"

\* While a start may still be handed out in time, nothing after it was, and
\* nothing is captured.
Undelivered(r, t) == r.type = "start" /\ ~r.acked /\ ~r.leased /\ t # "past"
StartFirst(rs, n, t) ==
  \A i \in DOMAIN rs : Undelivered(rs[i], t) =>
    n = 0 /\ \A j \in DOMAIN rs : j >= i => rs[j].count = 0

\* A start that may still lead to a capture is the first, and nothing that
\* ends the recording was carried out.
MayCapture(m, rs, t) == \/ m.pc = "waitT0"
                        \/ m.pc = "got" /\ rs[m.cmd].type = "start" /\ t # "past"
StartOnce(m, ap, rs, n, t) ==
  MayCapture(m, rs, t) /\ m.cmd \notin ap => n = 0 /\ \A j \in ap : ~Ends(rs[j])

AppliedOK(m, ap, rs) ==
  /\ \A i \in ap : rs[i].count > 0
  /\ m.pc = "waitT0" => m.cmd \notin ap
  /\ (\E i \in ap : Ends(rs[i])) => m.capture # "running"
  /\ (\E i \in ap : rs[i].type = "abort") => ~m.uploadPrefix

AgentOK(m, ap, rs, n, t) ==
  /\ AgentTypes(m, ap, rs, n)
  /\ InHandOK(m, rs)
  /\ RowsOK(rs, n, t)
  /\ StartFirst(rs, n, t)
  /\ StartOnce(m, ap, rs, n, t)
  /\ AppliedOK(m, ap, rs)

-----------------------------------------------------------------------------
\* What the API does to one agent's rows

FreshRow(type) == [type |-> type, count |-> 0, leased |-> FALSE, acked |-> FALSE]

\* A start is queued once, before anything else that matters.
LEMMA Queued ==
  ASSUME NEW m, NEW ap, NEW rs, NEW n, NEW t, NEW u \in {"none", "ahead", "past"},
         AgentOK(m, ap, rs, n, t), NEW type \in CommandType,
         IF type = "start" THEN t = "none" /\ u = "ahead" /\ \A i \in DOMAIN rs : ~Ends(rs[i])
                           ELSE u = t
  PROVE  AgentOK(m, ap, Append(rs, FreshRow(type)), n, u)
<1> DEFINE r == FreshRow(type)
           q == Append(rs, r)
<1>1. r \in Row /\ r.type = type /\ r.count = 0
  BY CapAssumption DEF FreshRow, Row
<1>2. rs \in Seq(Row) /\ ap \subseteq DOMAIN rs
  BY DEF AgentOK, AgentTypes
<1>3. /\ q \in Seq(Row) /\ Len(q) = Len(rs) + 1 /\ q[Len(rs) + 1] = r
      /\ DOMAIN q = 1..(Len(rs) + 1) /\ DOMAIN rs = 1..Len(rs) /\ Len(rs) \in Nat
      /\ \A i \in DOMAIN rs : i \in DOMAIN q /\ q[i] = rs[i]
  BY <1>1, <1>2
<1> HIDE DEF r, q
<1>4. AgentTypes(m, ap, q, n)
  BY <1>3 DEF AgentOK, AgentTypes
<1>5. InHandOK(m, q)
  BY <1>3 DEF AgentOK, InHandOK, Handling
<1>6. RowsOK(q, n, u)
  BY <1>1, <1>3 DEF AgentOK, RowsOK, Ends
<1>7. StartFirst(q, n, u)
  BY <1>1, <1>3 DEF AgentOK, StartFirst, RowsOK, Undelivered
<1>8. StartOnce(m, ap, q, n, u)
  BY <1>2, <1>3 DEF AgentOK, StartOnce, MayCapture, InHandOK, Handling, RowsOK
<1>9. AppliedOK(m, ap, q)
  BY <1>2, <1>3 DEF AgentOK, AppliedOK, Ends
<1> QED
  BY <1>4, <1>5, <1>6, <1>7, <1>8, <1>9 DEF AgentOK, q, r

\* Leases and acknowledgements.  The lease of a start outlasts T0.
LEMMA Marked ==
  ASSUME NEW m, NEW ap, NEW rs, NEW n, NEW t, AgentOK(m, ap, rs, n, t),
         NEW q \in Seq(Row), DOMAIN q = DOMAIN rs,
         \A i \in DOMAIN rs : /\ q[i].type = rs[i].type /\ q[i].count = rs[i].count
                              /\ rs[i].acked => q[i].acked
                              /\ q[i].leased = rs[i].leased \/ rs[i].type # "start" \/ t = "past"
  PROVE  AgentOK(m, ap, q, n, t)
<1>1. AgentTypes(m, ap, q, n)
  BY DEF AgentOK, AgentTypes
<1>2. InHandOK(m, q)
  BY DEF AgentOK, InHandOK, Handling
<1>3. RowsOK(q, n, t)
  BY DEF AgentOK, RowsOK, Ends
<1>4. StartFirst(q, n, t)
  BY DEF AgentOK, StartFirst, Undelivered
<1>5. StartOnce(m, ap, q, n, t)
  BY DEF AgentOK, AgentTypes, StartOnce, MayCapture, InHandOK, Handling, Ends
<1>6. AppliedOK(m, ap, q)
  BY DEF AgentOK, AgentTypes, AppliedOK, Ends
<1> QED
  BY <1>1, <1>2, <1>3, <1>4, <1>5, <1>6 DEF AgentOK

\* T0 passes.
LEMMA Passed ==
  ASSUME NEW m, NEW ap, NEW rs, NEW n, AgentOK(m, ap, rs, n, "ahead")
  PROVE  AgentOK(m, ap, rs, n, "past")
BY DEF AgentOK, RowsOK, StartFirst, Undelivered, StartOnce, MayCapture

\* The oldest command is handed out; the answer may be lost.
LEMMA HandedOut ==
  ASSUME NEW m, NEW ap, NEW rs, NEW n, NEW t, AgentOK(m, ap, rs, n, t),
         ~Handling(m), NEW i \in DOMAIN rs, ~rs[i].acked, ~rs[i].leased, rs[i].count < Cap,
         \A j \in DOMAIN rs : ~rs[j].acked /\ ~rs[j].leased /\ rs[j].count < Cap => i <= j,
         NEW q, q = [rs EXCEPT ![i] = [rs[i] EXCEPT !.count = rs[i].count + 1, !.leased = TRUE]]
  PROVE  /\ AgentOK(m, ap, q, n, t)
         /\ AgentOK([m EXCEPT !.pc = "got", !.cmd = i], ap, q, n, t)
<1> DEFINE r == [rs[i] EXCEPT !.count = rs[i].count + 1, !.leased = TRUE]
           g == [m EXCEPT !.pc = "got", !.cmd = i]
<1>1. rs \in Seq(Row) /\ ap \subseteq DOMAIN rs /\ m \in Memory /\ n \in 0..1
  BY DEF AgentOK, AgentTypes
<1>2. rs[i] \in Row /\ DOMAIN rs = 1..Len(rs) /\ Len(rs) \in Nat
  BY <1>1
<1>3. r \in Row /\ r.type = rs[i].type /\ r.count = rs[i].count + 1 /\ r.leased
      /\ r.count > 0
  <2> DEFINE c == rs[i].count + 1
  <2>1. c \in 0..Cap /\ c > 0
    BY <1>2, CapAssumption DEF Row
  <2> HIDE DEF c
  <2>2. [rs[i] EXCEPT !.count = c, !.leased = TRUE] \in Row
    BY <1>2, <2>1 DEF Row
  <2> QED
    BY <1>2, <2>1, <2>2 DEF Row, c
<1>4. g \in Memory /\ g.pc = "got" /\ g.cmd = i /\ g.capture = m.capture
      /\ g.uploadPrefix = m.uploadPrefix
  <2>1. i \in Nat
    BY <1>2
  <2>2. g \in Memory
    BY <1>1, <2>1 DEF Memory
  <2> QED
    BY <1>1, <2>1 DEF Memory
<1> HIDE DEF r, g
<1>5. /\ q \in Seq(Row) /\ DOMAIN q = DOMAIN rs /\ q[i] = r
      /\ \A j \in DOMAIN rs : j # i => q[j] = rs[j]
  BY <1>1, <1>3 DEF r
<1> HIDE DEF AgentOK
<1>6. AgentTypes(m, ap, q, n) /\ AgentTypes(g, ap, q, n)
  BY <1>1, <1>4, <1>5 DEF AgentTypes
<1>7. InHandOK(m, q) /\ InHandOK(g, q)
  BY <1>3, <1>4, <1>5 DEF AgentOK, InHandOK, Handling
<1>8. RowsOK(q, n, t)
  BY <1>3, <1>5 DEF AgentOK, RowsOK, Ends
\* A start that is due is not overtaken.
<1>9. StartFirst(q, n, t)
  <2> SUFFICES ASSUME NEW k \in DOMAIN q, Undelivered(q[k], t)
               PROVE  n = 0 /\ \A j \in DOMAIN q : j >= k => q[j].count = 0
    BY DEF StartFirst
  <2>1. k # i /\ q[k] = rs[k]
    BY <1>3, <1>5 DEF Undelivered
  <2>2. n = 0 /\ \A j \in DOMAIN rs : j >= k => rs[j].count = 0
    BY <2>1, <1>5 DEF AgentOK, StartFirst
  <2>3. rs[k].count = 0 /\ k \in 1..Len(rs)
    BY <2>2, <1>2, <1>5
  <2>4. i <= k
    BY <2>1, <2>3, <1>5, CapAssumption DEF Undelivered
  <2> QED
    BY <2>1, <2>2, <2>4, <1>2, <1>5
<1>10. StartOnce(m, ap, q, n, t)
  BY <1>1, <1>3, <1>5 DEF AgentOK, StartOnce, MayCapture, Handling, Ends
<1>11. StartOnce(g, ap, q, n, t)
  <2> SUFFICES ASSUME rs[i].type = "start", t # "past"
               PROVE  n = 0 /\ \A j \in ap : ~Ends(q[j])
    BY <1>3, <1>4, <1>5 DEF StartOnce, MayCapture
  <2>1. n = 0 /\ \A j \in DOMAIN rs : j >= i => rs[j].count = 0
    BY DEF AgentOK, StartFirst, Undelivered
  <2>2. \A j \in ap : rs[j].count > 0 /\ j \in DOMAIN rs
    BY <1>1 DEF AgentOK, AppliedOK
  <2>3. \A j \in DOMAIN rs : Ends(rs[j]) => i < j
    BY DEF AgentOK, RowsOK
  <2> QED
    BY <2>1, <2>2, <2>3, <1>2, <1>3, <1>5 DEF Ends
<1>12. AppliedOK(m, ap, q) /\ AppliedOK(g, ap, q)
  BY <1>1, <1>3, <1>4, <1>5 DEF AgentOK, AppliedOK, Ends
<1> QED
  BY <1>6, <1>7, <1>8, <1>9, <1>10, <1>11, <1>12 DEF AgentOK, g

-----------------------------------------------------------------------------
\* What the process does to its memory

\* A step of the process that starts nothing: it goes on with its command or
\* finishes it, and captures what it captured or no longer does.
LEMMA Proceeds ==
  ASSUME NEW m, NEW ap, NEW rs, NEW n, NEW t, AgentOK(m, ap, rs, n, t),
         NEW g \in Memory, NEW aq \in SUBSET DOMAIN rs,
         InHandOK(g, rs), g.pc \notin {"got", "waitT0"} \/ (g.pc = m.pc /\ g.cmd = m.cmd),
         g.capture = "running" => m.capture = "running",
         g.uploadPrefix => m.uploadPrefix,
         \/ aq = ap
         \/ /\ Handling(m) /\ aq = ap \cup {m.cmd} /\ g.pc = "ack"
            /\ Ends(rs[m.cmd]) => g.capture # "running"
            /\ rs[m.cmd].type = "abort" => ~g.uploadPrefix
  PROVE  AgentOK(g, aq, rs, n, t)
<1>1. AgentTypes(g, aq, rs, n)
  BY DEF AgentOK, AgentTypes
<1>2. StartOnce(g, aq, rs, n, t)
  BY DEF AgentOK, StartOnce, MayCapture
<1>3. AppliedOK(g, aq, rs)
  BY DEF AgentOK, AppliedOK, InHandOK, Ends
<1> QED
  BY <1>1, <1>2, <1>3 DEF AgentOK

-----------------------------------------------------------------------------
\* The refinement needs no invariant: every handler consults the table.

LEMMA ReportMoves ==
  ASSUME NEW a \in Agent, NEW r \in Report, reportStatus(a, r)
  PROVE  /\ UNCHANGED saved
         /\ \/ UNCHANGED state
            \/ \E to \in SessionState \ {"uploading"} :
                 isLegalTransition(state, to) /\ state' = to
<1>1. CASE r = "ready"
  <2>1. ReportReady(a) /\ ~Rejects(a, r)
    BY <1>1 DEF reportStatus
  <2>2. ready \cup {a} = Agent => isLegalTransition(state, "recording")
    BY <1>1, <2>1 DEF Rejects
  <2> QED
    BY <2>1, <2>2 DEF ReportReady, SessionState
<1>2. CASE r = "refused"
  <2>1. ReportFailed /\ isLegalTransition(state, "failed")
    BY <1>2 DEF reportStatus, Rejects
  <2> QED
    BY <2>1 DEF ReportFailed, SessionState
<1>3. CASE r \in {"stopped", "low"}
  <2>1. ReportStopped(r)
    BY <1>3 DEF reportStatus
  <2>2. state = "stopping" => isLegalTransition(state, "review")
    BY DEF isLegalTransition, LEGAL
  <2> QED
    BY <2>1, <2>2 DEF ReportStopped, SessionState, api
<1>4. CASE r = "recording"
  BY <1>4 DEF reportStatus, api
<1>5. r \notin {"detailed", "stray"}
  BY DEF reportStatus, Rejects
<1> QED
  BY <1>1, <1>2, <1>3, <1>4, <1>5 DEF Report

Row0 == [s \in {"s"} |-> state]

LEMMA Moves ==
  ASSUME UNCHANGED saved,
         \/ UNCHANGED state
         \/ \E to \in SessionState \ {"uploading"} :
              isLegalTransition(state, to) /\ state' = to
  PROVE  [Lifecycle!Next]_Lifecycle!vars
<1>1. CASE UNCHANGED state
  BY <1>1 DEF Lifecycle!vars
<1>2. ASSUME NEW to \in SessionState \ {"uploading"},
             isLegalTransition(state, to), state' = to
      PROVE  Lifecycle!Next
  <2>1. Lifecycle!Advance("s", to)
    BY <1>2 DEF Lifecycle!Advance, Lifecycle!isLegalTransition, isLegalTransition,
                Lifecycle!LEGAL, LEGAL
  <2> QED
    BY <2>1 DEF Lifecycle!Next, Lifecycle!SessionState, SessionState
<1> QED
  BY <1>1, <1>2

-----------------------------------------------------------------------------
\* The inductive invariant

ApiTypes == /\ state \in SessionState \cup {Absent}
            /\ reason \in {"none", "failed", "disk", "command_unacknowledged"}
            /\ prefix \in BOOLEAN
            /\ ready \subseteq Agent
            /\ rows \in [Agent -> Seq(Row)]
            /\ manifests \subseteq Agent
            /\ saved \in BOOLEAN
            /\ t0 \in {"none", "ahead", "past"}

\* The start is queued on the way out of `preparing', and nothing that ends a
\* recording before it.
ApiOK == state \in {Absent, "preparing"} =>
           /\ t0 = "none"
           /\ \A a \in Agent : \A i \in DOMAIN rows[a] : rows[a][i].type = "prepare"

MemTypes == /\ mem \in [Agent -> Memory]
            /\ applied \in [Agent -> SUBSET Nat]
            /\ captures \in [Agent -> Nat]

RestTypes == /\ objects \in [Agent -> {"none", "some", "all"}]
             /\ pending \in [Agent -> Seq(Report)]
             /\ media \in [Agent -> BOOLEAN]
             /\ crashes \in [Agent -> Nat]
             /\ diskStopped \subseteq Agent

\* Every agent, were its rows and T0 the API's of the next state.
AgentsNext == \A a \in Agent : AgentOK(mem[a], applied[a], rows'[a], captures[a], t0')
Agents == \A a \in Agent : AgentOK(mem[a], applied[a], rows[a], captures[a], t0)

Inv == ApiTypes /\ ApiOK /\ MemTypes /\ RestTypes /\ Agents

LEMMA InvTypes == Inv => TypeOK
BY DEF Inv, ApiTypes, MemTypes, RestTypes, TypeOK

-----------------------------------------------------------------------------
\* The API's steps

\* What a step of the API leaves for the agents to go on with.
ApiKept == ApiTypes' /\ ApiOK' /\ AgentsNext

LEMMA Idle ==
  ASSUME Inv, UNCHANGED api
  PROVE  ApiKept
BY DEF Inv, ApiKept, ApiTypes, ApiOK, Agents, AgentsNext, api

LEMMA Queues ==
  ASSUME Inv, NEW type \in CommandType, QueueAll(type), t0' \in {"none", "ahead", "past"},
         IF type = "start" THEN t0 = "none" /\ t0' = "ahead" /\ state = "preparing"
                           ELSE t0' = t0
  PROVE  /\ rows' \in [Agent -> Seq(Row)]
         /\ AgentsNext
         /\ \A a \in Agent : \A i \in DOMAIN rows'[a] :
              rows'[a][i].type = type \/ (i \in DOMAIN rows[a] /\ rows'[a][i] = rows[a][i])
<1>1. rows' = [a \in Agent |-> Append(rows[a], FreshRow(type))]
  BY DEF QueueAll, FreshRow
<1>2. FreshRow(type) \in Row /\ FreshRow(type).type = type
  BY CapAssumption DEF FreshRow, Row
<1>3. rows \in [Agent -> Seq(Row)]
  BY DEF Inv, ApiTypes
<1>4. rows' \in [Agent -> Seq(Row)]
  BY <1>1, <1>2, <1>3
<1>5. AgentsNext
  <2> SUFFICES ASSUME NEW a \in Agent
               PROVE  AgentOK(mem[a], applied[a], rows'[a], captures[a], t0')
    BY DEF AgentsNext
  <2>1. type = "start" => \A i \in DOMAIN rows[a] : ~Ends(rows[a][i])
    BY DEF Inv, ApiOK, Ends
  <2>2. AgentOK(mem[a], applied[a], rows[a], captures[a], t0)
    BY DEF Inv, Agents
  <2> QED
    BY <2>1, <2>2, <1>1, Queued
<1>6. ASSUME NEW a \in Agent, NEW i \in DOMAIN rows'[a]
      PROVE  rows'[a][i].type = type \/ (i \in DOMAIN rows[a] /\ rows'[a][i] = rows[a][i])
  BY <1>1, <1>2, <1>3
<1> QED
  BY <1>4, <1>5, <1>6

LEMMA Requests ==
  ASSUME Inv, Operator \/ T0Passes
  PROVE  ApiKept /\ UNCHANGED <<objects, mem, local>>
<1>1. CASE create
  <2>1. t0' = t0 /\ t0 = "none" /\ QueueAll("prepare") /\ "prepare" \in CommandType
    BY <1>1 DEF create, Inv, ApiOK, CommandType
  <2>2. /\ rows' \in [Agent -> Seq(Row)] /\ AgentsNext
        /\ \A a \in Agent : \A i \in DOMAIN rows'[a] :
             rows'[a][i].type = "prepare" \/ (i \in DOMAIN rows[a] /\ rows'[a][i] = rows[a][i])
    BY <2>1, Queues
  <2> QED
    BY <1>1, <2>1, <2>2 DEF create, ApiKept, Inv, ApiTypes, ApiOK, SessionState
<1>2. CASE stop
  <2>1. t0' = t0 /\ t0 \in {"none", "ahead", "past"} /\ QueueAll("stop") /\ "stop" \in CommandType
    BY <1>2 DEF stop, Inv, ApiTypes, CommandType
  <2>2. rows' \in [Agent -> Seq(Row)] /\ AgentsNext
    BY <2>1, Queues
  <2> QED
    BY <1>2, <2>2 DEF stop, ApiKept, Inv, ApiTypes, ApiOK, SessionState, Absent
<1>3. CASE save
  <2>1. t0' = t0 /\ t0 \in {"none", "ahead", "past"} /\ QueueAll("upload") /\ "upload" \in CommandType
    BY <1>3 DEF save, Inv, ApiTypes, CommandType
  <2>2. rows' \in [Agent -> Seq(Row)] /\ AgentsNext
    BY <2>1, Queues
  <2> QED
    BY <1>3, <2>2 DEF save, ApiKept, Inv, ApiTypes, ApiOK, SessionState, Absent
<1>4. CASE discard
  <2>1. t0' = t0 /\ t0 \in {"none", "ahead", "past"} /\ QueueAll("abort") /\ "abort" \in CommandType
    BY <1>4 DEF discard, Inv, ApiTypes, CommandType
  <2>2. rows' \in [Agent -> Seq(Row)] /\ AgentsNext
    BY <2>1, Queues
  <2> QED
    BY <1>4, <2>2 DEF discard, ApiKept, Inv, ApiTypes, ApiOK, SessionState, Absent
<1>5. CASE T0Passes
  <2>1. AgentsNext
    BY <1>5, Passed DEF T0Passes, Inv, Agents, AgentsNext
  <2> QED
    BY <1>5, <2>1 DEF T0Passes, ApiKept, Inv, ApiTypes, ApiOK
<1> QED
  BY <1>1, <1>2, <1>3, <1>4, <1>5 DEF Operator, create, stop, save, discard, T0Passes

LEMMA Reported ==
  ASSUME Inv, NEW a \in Agent, NEW r \in Report, reportStatus(a, r)
  PROVE  ApiKept
<1>1. CASE UNCHANGED api
  BY <1>1, Idle
<1>2. CASE r = "ready"
  <2>1. ReportReady(a) /\ ~Rejects(a, r)
    BY <1>2 DEF reportStatus
  <2>2. CASE ready \cup {a} = Agent
    <3>1. isLegalTransition(state, "recording")
      BY <1>2, <2>1, <2>2 DEF Rejects
    <3>2. state = "preparing"
      BY <3>1 DEF isLegalTransition, LEGAL, Inv, ApiTypes, SessionState, Absent
    <3>3. t0 = "none" /\ t0' = "ahead" /\ QueueAll("start") /\ "start" \in CommandType
      BY <2>1, <2>2, <3>2 DEF ReportReady, Inv, ApiOK, CommandType
    <3>4. rows' \in [Agent -> Seq(Row)] /\ AgentsNext
      BY <3>2, <3>3, Queues
    <3> QED
      BY <2>1, <2>2, <3>4 DEF ReportReady, ApiKept, Inv, ApiTypes, ApiOK, SessionState, Absent
  <2>3. CASE ready \cup {a} # Agent
    BY <2>1, <2>3 DEF ReportReady, ApiKept, Inv, ApiTypes, ApiOK, Agents, AgentsNext
  <2> QED
    BY <2>2, <2>3
<1>3. CASE r = "refused"
  <2>1. ReportFailed
    BY <1>3 DEF reportStatus
  <2> QED
    BY <2>1 DEF ReportFailed, ApiKept, Inv, ApiTypes, ApiOK, SessionState, Absent, Agents,
                AgentsNext
<1>4. CASE r \in {"stopped", "low"}
  <2>1. ReportStopped(r)
    BY <1>4 DEF reportStatus
  <2> QED
    BY <1>1, <2>1 DEF ReportStopped, ApiKept, Inv, ApiTypes, ApiOK, SessionState, Absent, Agents,
                      AgentsNext
<1>5. CASE r = "recording"
  BY <1>1, <1>5 DEF reportStatus
<1>6. r \notin {"detailed", "stray"}
  BY DEF reportStatus, Rejects
<1> QED
  BY <1>2, <1>3, <1>4, <1>5, <1>6 DEF Report

LEMMA Exchanged ==
  ASSUME Inv, NEW a \in Agent, NEW r \in Report, NEW ok, Exchange(a, r, ok)
  PROVE  ApiKept
BY Reported, Idle DEF Exchange

\* A step that marks rows of one agent and changes nothing else agents read.
LEMMA Marks ==
  ASSUME Inv, NEW a \in Agent, NEW q \in Seq(Row), rows' = [rows EXCEPT ![a] = q],
         AgentOK(mem[a], applied[a], q, captures[a], t0), DOMAIN q = DOMAIN rows[a],
         \A i \in DOMAIN q : q[i].type = rows[a][i].type,
         t0' = t0, state' \in SessionState \cup {Absent},
         state' \in {Absent, "preparing"} => state' = state
  PROVE  rows' \in [Agent -> Seq(Row)] /\ ApiOK' /\ AgentsNext
<1>1. rows \in [Agent -> Seq(Row)]
  BY DEF Inv, ApiTypes
<1>2. rows' \in [Agent -> Seq(Row)] /\ rows'[a] = q /\ \A b \in Agent : b # a => rows'[b] = rows[b]
  BY <1>1
<1>3. AgentsNext
  BY <1>2 DEF Inv, Agents, AgentsNext
<1>4. ApiOK'
  BY <1>2 DEF Inv, ApiOK
<1> QED
  BY <1>2, <1>3, <1>4

LEMMA Swept ==
  ASSUME Inv, NEW a \in Agent, SweepAbandoned(a)
  PROVE  ApiKept /\ UNCHANGED <<objects, mem, local>>
<1> DEFINE q == [i \in DOMAIN rows[a] |->
                   IF i \in abandoned(a) THEN [rows[a][i] EXCEPT !.acked = TRUE] ELSE rows[a][i]]
<1>1. rows \in [Agent -> Seq(Row)] /\ rows[a] \in Seq(Row)
  BY DEF Inv, ApiTypes
<1>2. rows' = [rows EXCEPT ![a] = q]
  BY <1>1 DEF SweepAbandoned
<1>3. \A i \in DOMAIN rows[a] : /\ q[i] \in Row /\ q[i].type = rows[a][i].type
                                /\ q[i].count = rows[a][i].count
                                /\ q[i].leased = rows[a][i].leased
                                /\ rows[a][i].acked => q[i].acked
  <2> SUFFICES ASSUME NEW i \in DOMAIN rows[a]
               PROVE  /\ q[i] \in Row /\ q[i].type = rows[a][i].type
                      /\ q[i].count = rows[a][i].count
                      /\ q[i].leased = rows[a][i].leased
                      /\ rows[a][i].acked => q[i].acked
    OBVIOUS
  <2>1. rows[a][i] \in Row
    BY <1>1
  <2> QED
    BY <2>1 DEF Row
<1>4. q \in Seq(Row) /\ DOMAIN q = DOMAIN rows[a]
  <2>1. DOMAIN rows[a] = 1..Len(rows[a]) /\ Len(rows[a]) \in Nat
    BY <1>1
  <2>2. q \in [1..Len(rows[a]) -> Row]
    BY <1>3, <2>1
  <2> QED
    BY <2>1, <2>2, SeqDef
<1> HIDE DEF q
<1>5. AgentOK(mem[a], applied[a], q, captures[a], t0)
  <2>1. AgentOK(mem[a], applied[a], rows[a], captures[a], t0)
    BY DEF Inv, Agents
  <2> QED
    BY <1>3, <1>4, <2>1, Marked
<1>6. /\ state' \in SessionState \cup {Absent}
      /\ state' \in {Absent, "preparing"} => state' = state
      /\ t0' = t0
  BY DEF SweepAbandoned, Inv, ApiTypes, SessionState, Absent
<1>7. \A i \in DOMAIN q : q[i].type = rows[a][i].type
  BY <1>3, <1>4
<1>8. rows' \in [Agent -> Seq(Row)] /\ ApiOK' /\ AgentsNext
  BY ONLY Inv, a \in Agent, <1>2, <1>4, <1>5, <1>6, <1>7, Marks
<1> QED
  BY <1>6, <1>8 DEF SweepAbandoned, ApiKept, Inv, ApiTypes

LEMMA Leased ==
  ASSUME Inv, NEW a \in Agent, NEW i \in DOMAIN rows[a], LeaseExpires(a, i)
  PROVE  ApiKept /\ UNCHANGED <<objects, mem, local>>
<1> DEFINE q == [rows[a] EXCEPT ![i] = [rows[a][i] EXCEPT !.leased = FALSE]]
<1>1. rows \in [Agent -> Seq(Row)] /\ rows[a] \in Seq(Row) /\ rows[a][i] \in Row
  BY DEF Inv, ApiTypes
<1>2. rows' = [rows EXCEPT ![a] = q]
  BY <1>1 DEF LeaseExpires
<1>3. [rows[a][i] EXCEPT !.leased = FALSE] \in Row
  BY <1>1 DEF Row
<1>4. /\ q \in Seq(Row) /\ DOMAIN q = DOMAIN rows[a]
      /\ \A j \in DOMAIN rows[a] : q[j] = IF j = i THEN [rows[a][i] EXCEPT !.leased = FALSE]
                                                    ELSE rows[a][j]
  BY <1>1, <1>3
<1>5. \A j \in DOMAIN rows[a] : /\ q[j].type = rows[a][j].type /\ q[j].count = rows[a][j].count
                                /\ q[j].acked = rows[a][j].acked
                                /\ j # i => q[j].leased = rows[a][j].leased
  BY <1>1, <1>4 DEF Row
<1> HIDE DEF q
<1>6. rows[a][i].type = "start" => t0 = "past"
  BY DEF LeaseExpires
<1>7. AgentOK(mem[a], applied[a], q, captures[a], t0)
  <2>1. AgentOK(mem[a], applied[a], rows[a], captures[a], t0)
    BY DEF Inv, Agents
  <2> QED
    BY <1>4, <1>5, <1>6, <2>1, Marked
<1>8. t0' = t0 /\ state' = state /\ state \in SessionState \cup {Absent}
  BY DEF LeaseExpires, Inv, ApiTypes
<1>9. \A j \in DOMAIN q : q[j].type = rows[a][j].type
  BY <1>4, <1>5
<1>10. rows' \in [Agent -> Seq(Row)] /\ ApiOK' /\ AgentsNext
  BY ONLY Inv, a \in Agent, <1>2, <1>4, <1>7, <1>8, <1>9, Marks
<1> QED
  BY <1>8, <1>10 DEF LeaseExpires, ApiKept, Inv, ApiTypes

-----------------------------------------------------------------------------
\* The agents' steps

\* What a step leaves for everyone to go on with.
Kept == ApiTypes' /\ ApiOK' /\ MemTypes' /\ Agents'

LEMMA Stays ==
  ASSUME Inv, ApiKept, UNCHANGED <<mem, applied, captures>>
  PROVE  Kept
BY DEF Inv, ApiKept, Kept, MemTypes, Agents, AgentsNext

\* One process changes its memory and what it has done.
LEMMA OneAgent ==
  ASSUME Inv, ApiKept, NEW a \in Agent, NEW g \in Memory, NEW aq \in SUBSET Nat, NEW n \in Nat,
         mem' = [mem EXCEPT ![a] = g], applied' = [applied EXCEPT ![a] = aq],
         captures' = [captures EXCEPT ![a] = n],
         AgentOK(g, aq, rows'[a], n, t0')
  PROVE  Kept
<1>1. MemTypes
  BY DEF Inv
<1>2. MemTypes'
  BY <1>1 DEF MemTypes
<1>3. Agents'
  BY <1>1 DEF MemTypes, ApiKept, Agents, AgentsNext
<1> QED
  BY <1>2, <1>3 DEF ApiKept, Kept

\* A step that starts nothing.
LEMMA Goes ==
  ASSUME Inv, ApiKept, NEW a \in Agent, NEW g \in Memory, NEW aq \in SUBSET DOMAIN rows'[a],
         mem' = [mem EXCEPT ![a] = g], applied' = [applied EXCEPT ![a] = aq],
         UNCHANGED captures,
         InHandOK(g, rows'[a]), g.pc \notin {"got", "waitT0"} \/ (g.pc = mem[a].pc /\ g.cmd = mem[a].cmd),
         g.capture = "running" => mem[a].capture = "running",
         g.uploadPrefix => mem[a].uploadPrefix,
         \/ aq = applied[a]
         \/ /\ Handling(mem[a]) /\ aq = applied[a] \cup {mem[a].cmd} /\ g.pc = "ack"
            /\ Ends(rows'[a][mem[a].cmd]) => g.capture # "running"
            /\ rows'[a][mem[a].cmd].type = "abort" => ~g.uploadPrefix
  PROVE  Kept
<1>1. AgentOK(mem[a], applied[a], rows'[a], captures[a], t0')
  BY DEF ApiKept, AgentsNext
<1>2. AgentOK(g, aq, rows'[a], captures[a], t0')
  BY <1>1, Proceeds
<1>3. captures[a] \in Nat /\ captures' = [captures EXCEPT ![a] = captures[a]]
  BY DEF Inv, MemTypes
<1>4. aq \in SUBSET Nat
  <2>1. rows'[a] \in Seq(Row)
    BY DEF ApiKept, ApiTypes
  <2> QED
    BY <2>1
<1> QED
  BY <1>2, <1>3, <1>4, OneAgent

\* The step keeps what was done, or adds the command in hand.
LEMMA GoesOn ==
  ASSUME Inv, ApiKept, NEW a \in Agent, NEW g \in Memory,
         mem' = [mem EXCEPT ![a] = g], UNCHANGED <<applied, captures>>,
         InHandOK(g, rows'[a]), g.pc \notin {"got", "waitT0"} \/ (g.pc = mem[a].pc /\ g.cmd = mem[a].cmd),
         g.capture = "running" => mem[a].capture = "running",
         g.uploadPrefix => mem[a].uploadPrefix
  PROVE  Kept
<1>1. applied' = [applied EXCEPT ![a] = applied[a]]
  BY DEF Inv, MemTypes
<1>2. applied[a] \in SUBSET DOMAIN rows'[a]
  BY DEF ApiKept, AgentsNext, AgentOK, AgentTypes
<1> QED
  BY <1>1, <1>2, Goes

LEMMA GoesBack ==
  ASSUME Inv, ApiKept, NEW a \in Agent, NEW m \in Memory,
         Returns(a, m), UNCHANGED captures, Handling(mem[a]), m.cmd = mem[a].cmd,
         m.capture = "running" => mem[a].capture = "running" /\ ~Ends(rows'[a][m.cmd]),
         m.uploadPrefix => mem[a].uploadPrefix /\ rows'[a][m.cmd].type # "abort"
  PROVE  Kept
<1> DEFINE g == [m EXCEPT !.pc = "ack", !.say = "none"]
           aq == applied[a] \cup {m.cmd}
<1>1. /\ g \in Memory /\ g.pc = "ack" /\ g.cmd = m.cmd /\ g.capture = m.capture
      /\ g.uploadPrefix = m.uploadPrefix
  BY DEF Memory
<1>2. mem' = [mem EXCEPT ![a] = g] /\ applied' = [applied EXCEPT ![a] = aq]
  BY DEF Returns, Inv, MemTypes
<1>3. aq \in SUBSET DOMAIN rows'[a] /\ InHandOK(mem[a], rows'[a])
  BY DEF ApiKept, AgentsNext, AgentOK, AgentTypes, InHandOK
<1> HIDE DEF g
<1>4. InHandOK(g, rows'[a])
  BY <1>1, <1>3 DEF InHandOK, Handling
<1> QED
  BY <1>1, <1>2, <1>3, <1>4, Goes

\* What is known of the command in hand.
LEMMA InHand ==
  ASSUME Inv, NEW a \in Agent
  PROVE  /\ mem[a] \in Memory /\ mem \in [Agent -> Memory]
         /\ rows[a] \in Seq(Row)
         /\ InHandOK(mem[a], rows[a])
BY DEF Inv, MemTypes, Agents, AgentOK, AgentTypes

LEMMA Acks ==
  ASSUME Inv, NEW a \in Agent, NEW ok \in BOOLEAN, Ack(a, ok)
  PROVE  Kept /\ RestTypes'
<1> DEFINE g == [mem[a] EXCEPT !.pc = "idle", !.cmd = 0]
           i == mem[a].cmd
           q == [rows[a] EXCEPT ![i] = [rows[a][i] EXCEPT !.acked = TRUE]]
<1>1. ApiKept
  <2>1. CASE ok
    <3>0. i \in DOMAIN rows[a] /\ rows[a] \in Seq(Row)
      <4>1. mem[a].pc = "ack" /\ InHandOK(mem[a], rows[a]) /\ rows[a] \in Seq(Row)
        BY InHand DEF Ack
      <4> QED
        BY <4>1 DEF InHandOK, Handling
    <3>1. rows \in [Agent -> Seq(Row)] /\ rows[a] \in Seq(Row) /\ i \in DOMAIN rows[a]
          /\ rows[a][i] \in Row
      BY <3>0 DEF Inv, ApiTypes
    <3>2. rows' = [rows EXCEPT ![a] = q]
      BY <2>1, <3>1 DEF Ack
    <3>3. [rows[a][i] EXCEPT !.acked = TRUE] \in Row
      BY <3>1 DEF Row
    <3> HIDE DEF i
    <3>4. /\ q \in Seq(Row) /\ DOMAIN q = DOMAIN rows[a]
          /\ \A j \in DOMAIN rows[a] : q[j] = IF j = i THEN [rows[a][i] EXCEPT !.acked = TRUE]
                                                        ELSE rows[a][j]
      BY <3>1, <3>3
    <3>5. \A j \in DOMAIN rows[a] : /\ q[j].type = rows[a][j].type /\ q[j].count = rows[a][j].count
                                    /\ q[j].leased = rows[a][j].leased
                                    /\ rows[a][j].acked => q[j].acked
      BY <3>1, <3>4 DEF Row
    <3> HIDE DEF q
    <3>6. AgentOK(mem[a], applied[a], q, captures[a], t0)
      <4>1. AgentOK(mem[a], applied[a], rows[a], captures[a], t0)
        BY DEF Inv, Agents
      <4> QED
        BY <3>4, <3>5, <4>1, Marked
    <3>7. t0' = t0 /\ state' = state /\ state \in SessionState \cup {Absent}
      BY DEF Ack, Inv, ApiTypes
    <3>8. \A j \in DOMAIN q : q[j].type = rows[a][j].type
      BY <3>4, <3>5
    <3>9. rows' \in [Agent -> Seq(Row)] /\ ApiOK' /\ AgentsNext
      BY ONLY Inv, a \in Agent, <3>2, <3>4, <3>6, <3>7, <3>8, Marks
    <3> QED
      BY <3>7, <3>9 DEF Ack, ApiKept, Inv, ApiTypes
  <2>2. CASE ~ok
    BY <2>2, Idle DEF Ack, api
  <2> QED
    BY <2>1, <2>2
<1>2. /\ g \in Memory /\ g.pc = "idle" /\ g.capture = mem[a].capture
      /\ g.uploadPrefix = mem[a].uploadPrefix
  BY InHand DEF Memory
<1>3. mem' = [mem EXCEPT ![a] = g] /\ UNCHANGED <<applied, captures>>
  BY InHand DEF Ack, local
<1> HIDE DEF g
<1>4. InHandOK(g, rows'[a])
  BY <1>2 DEF InHandOK, Handling
<1>5. Kept
  BY <1>1, <1>2, <1>3, <1>4, GoesOn
<1> QED
  BY <1>5 DEF Ack, local, Inv, RestTypes

\* A step of the process alone.
LEMMA Alone ==
  ASSUME Inv, UNCHANGED api, NEW a \in Agent, NEW g \in Memory,
         mem' = [mem EXCEPT ![a] = g], UNCHANGED <<applied, captures>>,
         InHandOK(g, rows[a]), g.pc \notin {"got", "waitT0"} \/ (g.pc = mem[a].pc /\ g.cmd = mem[a].cmd),
         g.capture = "running" => mem[a].capture = "running",
         g.uploadPrefix => mem[a].uploadPrefix
  PROVE  Kept
<1>1. ApiKept /\ rows' = rows
  BY Idle DEF api
<1> QED
  BY <1>1, GoesOn

\* The poll loop's handlers, up to the report that ends them: those that start
\* no capture.
LEMMA Handles ==
  ASSUME Inv, NEW a \in Agent,
         \/ Duplicate(a) \/ prepare(a) \/ prepareRefuses(a) \/ captureStartFails(a)
         \/ stopCapture(a) \/ upload(a) \/ uploadFails(a) \/ abort(a)
  PROVE  Kept
<1> DEFINE m == mem[a]
<1>1. /\ m \in Memory /\ mem \in [Agent -> Memory] /\ InHandOK(m, rows[a])
  BY InHand
<1>2. ASSUME NEW r \in Report, NEW x \in Memory, x.cmd = m.cmd, x.capture = m.capture \/ x.capture = "dead",
             x.uploadPrefix = m.uploadPrefix, Handling(m), rows[a][m.cmd].type \notin {"stop", "abort"},
             UNCHANGED api, UNCHANGED <<applied, captures>>, mem' = [mem EXCEPT ![a] = Saying(x, r)]
      PROVE  Kept
  <2> DEFINE g == Saying(x, r)
  <2>1. /\ g \in Memory /\ g.pc = "post" /\ g.say = r /\ g.cmd = m.cmd /\ g.capture = x.capture
        /\ g.uploadPrefix = m.uploadPrefix
    BY <1>2 DEF Saying, Memory
  <2> HIDE DEF g
  <2>2. InHandOK(g, rows[a])
    BY <1>1, <1>2, <2>1 DEF InHandOK, Handling
  <2>3. mem' = [mem EXCEPT ![a] = g]
    BY <1>2 DEF g
  <2> QED
    BY <1>2, <2>1, <2>2, <2>3, Alone
<1>3. CASE Duplicate(a)
  <2> DEFINE g == [m EXCEPT !.pc = "ack"]
  <2>1. /\ g \in Memory /\ g.pc = "ack" /\ g.cmd = m.cmd /\ g.capture = m.capture
        /\ g.uploadPrefix = m.uploadPrefix
    BY <1>1 DEF Memory
  <2>2. /\ mem' = [mem EXCEPT ![a] = g] /\ m.pc = "got" /\ UNCHANGED <<applied, captures>>
        /\ UNCHANGED api
    BY <1>3 DEF Duplicate, local
  <2> HIDE DEF g
  <2>3. InHandOK(g, rows[a])
    BY <1>1, <2>1, <2>2 DEF InHandOK, Handling
  <2> QED
    BY <2>1, <2>2, <2>3, Alone
<1>4. CASE prepare(a)
  <2> DEFINE x == [m EXCEPT !.sessionId = TRUE, !.prepared = TRUE]
  <2>1. x \in Memory /\ x.cmd = m.cmd /\ x.capture = m.capture /\ x.uploadPrefix = m.uploadPrefix
    BY <1>1 DEF Memory
  <2>2. /\ mem' = [mem EXCEPT ![a] = Saying(x, "ready")] /\ "ready" \in Report
        /\ Handling(m) /\ rows[a][m.cmd].type = "prepare"
        /\ UNCHANGED api /\ UNCHANGED <<applied, captures>>
    BY <1>4 DEF prepare, Holds, Handling, local, Report
  <2> QED
    BY <1>2, <2>1, <2>2
<1>5. CASE prepareRefuses(a)
  <2>1. PICK r \in {"refused", "detailed"} : mem' = [mem EXCEPT ![a] = Saying(m, r)]
    BY <1>5 DEF prepareRefuses
  <2>2. /\ r \in Report /\ Handling(m) /\ rows[a][m.cmd].type = "prepare"
        /\ UNCHANGED api /\ UNCHANGED <<applied, captures>>
    BY <1>5 DEF prepareRefuses, Holds, Handling, local, Report
  <2> QED
    BY <1>1, <1>2, <2>1, <2>2
<1>6. CASE captureStartFails(a)
  <2> DEFINE x == [m EXCEPT !.capture = "dead"]
  <2>1. x \in Memory /\ x.cmd = m.cmd /\ x.capture = "dead" /\ x.uploadPrefix = m.uploadPrefix
    BY <1>1 DEF Memory
  <2>2. /\ mem' = [mem EXCEPT ![a] = Saying(x, "detailed")] /\ "detailed" \in Report
        /\ Handling(m) /\ m.pc = "waitT0"
        /\ UNCHANGED api /\ UNCHANGED <<applied, captures>>
    BY <1>6 DEF captureStartFails, Handling, Report
  <2>3. rows[a][m.cmd].type = "start"
    BY <1>1, <2>2 DEF InHandOK
  <2> QED
    BY <1>2, <2>1, <2>2, <2>3
<1>7. CASE stopCapture(a)
  <2> DEFINE g == [m EXCEPT !.pc = "stopping", !.capture = "stopping"]
  <2>1. /\ g \in Memory /\ g.pc = "stopping" /\ g.cmd = m.cmd /\ g.capture = "stopping"
        /\ g.uploadPrefix = m.uploadPrefix
    BY <1>1 DEF Memory
  <2>2. /\ mem' = [mem EXCEPT ![a] = g] /\ m.pc = "got" /\ rows[a][m.cmd].type = "stop"
        /\ UNCHANGED <<applied, captures>> /\ UNCHANGED api
    BY <1>1, <1>7 DEF stopCapture, Holds, local
  <2> HIDE DEF g
  <2>3. InHandOK(g, rows[a])
    BY <1>1, <2>1, <2>2 DEF InHandOK, Handling
  <2> QED
    BY <2>1, <2>2, <2>3, Alone
<1>8. CASE upload(a)
  <2> DEFINE g == [m EXCEPT !.pc = "complete"]
  <2>1. /\ g \in Memory /\ g.pc = "complete" /\ g.cmd = m.cmd /\ g.capture = m.capture
        /\ g.uploadPrefix = m.uploadPrefix
    BY <1>1 DEF Memory
  <2>2. /\ mem' = [mem EXCEPT ![a] = g] /\ m.pc = "got" /\ rows[a][m.cmd].type = "upload"
        /\ UNCHANGED <<applied, captures>> /\ UNCHANGED api
    BY <1>8 DEF upload, Holds, local
  <2> HIDE DEF g
  <2>3. InHandOK(g, rows[a])
    BY <1>1, <2>1, <2>2 DEF InHandOK, Handling
  <2> QED
    BY <2>1, <2>2, <2>3, Alone
<1>9. CASE uploadFails(a)
  <2>1. /\ mem' = [mem EXCEPT ![a] = Saying(m, "detailed")] /\ "detailed" \in Report
        /\ Handling(m) /\ rows[a][m.cmd].type = "upload"
        /\ UNCHANGED api /\ UNCHANGED <<applied, captures>>
    BY <1>9 DEF uploadFails, Holds, Handling, local, Report
  <2> QED
    BY <1>1, <1>2, <2>1
<1>10. CASE abort(a)
  <2> DEFINE g == IF m.capture = "running"
                  THEN [m EXCEPT !.pc = "aborting", !.capture = "stopping"]
                  ELSE [m EXCEPT !.pc = "purge"]
  <2>1. /\ g \in Memory /\ g.pc \in {"aborting", "purge"} /\ g.cmd = m.cmd /\ g.capture # "running"
        /\ g.uploadPrefix = m.uploadPrefix
    BY <1>1 DEF Memory
  <2>2. /\ mem' = [mem EXCEPT ![a] = g] /\ m.pc = "got" /\ rows[a][m.cmd].type = "abort"
        /\ UNCHANGED <<applied, captures>> /\ UNCHANGED api
    BY <1>10 DEF abort, Holds, local
  <2> HIDE DEF g
  <2>3. InHandOK(g, rows[a])
    BY <1>1, <2>1, <2>2 DEF InHandOK, Handling
  <2> QED
    BY <2>1, <2>2, <2>3, Alone
<1> QED
  BY <1>3, <1>4, <1>5, <1>6, <1>7, <1>8, <1>9, <1>10

\* The oldest command is fetched.
LEMMA Fetches ==
  ASSUME Inv, NEW a \in Agent, NEW got \in BOOLEAN, nextCommand(a, got)
  PROVE  Kept
<1> DEFINE m == mem[a]
<1>1. PICK i \in Deliverable(a) :
        /\ Oldest(i, Deliverable(a))
        /\ rows' = [rows EXCEPT ![a][i].count = @ + 1, ![a][i].leased = TRUE]
        /\ mem' = IF got THEN [mem EXCEPT ![a].pc = "got", ![a].cmd = i] ELSE mem
  BY DEF nextCommand
<1> DEFINE r == [rows[a][i] EXCEPT !.count = rows[a][i].count + 1, !.leased = TRUE]
           q == [rows[a] EXCEPT ![i] = r]
           g == [m EXCEPT !.pc = "got", !.cmd = i]
<1>2. /\ i \in DOMAIN rows[a] /\ ~rows[a][i].acked /\ ~rows[a][i].leased /\ rows[a][i].count < Cap
      /\ \A j \in DOMAIN rows[a] :
           ~rows[a][j].acked /\ ~rows[a][j].leased /\ rows[a][j].count < Cap => i <= j
  BY <1>1 DEF Deliverable, Oldest
<1>3. /\ rows \in [Agent -> Seq(Row)] /\ rows[a] \in Seq(Row) /\ mem \in [Agent -> Memory]
      /\ rows[a][i] \in Row
  BY <1>2 DEF Inv, ApiTypes, MemTypes
<1>4. rows' = [rows EXCEPT ![a] = q]
  BY <1>1, <1>2, <1>3 DEF Row
<1>5. m.pc = "idle" /\ ~Handling(m)
  BY DEF nextCommand, Handling
<1>6. AgentOK(m, applied[a], q, captures[a], t0) /\ AgentOK(g, applied[a], q, captures[a], t0)
  <2>1. AgentOK(m, applied[a], rows[a], captures[a], t0)
    BY DEF Inv, Agents
  <2> HIDE DEF m
  <2> QED
    BY <1>2, <1>5, <2>1, HandedOut
<1>7. q \in Seq(Row) /\ g \in Memory
  BY <1>6 DEF AgentOK, AgentTypes
<1>8. DOMAIN q = DOMAIN rows[a] /\ \A j \in DOMAIN q : q[j].type = rows[a][j].type
  BY <1>2, <1>3 DEF Row
<1>9. t0' = t0 /\ state' = state /\ state \in SessionState \cup {Absent}
  BY DEF nextCommand, Inv, ApiTypes
<1> HIDE DEF q, g
<1>10. rows' \in [Agent -> Seq(Row)] /\ ApiOK' /\ AgentsNext
  BY ONLY Inv, a \in Agent, m = mem[a], <1>4, <1>6, <1>7, <1>8, <1>9, Marks
<1>11. ApiKept
  BY <1>9, <1>10 DEF nextCommand, ApiKept, Inv, ApiTypes
<1>12. UNCHANGED <<applied, captures>>
  BY DEF nextCommand, local
<1>13. CASE ~got
  BY <1>1, <1>11, <1>12, <1>13, Stays
<1>14. CASE got
  <2>1. mem' = [mem EXCEPT ![a] = g]
    BY <1>1, <1>3, <1>14 DEF g
  <2>2. /\ applied' = [applied EXCEPT ![a] = applied[a]] /\ applied[a] \in SUBSET Nat
        /\ captures' = [captures EXCEPT ![a] = captures[a]] /\ captures[a] \in Nat
    BY <1>12 DEF Inv, MemTypes
  <2>3. rows'[a] = q /\ t0' = t0
    BY <1>3, <1>4, <1>9
  <2> QED
    BY <1>6, <1>7, <1>11, <2>1, <2>2, <2>3, OneAgent
<1> QED
  BY <1>13, <1>14

\* A start that is in time and new to the agent waits for T0; a capture of the
\* agent is still to come then, and nothing has ended it.
LEMMA Starts ==
  ASSUME Inv, NEW a \in Agent, start(a)
  PROVE  Kept
<1> DEFINE m == mem[a]
           w == [m EXCEPT !.pc = "waitT0", !.sessionId = TRUE, !.uploadPrefix = TRUE]
<1>1. /\ m \in Memory /\ mem \in [Agent -> Memory] /\ InHandOK(m, rows[a])
  BY InHand
<1>2. /\ m.pc = "got" /\ Handling(m) /\ rows[a][m.cmd].type = "start" /\ m.cmd \notin applied[a]
      /\ UNCHANGED api /\ UNCHANGED <<applied, captures>>
  BY DEF start, Holds, Handling, local
<1>3. CASE t0 = "past" \/ ~m.prepared
  <2> DEFINE g == Saying(m, "refused")
  <2>1. /\ g \in Memory /\ g.pc = "post" /\ g.say = "refused" /\ g.cmd = m.cmd
        /\ g.capture = m.capture /\ g.uploadPrefix = m.uploadPrefix
    BY <1>1 DEF Saying, Memory, Report
  <2>2. mem' = [mem EXCEPT ![a] = g]
    BY <1>3 DEF start
  <2> HIDE DEF g
  <2>3. InHandOK(g, rows[a])
    BY <1>1, <1>2, <2>1 DEF InHandOK, Handling, Report
  <2> QED
    BY <1>2, <2>1, <2>2, <2>3, Alone
<1>4. CASE ~(t0 = "past" \/ ~m.prepared)
  <2>1. /\ w \in Memory /\ w.pc = "waitT0" /\ w.cmd = m.cmd /\ w.capture = m.capture
        /\ w.uploadPrefix
    BY <1>1 DEF Memory
  <2>2. mem' = [mem EXCEPT ![a] = w]
    BY <1>4 DEF start
  <2>3. AgentOK(m, applied[a], rows[a], captures[a], t0)
    BY DEF Inv, Agents
  <2> HIDE DEF w, m
  <2>4. captures[a] = 0 /\ \A j \in applied[a] : ~Ends(rows[a][j])
    BY <1>2, <1>4, <2>3 DEF AgentOK, StartOnce, MayCapture
  <2>5. AgentTypes(w, applied[a], rows[a], captures[a])
    BY <2>1, <2>3 DEF AgentOK, AgentTypes
  <2>6. InHandOK(w, rows[a])
    BY <1>1, <1>2, <2>1 DEF InHandOK, Handling
  <2>7. StartOnce(w, applied[a], rows[a], captures[a], t0)
    BY <2>4 DEF StartOnce
  <2>8. AppliedOK(w, applied[a], rows[a])
    BY <1>2, <2>1, <2>3, <2>4 DEF AgentOK, AppliedOK, Ends
  <2>9. AgentOK(w, applied[a], rows[a], captures[a], t0)
    BY <2>3, <2>5, <2>6, <2>7, <2>8 DEF AgentOK
  <2>10. /\ applied' = [applied EXCEPT ![a] = applied[a]] /\ applied[a] \in SUBSET Nat
         /\ captures' = [captures EXCEPT ![a] = captures[a]] /\ captures[a] \in Nat
    BY <1>2 DEF Inv, MemTypes
  <2>11. ApiKept /\ rows' = rows /\ t0' = t0
    BY <1>2, Idle DEF api
  <2> QED
    BY <2>1, <2>2, <2>9, <2>10, <2>11, OneAgent
<1> QED
  BY <1>3, <1>4

\* The agent's one capture begins.
LEMMA Captures ==
  ASSUME Inv, NEW a \in Agent, captureStart(a)
  PROVE  Kept
<1> DEFINE m == mem[a]
           g == Saying([m EXCEPT !.capture = "running"], "recording")
<1>1. /\ m \in Memory /\ mem \in [Agent -> Memory] /\ InHandOK(m, rows[a])
  BY InHand
<1>2. m.pc = "waitT0" /\ UNCHANGED api /\ UNCHANGED applied
  BY DEF captureStart
<1>3. /\ g \in Memory /\ g.pc = "post" /\ g.say = "recording" /\ g.cmd = m.cmd
      /\ g.capture = "running" /\ g.uploadPrefix = m.uploadPrefix
  BY <1>1 DEF Saying, Memory, Report
<1>4. mem' = [mem EXCEPT ![a] = g]
  BY DEF captureStart
<1>5. AgentOK(m, applied[a], rows[a], captures[a], t0)
  BY DEF Inv, Agents
<1> HIDE DEF g, m
<1>6. m.cmd \notin applied[a] /\ Handling(m) /\ rows[a][m.cmd].type = "start"
      /\ m.cmd \in DOMAIN rows[a] /\ rows[a][m.cmd].count > 0
  BY <1>1, <1>2, <1>5 DEF AgentOK, AppliedOK, InHandOK, Handling
<1>7. captures[a] = 0 /\ \A j \in applied[a] : ~Ends(rows[a][j])
  BY <1>2, <1>5, <1>6 DEF AgentOK, StartOnce, MayCapture
<1>8. captures' = [captures EXCEPT ![a] = 1]
  BY <1>7 DEF captureStart, Inv, MemTypes
<1>9. AgentTypes(g, applied[a], rows[a], 1)
  BY <1>3, <1>5 DEF AgentOK, AgentTypes
<1>10. InHandOK(g, rows[a])
  BY <1>1, <1>3, <1>6 DEF InHandOK, Handling, Report
\* The start in hand is the only one, so none is left to be handed out.
<1>11. RowsOK(rows[a], 1, t0) /\ StartFirst(rows[a], 1, t0)
  <2>1. t0 # "none"
    BY <1>5, <1>6 DEF AgentOK, RowsOK
  <2>2. RowsOK(rows[a], 1, t0)
    BY <1>5, <2>1 DEF AgentOK, RowsOK
  <2>3. ASSUME NEW i \in DOMAIN rows[a], Undelivered(rows[a][i], t0)
        PROVE  FALSE
    <3>1. i = m.cmd
      BY <1>5, <1>6, <2>3 DEF AgentOK, RowsOK, Undelivered
    <3>2. rows[a][i].count = 0
      BY <1>5, <2>3 DEF AgentOK, AgentTypes, StartFirst
    <3> QED
      BY <1>6, <3>1, <3>2
  <2> QED
    BY <2>2, <2>3 DEF StartFirst
<1>12. StartOnce(g, applied[a], rows[a], 1, t0)
  BY <1>3 DEF StartOnce, MayCapture
<1>13. AppliedOK(g, applied[a], rows[a])
  BY <1>3, <1>5, <1>7 DEF AgentOK, AppliedOK, Ends
<1>14. AgentOK(g, applied[a], rows[a], 1, t0)
  BY <1>9, <1>10, <1>11, <1>12, <1>13 DEF AgentOK
<1>15. applied' = [applied EXCEPT ![a] = applied[a]] /\ applied[a] \in SUBSET Nat
  BY <1>2 DEF Inv, MemTypes
<1>16. ApiKept /\ rows' = rows /\ t0' = t0
  BY <1>2, Idle DEF api
<1> QED
  BY <1>3, <1>4, <1>8, <1>14, <1>15, <1>16, OneAgent

LEMMA ManifestPosted ==
  ASSUME Inv, NEW a \in Agent, CaptureStopped(a)
  PROVE  ApiKept /\ rows' = rows
BY DEF CaptureStopped, ApiKept, Inv, ApiTypes, ApiOK, Agents, AgentsNext

\* The handlers that end a capture.
LEMMA EndsCapture ==
  ASSUME Inv, NEW a \in Agent,
         stopCaptureEnds(a) \/ stopIdle(a) \/ abortCaptureEnds(a)
  PROVE  Kept
<1> DEFINE m == mem[a]
<1>1. /\ m \in Memory /\ mem \in [Agent -> Memory] /\ InHandOK(m, rows[a])
  BY InHand
<1>2. CASE stopCaptureEnds(a)
  <2> DEFINE g == AfterStop([m EXCEPT !.capture = "none"])
  <2>1. /\ g \in Memory /\ g.cmd = m.cmd /\ g.capture = "none" /\ g.uploadPrefix = m.uploadPrefix
        /\ \/ g.pc = "post" /\ g.say = "stopped"
           \/ g.pc = m.pc
    BY <1>1 DEF AfterStop, Saying, Memory, Report
  <2>2. mem' = [mem EXCEPT ![a] = g] /\ m.pc = "stopping" /\ UNCHANGED <<applied, captures>>
    BY <1>2 DEF stopCaptureEnds, local
  <2>3. ApiKept /\ rows' = rows
    BY <1>2, ManifestPosted DEF stopCaptureEnds
  <2> HIDE DEF g
  <2>4. InHandOK(g, rows'[a])
    BY <1>1, <2>1, <2>2, <2>3 DEF InHandOK, Handling, Report
  <2> QED
    BY <2>1, <2>2, <2>3, <2>4, GoesOn
<1>3. CASE stopIdle(a)
  <2>1. /\ m.pc = "got" /\ Handling(m) /\ rows[a][m.cmd].type = "stop" /\ m.capture = "none"
        /\ UNCHANGED api /\ UNCHANGED captures
    BY <1>3 DEF stopIdle, Holds, Handling
  <2>2. ApiKept /\ rows' = rows
    BY <2>1, Idle DEF api
  <2>3. CASE m.sessionId
    <3> DEFINE g == Saying(m, "stopped")
    <3>1. /\ g \in Memory /\ g.pc = "post" /\ g.say = "stopped" /\ g.cmd = m.cmd
          /\ g.capture = m.capture /\ g.uploadPrefix = m.uploadPrefix
      BY <1>1 DEF Saying, Memory, Report
    <3>2. mem' = [mem EXCEPT ![a] = g] /\ UNCHANGED <<applied, captures>>
      BY <1>3, <2>3 DEF stopIdle, AfterStop
    <3> HIDE DEF g
    <3>3. InHandOK(g, rows'[a])
      BY <1>1, <2>1, <2>2, <3>1 DEF InHandOK, Handling, Report
    <3> QED
      BY <2>1, <2>2, <3>1, <3>2, <3>3, GoesOn
  <2>4. CASE ~m.sessionId
    <3>1. Returns(a, m)
      BY <1>3, <2>4 DEF stopIdle
    <3> QED
      BY <1>1, <2>1, <2>2, <3>1, GoesBack
  <2> QED
    BY <2>3, <2>4
<1>4. CASE abortCaptureEnds(a)
  <2> DEFINE g == [m EXCEPT !.pc = "purge", !.capture = "none"]
  <2>1. /\ g \in Memory /\ g.pc = "purge" /\ g.cmd = m.cmd /\ g.capture = "none"
        /\ g.uploadPrefix = m.uploadPrefix
    BY <1>1 DEF Memory
  <2>2. mem' = [mem EXCEPT ![a] = g] /\ m.pc = "aborting" /\ UNCHANGED <<applied, captures>>
    BY <1>1, <1>4 DEF abortCaptureEnds, local
  <2>3. ApiKept /\ rows' = rows
    BY <1>4, ManifestPosted DEF abortCaptureEnds
  <2> HIDE DEF g
  <2>4. InHandOK(g, rows'[a])
    BY <1>1, <2>1, <2>2, <2>3 DEF InHandOK, Handling
  <2> QED
    BY <2>1, <2>2, <2>3, <2>4, GoesOn
<1> QED
  BY <1>2, <1>3, <1>4

LEMMA Stored ==
  ASSUME Inv, MarkStored
  PROVE  ApiKept /\ rows' = rows
BY DEF MarkStored, ApiKept, Inv, ApiTypes, ApiOK, Agents, AgentsNext, SessionState, Absent

\* The last step of a handler.
LEMMA EndsHandler ==
  ASSUME Inv, NEW a \in Agent,
         completeUpload(a) \/ completeUploadFails(a) \/ purge(a) \/ PostStatus(a)
  PROVE  Kept
<1> DEFINE m == mem[a]
<1>1. /\ m \in Memory /\ mem \in [Agent -> Memory] /\ InHandOK(m, rows[a])
  BY InHand
<1>2. CASE completeUpload(a)
  <2>1. m.pc = "complete" /\ Handling(m) /\ Returns(a, m) /\ UNCHANGED captures
    BY <1>2 DEF completeUpload, Handling
  <2>2. ApiKept /\ rows' = rows
    BY <1>2, Stored DEF completeUpload
  <2>3. rows[a][m.cmd].type = "upload"
    BY <1>1, <2>1 DEF InHandOK
  <2> QED
    BY <1>1, <2>1, <2>2, <2>3, GoesBack DEF Ends
<1>3. CASE completeUploadFails(a)
  <2> DEFINE g == Saying(m, "detailed")
  <2>1. /\ g \in Memory /\ g.pc = "post" /\ g.say = "detailed" /\ g.cmd = m.cmd
        /\ g.capture = m.capture /\ g.uploadPrefix = m.uploadPrefix
    BY <1>1 DEF Saying, Memory, Report
  <2>2. /\ mem' = [mem EXCEPT ![a] = g] /\ m.pc = "complete" /\ UNCHANGED <<applied, captures>>
    BY <1>3 DEF completeUploadFails, local
  <2>3. ApiKept /\ rows' = rows
    BY <1>3, Stored, Idle DEF completeUploadFails, api
  <2> HIDE DEF g
  <2>4. InHandOK(g, rows'[a])
    BY <1>1, <2>1, <2>2, <2>3 DEF InHandOK, Handling, Report
  <2> QED
    BY <2>1, <2>2, <2>3, <2>4, GoesOn
<1>4. CASE purge(a)
  <2> DEFINE x == [m EXCEPT !.sessionId = FALSE, !.uploadPrefix = FALSE]
  <2>1. x \in Memory /\ x.cmd = m.cmd /\ x.capture = m.capture /\ ~x.uploadPrefix
    BY <1>1 DEF Memory
  <2>2. m.pc = "purge" /\ Handling(m) /\ Returns(a, x) /\ UNCHANGED captures
    BY <1>4 DEF purge, Handling
  <2>3. ApiKept /\ rows' = rows
    BY <1>4, Idle DEF purge, api
  <2>4. x.capture # "running"
    BY <1>1, <2>1, <2>2 DEF InHandOK
  <2> HIDE DEF x
  <2> QED
    BY <2>1, <2>2, <2>3, <2>4, GoesBack
<1>5. CASE PostStatus(a)
  <2>1. m.pc = "post" /\ Handling(m) /\ Returns(a, m) /\ UNCHANGED captures /\ m.say \in Report
    BY <1>1, <1>5 DEF PostStatus, Handling, InHandOK
  <2>2. ApiKept
    BY <1>5, <2>1, Exchanged DEF PostStatus, report
  <2>3. InHandOK(m, rows'[a])
    BY <2>2 DEF ApiKept, AgentsNext, AgentOK
  <2>4. m.capture = "running" => ~Ends(rows'[a][m.cmd])
    BY <2>1, <2>3 DEF InHandOK, Ends
  <2>5. rows'[a][m.cmd].type # "abort"
    BY <2>1, <2>3 DEF InHandOK
  <2> QED
    BY <1>1, <2>1, <2>2, <2>4, <2>5, GoesBack
<1> QED
  BY <1>2, <1>3, <1>4, <1>5

\* The tick loop, the ffmpeg processes, and the life of the agent's process.
LEMMA Ticks ==
  ASSUME Inv, NEW a \in Agent,
         TickLoop(a) \/ flushPending(a) \/ captureDies(a) \/ crash(a) \/ restart(a)
  PROVE  Kept
<1> DEFINE m == mem[a]
<1>1. /\ m \in Memory /\ mem \in [Agent -> Memory] /\ InHandOK(m, rows[a])
  BY InHand
\* The poll loop is where it was, and nothing new is captured.
<1>2. ASSUME NEW g \in Memory, g.pc = m.pc, g.cmd = m.cmd, g.say = m.say,
             g.uploadPrefix = m.uploadPrefix, g.capture = "running" => m.capture = "running",
             mem' = [mem EXCEPT ![a] = g], UNCHANGED <<applied, captures>>, ApiKept
      PROVE  Kept
  <2>1. InHandOK(m, rows'[a])
    BY <1>2 DEF ApiKept, AgentsNext, AgentOK
  <2>2. InHandOK(g, rows'[a])
    BY <1>2, <2>1 DEF InHandOK, Handling
  <2> QED
    BY <1>2, <2>2, GoesOn
<1>3. ASSUME NEW t \in {"idle", "sweeping", "stopping", "post"}, NEW c \in {m.capture, "none", "dead", "stopping"},
             mem' = [mem EXCEPT ![a] = [m EXCEPT !.tick = t, !.capture = c]],
             UNCHANGED <<applied, captures>>, ApiKept
      PROVE  Kept
  <2> DEFINE g == [m EXCEPT !.tick = t, !.capture = c]
  <2>1. /\ g \in Memory /\ g.pc = m.pc /\ g.cmd = m.cmd /\ g.say = m.say
        /\ g.uploadPrefix = m.uploadPrefix /\ g.capture = c
    BY <1>1, <1>3 DEF Memory
  <2>2. mem' = [mem EXCEPT ![a] = g]
    BY <1>3
  <2> HIDE DEF g, m
  <2> QED
    BY <1>2, <1>3, <2>1, <2>2
<1>4. /\ m.tick \in {"idle", "sweeping", "stopping", "post"}
      /\ \A t : [m EXCEPT !.tick = t] = [m EXCEPT !.tick = t, !.capture = m.capture]
      /\ \A c : [m EXCEPT !.capture = c] = [m EXCEPT !.tick = m.tick, !.capture = c]
  BY <1>1 DEF Memory
<1>5. CASE tickDiskFloor(a)
  <2>1. mem' = [mem EXCEPT ![a] = [m EXCEPT !.tick = "stopping", !.capture = "stopping"]]
    BY <1>1, <1>5 DEF tickDiskFloor
  <2>2. ApiKept /\ UNCHANGED <<applied, captures>>
    BY <1>5, Idle DEF tickDiskFloor
  <2> QED
    BY <1>3, <2>1, <2>2
<1>6. CASE tickStopEnds(a)
  <2>1. mem' = [mem EXCEPT ![a] = [m EXCEPT !.tick = "post", !.capture = "none"]]
    BY <1>1, <1>6 DEF tickStopEnds
  <2>2. ApiKept /\ UNCHANGED <<applied, captures>>
    BY <1>6, ManifestPosted DEF tickStopEnds, local
  <2> QED
    BY <1>3, <2>1, <2>2
<1>7. CASE tickPost(a)
  <2>1. mem' = [mem EXCEPT ![a] = [m EXCEPT !.tick = "idle", !.capture = m.capture]]
    BY <1>1, <1>4, <1>7 DEF tickPost
  <2>2. ApiKept /\ UNCHANGED <<applied, captures>>
    <3>1. "low" \in Report /\ "stray" \in Report
      BY DEF Report
    <3> QED
      BY <1>7, <3>1, Exchanged DEF tickPost, report
  <2> QED
    BY <1>3, <2>1, <2>2
<1>8. CASE tickSweep(a)
  <2>1. mem' = [mem EXCEPT ![a] = [m EXCEPT !.tick = "sweeping", !.capture = m.capture]]
    BY <1>1, <1>4, <1>8 DEF tickSweep
  <2>2. ApiKept /\ UNCHANGED <<applied, captures>>
    BY <1>8, Idle DEF tickSweep, local
  <2> QED
    BY <1>3, <2>1, <2>2
<1>9. CASE tickSweepEnds(a)
  <2>1. mem' = [mem EXCEPT ![a] = [m EXCEPT !.tick = "idle", !.capture = m.capture]]
    BY <1>1, <1>4, <1>9 DEF tickSweepEnds
  <2>2. ApiKept /\ UNCHANGED <<applied, captures>>
    <3>1. "stray" \in Report
      BY DEF Report
    <3> QED
      BY <1>9, <3>1, Exchanged, Idle DEF tickSweepEnds, report
  <2> QED
    BY <1>3, <2>1, <2>2
<1>10. CASE flushPending(a)
  <2>1. pending[a] \in Seq(Report) /\ pending[a] # <<>>
    BY <1>10 DEF flushPending, Inv, RestTypes
  <2>2. Head(pending[a]) \in Report
    BY <2>1
  <2>3. ApiKept /\ UNCHANGED <<mem, applied, captures>>
    BY <1>10, <2>2, Exchanged DEF flushPending
  <2> QED
    BY <2>3, Stays
<1>11. CASE captureDies(a)
  <2>1. mem' = [mem EXCEPT ![a] = [m EXCEPT !.tick = m.tick, !.capture = "dead"]]
    BY <1>1, <1>4, <1>11 DEF captureDies
  <2>2. ApiKept /\ UNCHANGED <<applied, captures>>
    BY <1>11, Idle DEF captureDies, local
  <2> QED
    BY <1>3, <1>4, <2>1, <2>2
<1>12. ASSUME NEW g \in {Fresh, [Fresh EXCEPT !.pc = "down"]},
              mem' = [mem EXCEPT ![a] = g], UNCHANGED <<applied, captures>>, UNCHANGED api
       PROVE  Kept
  <2>1. /\ g \in Memory /\ g.pc \in {"idle", "down"} /\ g.capture = "none" /\ ~g.uploadPrefix
    <3> DEFINE d == [Fresh EXCEPT !.pc = "down"]
    <3>1. Fresh \in Memory /\ Fresh.pc = "idle" /\ Fresh.capture = "none" /\ ~Fresh.uploadPrefix
      BY DEF Memory, Fresh
    <3>2. d \in Memory /\ d.pc = "down" /\ d.capture = "none" /\ ~d.uploadPrefix
      BY DEF Memory, Fresh
    <3> HIDE DEF d
    <3>3. g = Fresh \/ g = d
      BY <1>12 DEF d
    <3> QED
      BY <3>1, <3>2, <3>3
  <2>2. InHandOK(g, rows[a])
    BY <2>1 DEF InHandOK, Handling
  <2> QED
    BY <1>12, <2>1, <2>2, Alone
<1>13. CASE crash(a)
  BY <1>12, <1>13 DEF crash
<1>14. CASE restart(a)
  BY <1>12, <1>14 DEF restart, local
<1> QED
  BY <1>5, <1>6, <1>7, <1>8, <1>9, <1>10, <1>11, <1>13, <1>14 DEF TickLoop, TickStop

\* What the other variables hold.
LEMMA KeptTypes ==
  ASSUME Inv, NEW a \in Agent,
         \/ PollLoop(a) \/ TickLoop(a) \/ flushPending(a) \/ captureDies(a)
         \/ crash(a) \/ restart(a)
  PROVE  RestTypes'
<1>1. RestTypes /\ InHandOK(mem[a], rows[a])
  BY InHand DEF Inv
<1>2. ASSUME NEW r \in Report, report(a, r)
      PROVE  pending' \in [Agent -> Seq(Report)]
  <2> DEFINE q == Append(pending[a], r)
  <2>1. pending \in [Agent -> Seq(Report)] /\ q \in Seq(Report)
    BY <1>1 DEF RestTypes
  <2>2. UNCHANGED pending \/ pending' = [pending EXCEPT ![a] = q]
    BY <1>2 DEF report
  <2> HIDE DEF q
  <2> QED
    BY <2>1, <2>2
<1>3. CASE \/ SweepAbandoned(a) \/ (\E got \in BOOLEAN : nextCommand(a, got)) \/ Duplicate(a)
           \/ prepare(a) \/ prepareRefuses(a) \/ start(a) \/ stopCapture(a)
           \/ stopCaptureEnds(a) \/ uploadFails(a) \/ completeUploadFails(a) \/ abort(a)
           \/ abortCaptureEnds(a) \/ (\E ok \in BOOLEAN : Ack(a, ok)) \/ tickStopEnds(a)
           \/ tickSweep(a) \/ captureDies(a) \/ restart(a)
  <2>1. UNCHANGED <<objects, pending, media, crashes, diskStopped>>
    BY <1>3 DEF SweepAbandoned, nextCommand, Duplicate, prepare, prepareRefuses, start, stopCapture,
                stopCaptureEnds, uploadFails, completeUploadFails, abort, abortCaptureEnds, Ack,
                tickStopEnds, tickSweep, captureDies, restart, local
  <2> QED
    BY <1>1, <2>1 DEF RestTypes
<1>4. CASE captureStart(a) \/ captureStartFails(a) \/ stopIdle(a) \/ completeUpload(a)
  BY <1>1, <1>4 DEF captureStart, captureStartFails, stopIdle, completeUpload, RestTypes
<1>5. CASE upload(a) \/ purge(a)
  BY <1>1, <1>5 DEF upload, purge, RestTypes, local
<1>6. CASE PostStatus(a)
  <2>1. mem[a].say \in Report
    BY <1>1, <1>6 DEF PostStatus, InHandOK
  <2> QED
    BY <1>1, <1>2, <1>6, <2>1 DEF PostStatus, RestTypes
<1>7. CASE tickDiskFloor(a)
  BY <1>1, <1>7 DEF tickDiskFloor, RestTypes
<1>8. CASE tickPost(a) \/ tickSweepEnds(a)
  <2>1. "low" \in Report /\ "stray" \in Report
    BY DEF Report
  <2>2. pending' \in [Agent -> Seq(Report)]
    BY <1>1, <1>2, <1>8, <2>1 DEF tickPost, tickSweepEnds, RestTypes
  <2> QED
    BY <1>1, <1>8, <2>2 DEF tickPost, tickSweepEnds, RestTypes
<1>9. CASE flushPending(a)
  <2> DEFINE q == Tail(pending[a])
  <2>1. pending \in [Agent -> Seq(Report)] /\ pending[a] # <<>>
    BY <1>1, <1>9 DEF flushPending, RestTypes
  <2>2. q \in Seq(Report)
    BY <2>1
  <2>3. UNCHANGED pending \/ pending' = [pending EXCEPT ![a] = q]
    BY <1>9 DEF flushPending
  <2> HIDE DEF q
  <2> QED
    BY <1>1, <1>9, <2>1, <2>2, <2>3 DEF flushPending, RestTypes
<1>10. CASE crash(a)
  BY <1>1, <1>10 DEF crash, RestTypes
<1> QED
  BY <1>3, <1>4, <1>5, <1>6, <1>7, <1>8, <1>9, <1>10 DEF PollLoop, TickLoop, TickStop

LEMMA Starting == Init => Inv
<1> SUFFICES ASSUME Init
             PROVE  Inv
  OBVIOUS
<1> USE DEF Init
<1>1. ApiTypes
  <2>1. rows \in [Agent -> Seq(Row)]
    <3>1. <<>> \in Seq(Row)
      OBVIOUS
    <3> QED
      BY <3>1
  <2> QED
    BY <2>1 DEF ApiTypes, SessionState
<1>2. Fresh \in Memory /\ Fresh.pc = "idle" /\ Fresh.capture = "none" /\ ~Fresh.uploadPrefix
  BY DEF Fresh, Memory
<1>3. ApiOK
  BY DEF ApiOK
<1>4. MemTypes /\ RestTypes
  BY <1>2 DEF MemTypes, RestTypes
<1>5. ASSUME NEW a \in Agent
      PROVE  AgentOK(Fresh, {}, <<>>, 0, "none")
  <2>1. AgentTypes(Fresh, {}, <<>>, 0)
    BY <1>2 DEF AgentTypes
  <2>2. InHandOK(Fresh, <<>>)
    BY <1>2 DEF InHandOK, Handling
  <2>3. RowsOK(<<>>, 0, "none") /\ StartFirst(<<>>, 0, "none")
    BY DEF RowsOK, StartFirst
  <2>4. StartOnce(Fresh, {}, <<>>, 0, "none") /\ AppliedOK(Fresh, {}, <<>>)
    BY <1>2 DEF StartOnce, AppliedOK, MayCapture
  <2> QED
    BY <2>1, <2>2, <2>3, <2>4 DEF AgentOK
<1>6. Agents
  BY <1>5 DEF Agents
<1> QED
  BY <1>1, <1>3, <1>4, <1>6 DEF Inv

LEMMA Preserves == Inv /\ [Next]_vars => Inv'
<1> SUFFICES ASSUME Inv, [Next]_vars
             PROVE  Inv'
  OBVIOUS
<1>1. ASSUME Kept, RestTypes'
      PROVE  Inv'
  BY <1>1 DEF Kept, Inv
<1>2. ASSUME ApiKept, UNCHANGED <<objects, mem, local>>
      PROVE  Inv'
  <2>1. Kept
    BY <1>2, Stays DEF local
  <2>2. RestTypes'
    BY <1>2 DEF Inv, RestTypes, local
  <2> QED
    BY <1>1, <2>1, <2>2
<1>3. CASE Operator \/ T0Passes
  BY <1>2, <1>3, Requests
<1>4. ASSUME NEW a \in Agent, NEW i \in DOMAIN rows[a], LeaseExpires(a, i)
      PROVE  Inv'
  BY <1>2, <1>4, Leased
<1>5. ASSUME NEW a \in Agent, PollLoop(a)
      PROVE  Inv'
  <2>1. RestTypes'
    BY <1>5, KeptTypes
  <2>2. CASE SweepAbandoned(a)
    BY <1>2, <2>2, Swept
  <2>3. CASE \E got \in BOOLEAN : nextCommand(a, got)
    BY <1>1, <2>1, <2>3, Fetches
  <2>4. CASE \/ Duplicate(a) \/ prepare(a) \/ prepareRefuses(a) \/ captureStartFails(a)
             \/ stopCapture(a) \/ upload(a) \/ uploadFails(a) \/ abort(a)
    BY <1>1, <2>1, <2>4, Handles
  <2>5. CASE start(a)
    BY <1>1, <2>1, <2>5, Starts
  <2>6. CASE captureStart(a)
    BY <1>1, <2>1, <2>6, Captures
  <2>7. CASE stopCaptureEnds(a) \/ stopIdle(a) \/ abortCaptureEnds(a)
    BY <1>1, <2>1, <2>7, EndsCapture
  <2>8. CASE completeUpload(a) \/ completeUploadFails(a) \/ purge(a) \/ PostStatus(a)
    BY <1>1, <2>1, <2>8, EndsHandler
  <2>9. CASE \E ok \in BOOLEAN : Ack(a, ok)
    BY <1>1, <2>1, <2>9, Acks
  <2> QED
    BY <1>5, <2>2, <2>3, <2>4, <2>5, <2>6, <2>7, <2>8, <2>9 DEF PollLoop
<1>6. ASSUME NEW a \in Agent,
             TickLoop(a) \/ flushPending(a) \/ captureDies(a) \/ crash(a) \/ restart(a)
      PROVE  Inv'
  BY <1>1, <1>6, KeptTypes, Ticks
<1>7. CASE UNCHANGED vars
  <2>1. UNCHANGED api /\ UNCHANGED <<objects, mem, local>>
    BY <1>7 DEF vars
  <2> QED
    BY <1>2, <2>1, Idle
<1> QED
  BY <1>3, <1>4, <1>5, <1>6, <1>7 DEF Next

LEMMA Always == Spec => []Inv
BY Starting, Preserves, PTL DEF Spec

-----------------------------------------------------------------------------
\* The theorems

\* Every variable stays in its type, whatever goes wrong.
THEOREM TypeCorrect == Spec => []TypeOK
BY Always, InvTypes, PTL

\* An agent captures a session at most once, however often the start is handed
\* out, however many agents there are and however often their processes die.
THEOREM OneCaptureHolds == Spec => []OneCapture
<1>1. Inv => OneCapture
  BY DEF Inv, Agents, AgentOK, AgentTypes, OneCapture
<1> QED
  BY <1>1, Always, PTL

\* After its stop or its abort no command sets an agent capturing again, and
\* after its abort no prefix is left to upload to.
THEOREM EndIsFinalHolds == Spec => []EndIsFinal
<1>1. Inv => EndIsFinal
  BY DEF Inv, Agents, AgentOK, AppliedOK, Ends, EndIsFinal, Applied
<1> QED
  BY <1>1, Always, PTL

\* Which steps end a running capture.
LEMMA Sacrifices ==
  ASSUME Inv, [Next]_vars, NEW a \in Agent,
         mem[a].capture = "running", mem'[a].capture = "stopping"
  PROVE  stopCapture(a) \/ abort(a) \/ tickDiskFloor(a)
<1> SUFFICES ASSUME ~(stopCapture(a) \/ abort(a) \/ tickDiskFloor(a))
             PROVE  mem'[a].capture # "stopping"
  OBVIOUS
<1>1. mem \in [Agent -> Memory]
  BY DEF Inv, MemTypes
<1>2. mem' = mem => mem'[a].capture # "stopping"
  OBVIOUS
<1>3. CASE Operator \/ T0Passes
  BY <1>2, <1>3, Requests
<1>4. CASE UNCHANGED vars
  BY <1>2, <1>4 DEF vars
<1>5. ASSUME NEW b \in Agent, NEW i \in DOMAIN rows[b], LeaseExpires(b, i)
      PROVE  mem'[a].capture # "stopping"
  BY <1>2, <1>5 DEF LeaseExpires
<1>6. ASSUME NEW b \in Agent, NEW g, mem' = [mem EXCEPT ![b] = g], b = a => g.capture # "stopping"
      PROVE  mem'[a].capture # "stopping"
  BY <1>1, <1>6
<1>7. ASSUME NEW b \in Agent, PollLoop(b)
      PROVE  mem'[a].capture # "stopping"
  <2> DEFINE m == mem[b]
  <2>1. m \in Memory /\ (b = a => m.capture = "running")
    BY <1>1
  <2>2. CASE SweepAbandoned(b)
    BY <1>2, <2>2 DEF SweepAbandoned, local
  <2>3. CASE \E got \in BOOLEAN : nextCommand(b, got)
    BY <1>1, <1>2, <2>3 DEF nextCommand, Memory
  <2>4. CASE Duplicate(b) \/ (\E ok \in BOOLEAN : Ack(b, ok))
    BY <1>1, <2>4 DEF Duplicate, Ack, Memory
  <2>0. ASSUME NEW x \in Memory, NEW r, x.capture = m.capture \/ x.capture # "stopping",
               mem' = [mem EXCEPT ![b] = Saying(x, r)]
        PROVE  mem'[a].capture # "stopping"
    <3>1. Saying(x, r).capture = x.capture
      BY <2>0 DEF Saying, Memory
    <3> QED
      BY <1>6, <2>1, <2>0, <3>1
  <2>5. CASE prepare(b) \/ prepareRefuses(b) \/ uploadFails(b) \/ completeUploadFails(b)
    <3>1. CASE prepare(b)
      <4> DEFINE x == [m EXCEPT !.sessionId = TRUE, !.prepared = TRUE]
      <4>1. x \in Memory /\ x.capture = m.capture /\ mem' = [mem EXCEPT ![b] = Saying(x, "ready")]
        BY <2>1, <3>1 DEF prepare, Memory
      <4> HIDE DEF x
      <4> QED
        BY <2>0, <4>1
    <3>2. CASE prepareRefuses(b) \/ uploadFails(b) \/ completeUploadFails(b)
      BY <2>1, <2>0, <3>2 DEF prepareRefuses, uploadFails, completeUploadFails
    <3> QED
      BY <2>5, <3>1, <3>2
  <2>6. CASE start(b) \/ captureStart(b) \/ captureStartFails(b)
    <3>1. CASE start(b)
      <4> DEFINE g == IF t0 = "past" \/ ~m.prepared THEN Saying(m, "refused")
                      ELSE [m EXCEPT !.pc = "waitT0", !.sessionId = TRUE, !.uploadPrefix = TRUE]
      <4>1. g.capture = m.capture
        BY <2>1 DEF Saying, Memory
      <4>2. mem' = [mem EXCEPT ![b] = g]
        BY <3>1 DEF start
      <4> HIDE DEF g
      <4> QED
        BY <1>6, <2>1, <4>1, <4>2
    <3>2. CASE captureStart(b) \/ captureStartFails(b)
      <4>1. PICK c \in {"running", "dead"}, r \in Report :
              mem' = [mem EXCEPT ![b] = Saying([m EXCEPT !.capture = c], r)]
        BY <3>2 DEF captureStart, captureStartFails, Report
      <4> DEFINE x == [m EXCEPT !.capture = c]
      <4>2. x \in Memory /\ x.capture = c
        BY <2>1 DEF Memory
      <4> HIDE DEF x, m
      <4> QED
        BY <2>0, <4>1, <4>2 DEF x
    <3> QED
      BY <2>6, <3>1, <3>2
  <2>7. CASE stopCapture(b) \/ abort(b)
    BY <1>1, <2>7 DEF stopCapture, abort, Memory
  <2>8. CASE stopCaptureEnds(b) \/ abortCaptureEnds(b)
    <3>1. CASE stopCaptureEnds(b)
      <4> DEFINE g == AfterStop([m EXCEPT !.capture = "none"])
      <4>1. g.capture = "none"
        BY <2>1 DEF AfterStop, Saying, Memory
      <4>2. mem' = [mem EXCEPT ![b] = g]
        BY <3>1 DEF stopCaptureEnds
      <4> HIDE DEF g
      <4> QED
        BY <1>6, <4>1, <4>2
    <3>2. CASE abortCaptureEnds(b)
      BY <1>1, <3>2 DEF abortCaptureEnds, Memory
    <3> QED
      BY <2>8, <3>1, <3>2
  <2>9. CASE stopIdle(b) \/ completeUpload(b) \/ PostStatus(b) \/ purge(b)
    BY <1>1, <2>9 DEF stopIdle, completeUpload, PostStatus, purge, Returns, AfterStop, Saying, Memory
  <2>10. CASE upload(b)
    BY <1>1, <2>10 DEF upload, Memory
  <2> QED
    BY <1>7, <2>2, <2>3, <2>4, <2>5, <2>6, <2>7, <2>8, <2>9, <2>10 DEF PollLoop
<1>8. ASSUME NEW b \in Agent, TickLoop(b) \/ flushPending(b) \/ captureDies(b)
      PROVE  mem'[a].capture # "stopping"
  BY <1>1, <1>8 DEF TickLoop, TickStop, tickDiskFloor, tickStopEnds, tickPost, tickSweep,
                    tickSweepEnds, flushPending, captureDies, Memory
<1>9. ASSUME NEW b \in Agent, crash(b) \/ restart(b)
      PROVE  mem'[a].capture # "stopping"
  BY <1>1, <1>9 DEF crash, restart, Fresh
<1> QED
  BY <1>3, <1>4, <1>5, <1>7, <1>8, <1>9 DEF Next

\* A running capture is ended by the operator or by the disk floor alone: no
\* failure of the API, of a report or of storage stops it.
THEOREM NeverSacrificedHolds == Spec => NeverSacrificed
<1> DEFINE Safe(a) ==
      mem[a].capture = "running" /\ mem'[a].capture = "stopping"
      => \/ a \in diskStopped'
         \/ \E i \in DOMAIN rows[a] : rows[a][i].type \in {"stop", "abort"}
<1>1. ASSUME Inv, [Next]_vars, NEW a \in Agent
      PROVE  Safe(a)
  <2> SUFFICES ASSUME mem[a].capture = "running", mem'[a].capture = "stopping"
               PROVE  \/ a \in diskStopped'
                      \/ \E i \in DOMAIN rows[a] : rows[a][i].type \in {"stop", "abort"}
    OBVIOUS
  <2>1. CASE tickDiskFloor(a)
    BY <2>1 DEF tickDiskFloor
  <2>2. CASE stopCapture(a) \/ abort(a)
    <3>1. mem[a].pc = "got" /\ rows[a][mem[a].cmd].type \in {"stop", "abort"}
      BY <2>2 DEF stopCapture, abort, Holds
    <3>2. mem[a].cmd \in DOMAIN rows[a]
      BY <1>1, <3>1, InHand DEF InHandOK, Handling
    <3> QED
      BY <3>1, <3>2
  <2> QED
    BY <1>1, <2>1, <2>2, Sacrifices
<1>2. Inv /\ [Next]_vars => [\A a \in Agent : Safe(a)]_vars
  BY <1>1
<1> QED
  BY <1>2, Always, PTL DEF Spec, NeverSacrificed

\* Whatever agents, faults and crashes do to it, the session's row is one of
\* SessionLifecycle: the review gate and the finality of its ends carry over.
THEOREM Refinement == Spec => ImplementsLifecycle
<1>1. Init => Lifecycle!Init
  BY DEF Init, Lifecycle!Init, Lifecycle!Absent, Absent
<1>2. ASSUME Inv, [Next]_vars
      PROVE  [Lifecycle!Next]_Lifecycle!vars
  <2>1. CASE UNCHANGED <<state, saved>>
    BY <2>1 DEF Lifecycle!vars
  <2>2. CASE create
    <3>1. Lifecycle!Create("s")
      BY <2>2 DEF create, Lifecycle!Create, Lifecycle!Absent, Absent
    <3> QED
      BY <3>1 DEF Lifecycle!Next
  <2>3. CASE save
    <3>1. Lifecycle!Save("s")
      BY <2>3 DEF save, Lifecycle!Save, Lifecycle!isLegalTransition, isLegalTransition,
                  Lifecycle!LEGAL, LEGAL
    <3> QED
      BY <3>1 DEF Lifecycle!Next
  <2>4. CASE stop \/ discard
    BY <2>4, Moves DEF stop, discard, SessionState
  <2>5. ASSUME NEW a \in Agent, NEW r \in Report, NEW ok, Exchange(a, r, ok)
        PROVE  [Lifecycle!Next]_Lifecycle!vars
    <3>1. CASE reportStatus(a, r)
      BY <3>1, ReportMoves, Moves
    <3>2. CASE UNCHANGED api
      BY <2>1, <3>2 DEF api
    <3> QED
      BY <2>5, <3>1, <3>2 DEF Exchange
  <2>6. ASSUME NEW a \in Agent, PollLoop(a)
        PROVE  [Lifecycle!Next]_Lifecycle!vars
    <3>1. CASE SweepAbandoned(a)
      BY <3>1, Moves DEF SweepAbandoned, canFail, SessionState
    <3>2. CASE completeUpload(a) \/ completeUploadFails(a)
      BY <2>1, <3>2, Moves DEF completeUpload, completeUploadFails, CanStore, MarkStored,
                               SessionState, api
    <3>3. CASE PostStatus(a)
      <4>1. mem[a].say \in Report
        BY <1>2, <3>3, InHand DEF PostStatus, InHandOK
      <4> QED
        BY <2>5, <3>3, <4>1 DEF PostStatus, report
    <3>4. CASE \/ (\E got \in BOOLEAN : nextCommand(a, got)) \/ Duplicate(a)
               \/ prepare(a) \/ prepareRefuses(a) \/ start(a) \/ captureStart(a)
               \/ captureStartFails(a) \/ stopCapture(a) \/ stopCaptureEnds(a)
               \/ stopIdle(a) \/ upload(a) \/ uploadFails(a) \/ abort(a)
               \/ abortCaptureEnds(a) \/ purge(a) \/ (\E ok \in BOOLEAN : Ack(a, ok))
      <4>1. UNCHANGED <<state, saved>>
        BY <3>4 DEF nextCommand, Duplicate, prepare, prepareRefuses, start, captureStart,
                    captureStartFails, stopCapture, stopCaptureEnds, CaptureStopped, stopIdle,
                    upload, uploadFails, abort, abortCaptureEnds, purge, Ack, api
      <4> QED
        BY <2>1, <4>1
    <3> QED
      BY <2>6, <3>1, <3>2, <3>3, <3>4 DEF PollLoop
  <2>7. ASSUME NEW a \in Agent,
               TickLoop(a) \/ flushPending(a) \/ captureDies(a) \/ crash(a) \/ restart(a)
        PROVE  [Lifecycle!Next]_Lifecycle!vars
    <3>1. CASE tickPost(a) \/ tickSweepEnds(a)
      <4>1. "low" \in Report /\ "stray" \in Report
        BY DEF Report
      <4> QED
        BY <2>1, <2>5, <3>1, <4>1 DEF tickPost, tickSweepEnds, report, api
    <3>2. CASE flushPending(a)
      <4>1. pending[a] \in Seq(Report) /\ pending[a] # <<>>
        BY <1>2, <3>2 DEF flushPending, Inv, RestTypes
      <4>2. Head(pending[a]) \in Report
        BY <4>1
      <4> QED
        BY <2>5, <3>2, <4>2 DEF flushPending
    <3>3. CASE \/ tickDiskFloor(a) \/ tickStopEnds(a) \/ tickSweep(a)
               \/ captureDies(a) \/ crash(a) \/ restart(a)
      <4>1. UNCHANGED <<state, saved>>
        BY <3>3 DEF tickDiskFloor, tickStopEnds, CaptureStopped, tickSweep, captureDies, crash,
                    restart, api
      <4> QED
        BY <2>1, <4>1
    <3> QED
      BY <2>7, <3>1, <3>2, <3>3 DEF TickLoop, TickStop
  <2>8. CASE \/ T0Passes \/ UNCHANGED vars
             \/ \E a \in Agent : \E i \in DOMAIN rows[a] : LeaseExpires(a, i)
    <3>1. UNCHANGED <<state, saved>>
      BY <2>8 DEF T0Passes, LeaseExpires, vars, api
    <3> QED
      BY <2>1, <3>1
  <2> QED
    BY <1>2, <2>2, <2>3, <2>4, <2>6, <2>7, <2>8 DEF Next, Operator
<1> QED
  BY <1>1, <1>2, Always, PTL DEF Spec, ImplementsLifecycle, Lifecycle!Spec

-----------------------------------------------------------------------------
\* What SessionLifecycle promises, of the session's row

\* A step of the lifecycle, read off the session: its row appears, or moves
\* along the table, and the move to `uploading' is the Save.
LEMMA RowStep ==
  ASSUME saved \in BOOLEAN, saved' \in BOOLEAN, [Lifecycle!Next]_Lifecycle!vars
  PROVE  \/ state' = state /\ saved' = saved
         \/ state = Absent /\ state' = "preparing" /\ saved' = saved
         \/ state' \in LEGAL[state] /\ saved' = (saved \/ state' = "uploading")
<1> DEFINE was == [s \in {"s"} |-> state]
           is == [s \in {"s"} |-> state']
<1>1. was["s"] = state /\ is["s"] = state'
  OBVIOUS
<1>2. CASE UNCHANGED Lifecycle!vars
  BY <1>1, <1>2 DEF Lifecycle!vars
<1>3. CASE Lifecycle!Create("s")
  BY <1>1, <1>3 DEF Lifecycle!Create, Lifecycle!Absent, Absent
<1>4. CASE Lifecycle!Save("s")
  <2>1. "uploading" \in LEGAL[state] /\ is = [was EXCEPT !["s"] = "uploading"] /\ saved'
    BY <1>4 DEF Lifecycle!Save, Lifecycle!isLegalTransition, Lifecycle!LEGAL, LEGAL
  <2> QED
    BY <1>1, <2>1
<1>5. ASSUME NEW to \in Lifecycle!SessionState, Lifecycle!Advance("s", to)
      PROVE  state' \in LEGAL[state] /\ saved' = (saved \/ state' = "uploading")
  <2>1. to # "uploading" /\ to \in LEGAL[state] /\ is = [was EXCEPT !["s"] = to] /\ saved' = saved
    BY <1>5 DEF Lifecycle!Advance, Lifecycle!isLegalTransition, Lifecycle!LEGAL, LEGAL
  <2> QED
    BY <1>1, <2>1
<1> QED
  BY <1>2, <1>3, <1>4, <1>5 DEF Lifecycle!Next

\* With the gate it must be known that what was saved is past its review.
SystemGate == /\ state \in SessionState \cup {Absent}
              /\ saved \in BOOLEAN
              /\ state \in {"uploading", "stored"} => saved
              /\ saved => state \in {"uploading", "stored", "failed"}

LEMMA GateInitial == Lifecycle!Init /\ TypeOK => SystemGate
<1> SUFFICES ASSUME Lifecycle!Init, TypeOK
             PROVE  SystemGate
  OBVIOUS
<1>1. [s \in {"s"} |-> state]["s"] = Absent /\ ~saved
  BY DEF Lifecycle!Init, Lifecycle!Absent, Absent
<1> QED
  BY <1>1 DEF SystemGate, SessionState, Absent, TypeOK

LEMMA GateInductive ==
  SystemGate /\ saved' \in BOOLEAN /\ [Lifecycle!Next]_Lifecycle!vars => SystemGate'
<1> SUFFICES ASSUME SystemGate, saved' \in BOOLEAN, [Lifecycle!Next]_Lifecycle!vars
             PROVE  SystemGate'
  OBVIOUS
<1>1. CASE state' = state /\ saved' = saved
  BY <1>1 DEF SystemGate
<1>2. CASE state = Absent /\ state' = "preparing" /\ saved' = saved
  BY <1>2 DEF SystemGate, SessionState, Absent
<1>3. CASE state' \in LEGAL[state] /\ saved' = (saved \/ state' = "uploading")
  <2>1. PICK from, to : from = state /\ to = state'
    OBVIOUS
  <2>2. /\ to \in SessionState
        /\ to = "stored" => from = "uploading"
        /\ from \notin {"stored", "failed"}
        /\ from = "uploading" => to \in {"stored", "failed"}
    BY <1>3, <2>1 DEF SystemGate, LEGAL, SessionState, Absent
  <2> QED
    BY <1>3, <2>1, <2>2 DEF SystemGate
<1> QED
  BY <1>1, <1>2, <1>3, RowStep DEF SystemGate

\* The review gate of the whole system: whatever agents, faults and crashes do,
\* nothing is uploading or stored without the operator's Save, and what was
\* discarded was never saved.
THEOREM ReviewGateHolds == Spec => []Lifecycle!ReviewGate
<1>1. TypeOK' => saved' \in BOOLEAN
  BY DEF TypeOK
<1>2. SystemGate => Lifecycle!ReviewGate
  BY DEF SystemGate, Lifecycle!ReviewGate
<1> QED
  BY <1>1, <1>2, GateInitial, GateInductive, Refinement, TypeCorrect, PTL
     DEF ImplementsLifecycle, Lifecycle!Spec

\* And its ends are ends: stored, discarded and failed stay what they are,
\* whatever an agent reports afterwards.
THEOREM TerminalStatesAreFinal == Spec => [][(state \in Terminal => state' = state)]_vars
<1>1. SystemGate /\ saved' \in BOOLEAN /\ [Lifecycle!Next]_Lifecycle!vars
      => [(state \in Terminal => state' = state)]_vars
  <2> SUFFICES ASSUME SystemGate, saved' \in BOOLEAN, [Lifecycle!Next]_Lifecycle!vars,
                      state \in Terminal
               PROVE  state' = state
    OBVIOUS
  <2>1. state # Absent /\ LEGAL[state] = {}
    BY DEF Terminal, SessionState, Absent
  <2>2. saved \in BOOLEAN
    BY DEF SystemGate
  <2> QED
    BY <2>1, <2>2, RowStep
<1>2. TypeOK' => saved' \in BOOLEAN
  BY DEF TypeOK
<1> QED
  BY <1>1, <1>2, GateInitial, GateInductive, Refinement, TypeCorrect, PTL
     DEF ImplementsLifecycle, Lifecycle!Spec

-----------------------------------------------------------------------------
\* With every request served an agent's commands are carried out one after the
\* other: m, ap, rs and t are as above, pend is what the agent holds back.

\* A command may be lost on its way, if it is given up on then; no request and
\* no process is, and no start is late.
EveryRequestServed == /\ Faults \cap {"undelivered", "crash", "late"} = {}
                      /\ "unanswered" \in Faults => Cap = 1

\* What was handed out is in hand, closed, or about to be given up on, and a
\* start is taken up before T0 has passed.
Outstanding(r) == ~r.acked /\ r.count > 0
InTurn(m, ap, rs, t) ==
  /\ m.pc # "down"
  /\ Handling(m) => ~rs[m.cmd].acked
  /\ \A i \in DOMAIN rs : rs[i].leased => rs[i].count > 0
  /\ \A i \in DOMAIN rs : Outstanding(rs[i]) => rs[i].count >= Cap \/ (Handling(m) /\ m.cmd = i)
  /\ \A i \in ap : rs[i].acked \/ (m.pc = "ack" /\ m.cmd = i)
  /\ t = "past" => \A i \in DOMAIN rs : rs[i].type = "start" /\ ~rs[i].acked =>
                     rs[i].count > 0 /\ ~(m.pc = "got" /\ m.cmd = i)

\* The start is queued when every agent said that it is prepared.
HasStart(rs) == \E i \in DOMAIN rs : rs[i].type = "start"
SaysReady(m, pend) == \/ m.pc = "post" /\ m.say = "ready"
                      \/ \E k \in DOMAIN pend : pend[k] = "ready"
PreparedOK(m, rs, pend, isReady, s) ==
  /\ isReady \/ HasStart(rs) \/ SaysReady(m, pend) => m.prepared
  /\ s \in {"recording", "stopping"} => HasStart(rs)

\* Until a manifest is posted, an agent that is done with its start has its
\* capture, so none has yet said that it stopped.
Closing == {"stopped", "low"}
DoneWith(m, rs, i) == rs[i].acked \/ (m.pc \in {"post", "ack"} /\ m.cmd = i)
CapturingOK(m, rs, pend) ==
  /\ \A i \in DOMAIN rs : rs[i].type = "start" /\ DoneWith(m, rs, i) => m.capture # "none"
  /\ m.pc = "got" /\ rs[m.cmd].type = "stop" => m.capture # "none"
  /\ m.tick # "post"
  /\ m.pc = "post" => m.say \notin Closing
  /\ \A k \in DOMAIN pend : pend[k] \notin Closing

ServedOK(m, ap, rs, pend, t, isReady, s, early) ==
  /\ InTurn(m, ap, rs, t)
  /\ PreparedOK(m, rs, pend, isReady, s)
  /\ early => CapturingOK(m, rs, pend)

\* The session has not been to its review, and nobody sent a manifest.
Early == manifests = {} /\ state \in {Absent, "preparing", "recording", "stopping"}

Served == /\ ReviewHasManifest
          /\ \A a \in Agent : ServedOK(mem[a], applied[a], rows[a], pending[a],
                                       t0, a \in ready, state, Early)

\* Agent b, were the API's variables those of the next state.
ServedNext(b) == ServedOK(mem[b], applied[b], rows'[b], pending[b],
                          t0', b \in ready', state', Early')

-----------------------------------------------------------------------------
\* What the API does

\* The table never leads back to where no manifest is due.
LEMMA EarlyBefore ==
  ASSUME isLegalTransition(state, state') \/ state' = state, state \in SessionState \cup {Absent},
         manifests \subseteq manifests', Early'
  PROVE  Early
BY DEF Early, isLegalTransition, LEGAL, SessionState, Absent

\* A row is queued.
LEMMA QueuedServed ==
  ASSUME NEW m, NEW ap, NEW rs, NEW n, NEW pend, NEW t, NEW rdy, NEW s, NEW early,
         NEW u, NEW s1, NEW rdy1, NEW early1,
         AgentOK(m, ap, rs, n, t), NEW type \in CommandType,
         ServedOK(m, ap, rs, pend, t, rdy, s, early),
         type = "start" => u # "past" /\ m.prepared, u = "past" => t = "past",
         rdy1 => rdy \/ m.prepared, early1 => early,
         s1 \in {"recording", "stopping"} => type = "start" \/ s \in {"recording", "stopping"}
  PROVE  ServedOK(m, ap, Append(rs, FreshRow(type)), pend, u, rdy1, s1, early1)
<1> DEFINE r == FreshRow(type)
           q == Append(rs, r)
<1>1. r.type = type /\ r.count = 0 /\ ~r.leased /\ ~r.acked /\ r \in Row
  BY CapAssumption DEF FreshRow, Row
<1>2. rs \in Seq(Row) /\ ap \subseteq DOMAIN rs /\ (Handling(m) => m.cmd \in DOMAIN rs)
  BY DEF AgentOK, AgentTypes, InHandOK
<1>3. /\ Len(rs) + 1 \in DOMAIN q /\ q[Len(rs) + 1] = r
      /\ DOMAIN q = 1..(Len(rs) + 1) /\ DOMAIN rs = 1..Len(rs) /\ Len(rs) \in Nat
      /\ \A i \in DOMAIN rs : i \in DOMAIN q /\ q[i] = rs[i]
      /\ \A i \in DOMAIN q : i \in DOMAIN rs \/ i = Len(rs) + 1
  BY <1>1, <1>2
<1> HIDE DEF r, q
<1>4. InTurn(m, ap, q, u)
  <2>1. \A i \in DOMAIN q : ~Outstanding(r) /\ (Outstanding(q[i]) => i \in DOMAIN rs)
    BY <1>1, <1>3 DEF Outstanding
  <2>2. \A i \in DOMAIN q : q[i].leased => q[i].count > 0
    BY <1>1, <1>3 DEF ServedOK, InTurn
  <2>3. ASSUME u = "past", NEW i \in DOMAIN q, q[i].type = "start", ~q[i].acked
        PROVE  q[i].count > 0 /\ ~(m.pc = "got" /\ m.cmd = i)
    <3>1. i \in DOMAIN rs
      BY <1>1, <1>3, <2>3
    <3> QED
      BY <1>3, <2>3, <3>1 DEF ServedOK, InTurn
  <2>4. m.pc # "down" /\ (Handling(m) => ~q[m.cmd].acked)
    BY <1>2, <1>3 DEF ServedOK, InTurn
  <2>5. \A i \in ap : q[i].acked \/ (m.pc = "ack" /\ m.cmd = i)
    BY <1>2, <1>3 DEF ServedOK, InTurn
  <2>6. \A i \in DOMAIN q : Outstanding(q[i]) => q[i].count >= Cap \/ (Handling(m) /\ m.cmd = i)
    BY <1>3, <2>1 DEF ServedOK, InTurn
  <2> QED
    BY <2>2, <2>3, <2>4, <2>5, <2>6 DEF InTurn
<1>5. (type = "start" => HasStart(q)) /\ (HasStart(rs) => HasStart(q))
  BY <1>1, <1>3 DEF HasStart
<1>6. HasStart(q) => HasStart(rs) \/ type = "start"
  BY <1>1, <1>3 DEF HasStart
<1>7. PreparedOK(m, q, pend, rdy1, s1)
  BY <1>5, <1>6 DEF ServedOK, PreparedOK
<1>8. ASSUME CapturingOK(m, rs, pend)
      PROVE  CapturingOK(m, q, pend)
  <2>1. ASSUME NEW i \in DOMAIN q, q[i].type = "start", DoneWith(m, q, i)
        PROVE  i \in DOMAIN rs
    <3>1. m.pc \in {"post", "ack"} => Handling(m)
      BY DEF Handling
    <3>2. i # Len(rs) + 1
      BY <1>1, <1>2, <1>3, <2>1, <3>1 DEF DoneWith
    <3> QED
      BY <1>3, <3>2
  <2>2. \A i \in DOMAIN q : q[i].type = "start" /\ DoneWith(m, q, i) => m.capture # "none"
    BY <1>3, <1>8, <2>1 DEF CapturingOK, DoneWith
  <2>3. m.pc = "got" /\ q[m.cmd].type = "stop" => m.capture # "none"
    BY <1>2, <1>3, <1>8 DEF CapturingOK, Handling
  <2> QED
    BY <1>8, <2>2, <2>3 DEF CapturingOK
<1> QED
  BY <1>4, <1>7, <1>8 DEF ServedOK, q, r

\* What a step of the API leaves for the agents to go on with.
ServedKept == /\ ReviewHasManifest' /\ (Early' => Early)
              /\ \A b \in Agent : ServedNext(b)

LEMMA IdleServed ==
  ASSUME Served, UNCHANGED api
  PROVE  ServedKept
BY DEF Served, ServedKept, ServedNext, Early, ReviewHasManifest, api

\* No rows change.
LEMMA SameRows ==
  ASSUME Served, UNCHANGED <<rows, t0>>, Early' => Early, ReviewHasManifest',
         \A b \in Agent : b \in ready' => b \in ready \/ mem[b].prepared,
         state' \in {"recording", "stopping"} => state \in {"recording", "stopping"}
  PROVE  ServedKept
<1> SUFFICES ASSUME NEW b \in Agent
             PROVE  ServedNext(b)
  BY DEF ServedKept
<1>1. ServedOK(mem[b], applied[b], rows[b], pending[b], t0, b \in ready, state, Early)
  BY DEF Served
<1>2. state' \in {"recording", "stopping"} => HasStart(rows[b])
  BY <1>1 DEF ServedOK, PreparedOK
<1>3. ServedOK(mem[b], applied[b], rows[b], pending[b], t0, b \in ready', state', Early')
  BY <1>1, <1>2 DEF ServedOK, PreparedOK
<1> QED
  BY <1>3 DEF ServedNext

\* A command is queued for everyone.
LEMMA QueuesServed ==
  ASSUME Inv, Served, NEW type \in CommandType, QueueAll(type), Early' => Early,
         t0' = "past" => t0 = "past",
         type = "start" => t0' # "past" /\ \A b \in Agent : mem[b].prepared,
         \A b \in Agent : b \in ready' => b \in ready \/ mem[b].prepared, ReviewHasManifest',
         state' \in {"recording", "stopping"} => type = "start" \/ state \in {"recording", "stopping"}
  PROVE  ServedKept
<1> SUFFICES ASSUME NEW b \in Agent
             PROVE  ServedNext(b)
  BY DEF ServedKept
<1>1. ServedOK(mem[b], applied[b], rows[b], pending[b], t0, b \in ready, state, Early)
  BY DEF Served
<1>2. AgentOK(mem[b], applied[b], rows[b], captures[b], t0)
  BY DEF Inv, Agents
<1>3. ServedOK(mem[b], applied[b], Append(rows[b], FreshRow(type)), pending[b],
               t0', b \in ready', state', Early')
  BY <1>1, <1>2, QueuedServed
<1>4. rows'[b] = Append(rows[b], FreshRow(type))
  BY DEF QueueAll, FreshRow
<1> QED
  BY <1>3, <1>4 DEF ServedNext

LEMMA RequestsServed ==
  ASSUME Inv, Served, EveryRequestServed, Operator \/ T0Passes
  PROVE  ServedKept /\ UNCHANGED <<objects, mem, local>>
<1>1. state \in SessionState \cup {Absent} /\ ReviewHasManifest
  BY DEF Inv, ApiTypes, Served
<1>2. CASE create
  <2>1. (Early' => Early) /\ ReviewHasManifest' /\ "prepare" \in CommandType
    BY <1>2 DEF create, Early, ReviewHasManifest, CommandType
  <2> QED
    BY <1>2, <2>1, QueuesServed DEF create
<1>3. CASE stop
  <2>1. (Early' => Early) /\ ReviewHasManifest' /\ "stop" \in CommandType /\ state = "recording"
    BY <1>1, <1>3, EarlyBefore DEF stop, ReviewHasManifest, CommandType, isLegalTransition, LEGAL,
                                   SessionState, Absent
  <2> QED
    BY <1>3, <2>1, QueuesServed DEF stop
<1>4. CASE save
  <2>1. (Early' => Early) /\ ReviewHasManifest' /\ "upload" \in CommandType
    BY <1>1, <1>4, EarlyBefore DEF save, ReviewHasManifest, CommandType
  <2> QED
    BY <1>4, <2>1, QueuesServed DEF save
<1>5. CASE discard
  <2>1. (Early' => Early) /\ ReviewHasManifest' /\ "abort" \in CommandType
    BY <1>1, <1>5, EarlyBefore DEF discard, ReviewHasManifest, CommandType
  <2> QED
    BY <1>5, <2>1, QueuesServed DEF discard
\* No start is late: T0 passes when each that is open has been taken up.
<1>6. CASE T0Passes
  <2> SUFFICES ASSUME NEW b \in Agent
               PROVE  ServedNext(b)
    BY <1>1, <1>6 DEF ServedKept, T0Passes, ReviewHasManifest, Early
  <2>1. ServedOK(mem[b], applied[b], rows[b], pending[b], t0, b \in ready, state, Early)
    BY DEF Served
  <2>2. \A i \in DOMAIN rows[b] : rows[b][i].type = "start" /\ ~rows[b][i].acked
          => rows[b][i].count > 0 /\ mem[b].pc # "got"
    BY <1>6 DEF T0Passes, EveryRequestServed
  <2>3. InTurn(mem[b], applied[b], rows[b], "past")
    BY <2>1, <2>2 DEF ServedOK, InTurn
  <2>4. UNCHANGED <<rows, ready, state, Early>> /\ t0' = "past"
    BY <1>6 DEF T0Passes, Early
  <2> QED
    BY <2>1, <2>3, <2>4 DEF ServedOK, ServedNext
<1> QED
  BY <1>2, <1>3, <1>4, <1>5, <1>6 DEF Operator, create, stop, save, discard, T0Passes

LEMMA ReportedServed ==
  ASSUME Inv, Served, NEW a \in Agent, NEW r \in Report, reportStatus(a, r),
         Early => r \notin Closing, r = "ready" => mem[a].prepared
  PROVE  ServedKept
<1>1. state \in SessionState \cup {Absent} /\ ReviewHasManifest
  BY DEF Inv, ApiTypes, Served
<1>2. CASE UNCHANGED api
  BY <1>2, IdleServed
<1>3. CASE r = "ready"
  <2>1. ReportReady(a) /\ ~Rejects(a, r)
    BY <1>3 DEF reportStatus
  <2>2. CASE ready \cup {a} = Agent
    <3>1. isLegalTransition(state, "recording")
      BY <1>3, <2>1, <2>2 DEF Rejects
    <3>2. \A b \in Agent : mem[b].prepared
      BY <1>3, <2>2 DEF Served, ServedOK, PreparedOK
    <3>3. /\ QueueAll("start") /\ "start" \in CommandType /\ t0' = "ahead" /\ ready' = {}
          /\ state' = "recording" /\ UNCHANGED manifests
      BY <2>1, <2>2 DEF ReportReady, CommandType
    <3>4. (Early' => Early) /\ ReviewHasManifest'
      BY <1>1, <3>1, <3>3, EarlyBefore DEF ReviewHasManifest
    <3> QED
      BY <3>2, <3>3, <3>4, QueuesServed
  <2>3. CASE ready \cup {a} # Agent
    <3>1. UNCHANGED <<rows, t0, state, manifests>> /\ ready' = ready \cup {a}
      BY <2>1, <2>3 DEF ReportReady
    <3>2. (Early' => Early) /\ ReviewHasManifest'
      BY <1>1, <3>1 DEF Early, ReviewHasManifest
    <3> QED
      BY <1>3, <3>1, <3>2, SameRows
  <2> QED
    BY <2>2, <2>3
<1>4. CASE r = "refused"
  <2>1. UNCHANGED <<rows, t0, manifests>> /\ ready' = {} /\ state' = "failed"
    BY <1>4 DEF reportStatus, ReportFailed
  <2>2. (Early' => Early) /\ ReviewHasManifest'
    BY <2>1 DEF Early, Absent, ReviewHasManifest
  <2> QED
    BY <2>1, <2>2, SameRows
\* The session that goes to its review has left `stopping' with a manifest.
<1>5. CASE r \in {"stopped", "low"}
  <2>1. ReportStopped(r) /\ ~Early
    BY <1>5 DEF reportStatus, Closing
  <2>2. CASE state = "stopping"
    <3>1. UNCHANGED <<rows, t0, manifests, ready>> /\ state' = "review"
      BY <2>1, <2>2 DEF ReportStopped
    <3>2. manifests # {}
      BY <2>1, <2>2 DEF Early
    <3>3. (Early' => Early) /\ ReviewHasManifest'
      BY <3>1, <3>2 DEF Early, ReviewHasManifest
    <3> QED
      BY <3>1, <3>3, SameRows
  <2> QED
    BY <1>2, <2>1, <2>2 DEF ReportStopped
<1>6. CASE r = "recording"
  BY <1>2, <1>6 DEF reportStatus
<1>7. r \notin {"detailed", "stray"}
  BY DEF reportStatus, Rejects
<1> QED
  BY <1>3, <1>4, <1>5, <1>6, <1>7 DEF Report

LEMMA ExchangedServed ==
  ASSUME Inv, Served, NEW a \in Agent, NEW r \in Report, NEW ok, Exchange(a, r, ok),
         Early => r \notin Closing, r = "ready" => mem[a].prepared
  PROVE  ServedKept
BY ReportedServed, IdleServed DEF Exchange

\* A manifest arrives: every stop is posted once, and served.
LEMMA ManifestServed ==
  ASSUME Inv, Served, EveryRequestServed, NEW a \in Agent, CaptureStopped(a)
  PROVE  ServedKept /\ ~Early'
<1>1. UNCHANGED <<rows, t0, ready, state>> /\ manifests' = manifests \cup {a}
  BY DEF CaptureStopped, EveryRequestServed
<1>2. (Early' => Early) /\ ReviewHasManifest' /\ ~Early'
  BY <1>1 DEF Early, ReviewHasManifest
<1> QED
  BY <1>1, <1>2, SameRows

LEMMA StoredServed ==
  ASSUME Served, MarkStored
  PROVE  ServedKept
<1>1. UNCHANGED <<rows, t0, ready, manifests>> /\ state' = "stored"
  BY DEF MarkStored
<1>2. (Early' => Early) /\ ReviewHasManifest'
  BY <1>1 DEF Early, Absent, ReviewHasManifest
<1> QED
  BY <1>1, <1>2, SameRows

-----------------------------------------------------------------------------
\* What the process does

\* What a step may do to a process that goes on with its command.
Onward(m, g) ==
  /\ Handling(g) <=> Handling(m)
  /\ g.pc # "down"
  /\ Handling(m) => g.cmd = m.cmd
  /\ g.pc = "got" => m.pc = "got"
  /\ m.pc = "ack" => g.pc = "ack"
  /\ m.prepared => g.prepared
  /\ g.pc = "post" /\ g.say = "ready" => g.prepared

\* It keeps its capture, claims no end of it, and is done with a start only
\* when it captures.
Capturing(m, g, type) ==
  /\ g.tick # "post"
  /\ g.capture = "none" => m.capture = "none"
  /\ g.pc = "post" => g.say \notin Closing
  /\ type = "start" /\ g.pc \in {"post", "ack"} => m.pc \in {"post", "ack"} \/ g.capture # "none"

\* At most report r is held back in addition.
Holding(pend, pq, r) ==
  \A k \in DOMAIN pq : pq[k] = r \/ \E j \in DOMAIN pend : pq[k] = pend[j]

\* The process goes on with its command, and may report r or hold it back.
LEMMA ProceedsServed ==
  ASSUME NEW m, NEW ap, NEW rs, NEW pend, NEW t, NEW rdy, NEW s, NEW early,
         NEW g, NEW aq, NEW pq, NEW r,
         ServedOK(m, ap, rs, pend, t, rdy, s, early),
         Onward(m, g), aq = ap \/ (aq = ap \cup {m.cmd} /\ g.pc = "ack"),
         Holding(pend, pq, r), r = "ready" => g.prepared,
         early => r \notin Closing /\ Capturing(m, g, rs[m.cmd].type)
  PROVE  ServedOK(g, aq, rs, pq, t, rdy, s, early)
<1>1. InTurn(g, aq, rs, t)
  <2>1. InTurn(m, ap, rs, t)
    BY DEF ServedOK
  <2>2. g.pc = "ack" => Handling(g)
    BY DEF Handling
  <2>3. m.pc = "ack" => Handling(m)
    BY DEF Handling
  <2>4. m.pc = "got" => Handling(m)
    BY DEF Handling
  <2>5. \A i \in aq : rs[i].acked \/ (g.pc = "ack" /\ g.cmd = i)
    BY <2>1, <2>2, <2>3 DEF InTurn, Onward
  <2>6. \A i \in DOMAIN rs : Outstanding(rs[i]) => rs[i].count >= Cap \/ (Handling(g) /\ g.cmd = i)
    BY <2>1 DEF InTurn, Onward
  <2>7. t = "past" => \A i \in DOMAIN rs : rs[i].type = "start" /\ ~rs[i].acked =>
                     rs[i].count > 0 /\ ~(g.pc = "got" /\ g.cmd = i)
    BY <2>1, <2>4 DEF InTurn, Onward
  <2> QED
    BY <2>1, <2>5, <2>6, <2>7 DEF InTurn, Onward
<1>2. PreparedOK(g, rs, pq, rdy, s)
  BY DEF ServedOK, PreparedOK, SaysReady, Onward, Holding
<1>3. ASSUME early
      PROVE  CapturingOK(g, rs, pq)
  <2>1. CapturingOK(m, rs, pend)
    BY <1>3 DEF ServedOK
  <2>2. ASSUME NEW i \in DOMAIN rs, rs[i].type = "start", DoneWith(g, rs, i)
        PROVE  g.capture # "none"
    <3>1. CASE rs[i].acked
      BY <1>3, <2>1, <2>2, <3>1 DEF CapturingOK, DoneWith, Capturing
    <3>2. CASE g.pc \in {"post", "ack"} /\ g.cmd = i
      <4>1. m.cmd = i
        BY <3>2 DEF Handling, Onward
      <4> QED
        BY <1>3, <2>1, <2>2, <3>2, <4>1 DEF CapturingOK, DoneWith, Capturing
    <3> QED
      BY <2>2, <3>1, <3>2 DEF DoneWith
  <2>3. g.pc = "got" /\ rs[g.cmd].type = "stop" => g.capture # "none"
    BY <1>3, <2>1 DEF CapturingOK, Handling, Onward, Capturing
  <2>4. \A k \in DOMAIN pq : pq[k] \notin Closing
    BY <1>3, <2>1 DEF CapturingOK, Holding
  <2> QED
    BY <1>3, <2>2, <2>3, <2>4 DEF CapturingOK, Capturing
<1> QED
  BY <1>1, <1>2, <1>3 DEF ServedOK

\* One process changes its memory, what it has done, and what it holds back.
LEMMA OneServed ==
  ASSUME Inv, NEW a \in Agent, NEW g, NEW aq, NEW pq,
         mem' = [mem EXCEPT ![a] = g], applied' = [applied EXCEPT ![a] = aq],
         pending' = [pending EXCEPT ![a] = pq], ReviewHasManifest',
         \A b \in Agent : b # a => ServedNext(b),
         ServedOK(g, aq, rows'[a], pq, t0', a \in ready', state', Early')
  PROVE  Served'
<1>1. /\ mem'[a] = g /\ applied'[a] = aq /\ pending'[a] = pq
      /\ \A b \in Agent : b # a => mem'[b] = mem[b] /\ applied'[b] = applied[b]
                                   /\ pending'[b] = pending[b]
  BY DEF Inv, MemTypes, RestTypes
<1>2. ASSUME NEW b \in Agent
      PROVE  ServedOK(mem'[b], applied'[b], rows'[b], pending'[b],
                      t0', b \in ready', state', Early')
  BY <1>1 DEF ServedNext
<1> QED
  BY <1>2 DEF Served

LEMMA GoesServed ==
  ASSUME Inv, ServedKept, NEW a \in Agent, NEW g, NEW aq, NEW pq, NEW r,
         mem' = [mem EXCEPT ![a] = g], applied' = [applied EXCEPT ![a] = aq],
         pending' = [pending EXCEPT ![a] = pq], Onward(mem[a], g),
         aq = applied[a] \/ (aq = applied[a] \cup {mem[a].cmd} /\ g.pc = "ack"),
         Holding(pending[a], pq, r), r = "ready" => g.prepared,
         Early' => r \notin Closing /\ Capturing(mem[a], g, rows'[a][mem[a].cmd].type)
  PROVE  Served'
<1>1. ServedOK(mem[a], applied[a], rows'[a], pending[a], t0', a \in ready', state', Early')
  BY DEF ServedKept, ServedNext
<1>2. ServedOK(g, aq, rows'[a], pq, t0', a \in ready', state', Early')
  BY <1>1, ProceedsServed
<1> QED
  BY <1>2, OneServed DEF ServedKept

\* The same, with nothing done and nothing held back.
LEMMA GoesOnServed ==
  ASSUME Inv, ServedKept, NEW a \in Agent, NEW g, mem' = [mem EXCEPT ![a] = g],
         UNCHANGED <<applied, pending>>, Onward(mem[a], g),
         Early' => Capturing(mem[a], g, rows'[a][mem[a].cmd].type)
  PROVE  Served'
<1>1. applied' = [applied EXCEPT ![a] = applied[a]] /\ pending' = [pending EXCEPT ![a] = pending[a]]
  BY DEF Inv, MemTypes, RestTypes
<1>2. "stray" # "ready" /\ "stray" \notin Closing
  BY DEF Closing
<1>3. Holding(pending[a], pending[a], "stray")
  BY DEF Holding
<1> QED
  BY <1>1, <1>2, <1>3, GoesServed

\* A handler ends with a step of its own, and reports nothing new.
LEMMA ReturnsServed ==
  ASSUME Inv, ServedKept, NEW a \in Agent, NEW x \in Memory, Returns(a, x), UNCHANGED pending,
         Handling(mem[a]), x.cmd = mem[a].cmd, x.prepared = mem[a].prepared, x.tick = mem[a].tick,
         x.capture = mem[a].capture,
         Early' => mem[a].pc = "post" \/ rows'[a][mem[a].cmd].type # "start"
  PROVE  Served'
<1> DEFINE g == [x EXCEPT !.pc = "ack", !.say = "none"]
           aq == applied[a] \cup {x.cmd}
<1>1. /\ g.pc = "ack" /\ g.say = "none" /\ g.cmd = x.cmd /\ g.prepared = x.prepared
      /\ g.tick = x.tick /\ g.capture = x.capture
  BY DEF Memory
<1>2. /\ mem' = [mem EXCEPT ![a] = g] /\ applied' = [applied EXCEPT ![a] = aq]
      /\ pending' = [pending EXCEPT ![a] = pending[a]]
  BY DEF Returns, Inv, MemTypes, RestTypes
<1>3. "stray" # "ready" /\ "stray" \notin Closing
  BY DEF Closing
<1>4. Holding(pending[a], pending[a], "stray")
  BY DEF Holding
<1>5. Early' => mem[a].tick # "post"
  BY DEF ServedKept, ServedNext, ServedOK, CapturingOK
<1> HIDE DEF g
<1>6. Onward(mem[a], g)
  BY <1>1 DEF Onward, Handling
<1>7. Early' => Capturing(mem[a], g, rows'[a][mem[a].cmd].type)
  BY <1>1, <1>5 DEF Capturing
<1> QED
  BY <1>1, <1>2, <1>3, <1>6, <1>7, <1>4, GoesServed

\* What is known of a command in hand.
LEMMA InHandServed ==
  ASSUME Inv, Served, NEW a \in Agent
  PROVE  /\ mem[a] \in Memory /\ mem \in [Agent -> Memory] /\ InHandOK(mem[a], rows[a])
         /\ InTurn(mem[a], applied[a], rows[a], t0)
         /\ PreparedOK(mem[a], rows[a], pending[a], a \in ready, state)
         /\ Early => CapturingOK(mem[a], rows[a], pending[a])
BY InHand DEF Served, ServedOK

\* Whether a report may be made.
Honest(m, r) == (Early => r \notin Closing) /\ (r = "ready" => m.prepared)

\* A report is served, and may be held back.
LEMMA ReportServed ==
  ASSUME Inv, Served, NEW a \in Agent, NEW r \in Report, report(a, r), Honest(mem[a], r)
  PROVE  /\ ServedKept
         /\ \E pq : Holding(pending[a], pq, r) /\ pending' = [pending EXCEPT ![a] = pq]
<1>1. ServedKept
  BY ExchangedServed DEF report, Honest
<1>2. CASE UNCHANGED pending
  <2>1. pending' = [pending EXCEPT ![a] = pending[a]]
    BY <1>2 DEF Inv, RestTypes
  <2>2. Holding(pending[a], pending[a], r)
    BY DEF Holding
  <2> QED
    BY <1>1, <2>1, <2>2
<1>3. CASE pending' = [pending EXCEPT ![a] = Append(@, r)]
  <2> DEFINE pq == Append(pending[a], r)
  <2>1. pending[a] \in Seq(Report) /\ pending' = [pending EXCEPT ![a] = pq]
    BY <1>3 DEF Inv, RestTypes
  <2>2. \A k \in DOMAIN pq : pq[k] = r \/ (k \in DOMAIN pending[a] /\ pq[k] = pending[a][k])
    BY <2>1
  <2> HIDE DEF pq
  <2>3. Holding(pending[a], pq, r)
    BY <2>2 DEF Holding
  <2> QED
    BY <1>1, <2>1, <2>3
<1> QED
  BY <1>1, <1>2, <1>3 DEF report

\* A handler comes to its report, with the memory x.
LEMMA SaysServed ==
  ASSUME Inv, ServedKept, NEW a \in Agent, NEW x \in Memory, NEW r \in Report,
         mem' = [mem EXCEPT ![a] = Saying(x, r)], UNCHANGED <<applied, pending>>,
         Handling(mem[a]), mem[a].pc # "ack", x.cmd = mem[a].cmd, x.tick = mem[a].tick,
         mem[a].prepared => x.prepared, r = "ready" => x.prepared,
         Early' => /\ r \notin Closing
                   /\ x.capture = "none" => mem[a].capture = "none"
                   /\ rows'[a][mem[a].cmd].type = "start" => x.capture # "none"
  PROVE  Served'
<1> DEFINE g == Saying(x, r)
<1>1. /\ g.pc = "post" /\ g.say = r /\ g.cmd = x.cmd /\ g.prepared = x.prepared
      /\ g.tick = x.tick /\ g.capture = x.capture
  BY DEF Memory, Saying
<1>2. mem' = [mem EXCEPT ![a] = g]
  OBVIOUS
<1>3. Early' => mem[a].tick # "post"
  BY DEF ServedKept, ServedNext, ServedOK, CapturingOK
<1> HIDE DEF g
<1>4. Onward(mem[a], g)
  BY <1>1 DEF Onward, Handling
<1>5. Early' => Capturing(mem[a], g, rows'[a][mem[a].cmd].type)
  BY <1>1, <1>3 DEF Capturing
<1> QED
  BY <1>2, <1>4, <1>5, GoesOnServed

\* A handler goes on within itself.
LEMMA WorksServed ==
  ASSUME Inv, ServedKept, NEW a \in Agent, NEW g \in Memory,
         mem' = [mem EXCEPT ![a] = g], UNCHANGED <<applied, pending>>,
         Handling(mem[a]), mem[a].pc # "ack",
         g.pc \in {"waitT0", "stopping", "aborting", "purge", "complete"},
         g.cmd = mem[a].cmd, g.tick = mem[a].tick, g.prepared = mem[a].prepared,
         Early' => (g.capture = "none" => mem[a].capture = "none")
  PROVE  Served'
<1>1. Early' => mem[a].tick # "post"
  BY DEF ServedKept, ServedNext, ServedOK, CapturingOK
<1>2. Onward(mem[a], g)
  BY DEF Onward, Handling
<1>3. Early' => Capturing(mem[a], g, rows'[a][mem[a].cmd].type)
  BY <1>1 DEF Capturing
<1> QED
  BY <1>2, <1>3, GoesOnServed

\* The handlers, up to the report that ends them.
LEMMA HandlesServed ==
  ASSUME Inv, Served, EveryRequestServed, NEW a \in Agent,
         \/ Duplicate(a) \/ prepare(a) \/ prepareRefuses(a) \/ captureStart(a)
         \/ captureStartFails(a) \/ stopCapture(a) \/ upload(a) \/ uploadFails(a) \/ abort(a)
  PROVE  Served'
<1> DEFINE m == mem[a]
<1>1. /\ m \in Memory /\ mem \in [Agent -> Memory] /\ InHandOK(m, rows[a])
      /\ InTurn(m, applied[a], rows[a], t0)
  BY InHandServed
<1>2. ServedKept /\ UNCHANGED <<api, pending>> /\ UNCHANGED applied /\ rows' = rows
  <2>1. UNCHANGED <<api, pending, applied>>
    BY DEF Duplicate, prepare, prepareRefuses, captureStart, captureStartFails, stopCapture,
           upload, uploadFails, abort, local
  <2> QED
    BY <2>1, IdleServed DEF api
<1>3. \A r : r \in {"ready", "recording", "refused", "detailed"} => r \in Report /\ r \notin Closing
  BY DEF Report, Closing
\* Nothing in hand was carried out before: an answer is never lost twice.
<1>4. CASE Duplicate(a)
  <2>1. m.pc = "got" /\ m.cmd \in applied[a] /\ Handling(m)
    BY <1>4 DEF Duplicate, Handling
  <2> QED
    BY <1>1, <2>1 DEF InTurn
<1>5. CASE prepare(a)
  <2> DEFINE x == [m EXCEPT !.sessionId = TRUE, !.prepared = TRUE]
  <2>1. /\ x \in Memory /\ x.cmd = m.cmd /\ x.capture = m.capture /\ x.prepared /\ x.tick = m.tick
    BY <1>1 DEF Memory
  <2>2. /\ mem' = [mem EXCEPT ![a] = Saying(x, "ready")] /\ Handling(m) /\ m.pc = "got"
        /\ rows[a][m.cmd].type = "prepare"
    BY <1>5 DEF prepare, Holds, Handling
  <2> HIDE DEF x
  <2> QED
    BY <1>2, <1>3, <2>1, <2>2, SaysServed
<1>6. CASE prepareRefuses(a)
  <2>1. PICK r \in {"refused", "detailed"} : mem' = [mem EXCEPT ![a] = Saying(m, r)]
    BY <1>6 DEF prepareRefuses
  <2>2. Handling(m) /\ m.pc = "got" /\ rows[a][m.cmd].type = "prepare"
    BY <1>6 DEF prepareRefuses, Holds, Handling
  <2> QED
    BY <1>1, <1>2, <1>3, <2>1, <2>2, SaysServed
<1>7. CASE captureStart(a) \/ captureStartFails(a)
  <2>1. PICK c \in {"running", "dead"}, r \in {"recording", "detailed"} :
          mem' = [mem EXCEPT ![a] = Saying([m EXCEPT !.capture = c], r)]
    BY <1>7 DEF captureStart, captureStartFails
  <2> DEFINE x == [m EXCEPT !.capture = c]
  <2>2. /\ x \in Memory /\ x.cmd = m.cmd /\ x.capture # "none" /\ x.prepared = m.prepared
        /\ x.tick = m.tick
    BY <1>1 DEF Memory
  <2>3. Handling(m) /\ m.pc = "waitT0" /\ mem' = [mem EXCEPT ![a] = Saying(x, r)]
    BY <1>7, <2>1 DEF captureStart, captureStartFails, Handling
  <2> HIDE DEF x
  <2> QED
    BY <1>2, <1>3, <2>2, <2>3, SaysServed
<1>8. CASE stopCapture(a)
  <2> DEFINE g == [m EXCEPT !.pc = "stopping", !.capture = "stopping"]
  <2>1. /\ g \in Memory /\ g.pc = "stopping" /\ g.cmd = m.cmd /\ g.capture = "stopping"
        /\ g.prepared = m.prepared /\ g.tick = m.tick
    BY <1>1 DEF Memory
  <2>2. mem' = [mem EXCEPT ![a] = g] /\ m.pc = "got" /\ Handling(m)
    BY <1>1, <1>8 DEF stopCapture, Holds, Handling
  <2> HIDE DEF g
  <2> QED
    BY <1>2, <2>1, <2>2, WorksServed
<1>9. CASE upload(a)
  <2> DEFINE g == [m EXCEPT !.pc = "complete"]
  <2>1. /\ g \in Memory /\ g.pc = "complete" /\ g.cmd = m.cmd /\ g.capture = m.capture
        /\ g.prepared = m.prepared /\ g.tick = m.tick
    BY <1>1 DEF Memory
  <2>2. mem' = [mem EXCEPT ![a] = g] /\ m.pc = "got" /\ Handling(m)
    BY <1>9 DEF upload, Holds, Handling
  <2> HIDE DEF g
  <2> QED
    BY <1>2, <2>1, <2>2, WorksServed
<1>10. CASE uploadFails(a)
  <2>1. /\ mem' = [mem EXCEPT ![a] = Saying(m, "detailed")]
        /\ Handling(m) /\ m.pc = "got" /\ rows[a][m.cmd].type = "upload"
    BY <1>10 DEF uploadFails, Holds, Handling
  <2> QED
    BY <1>1, <1>2, <1>3, <2>1, SaysServed
<1>11. CASE abort(a)
  <2> DEFINE g == IF m.capture = "running"
                  THEN [m EXCEPT !.pc = "aborting", !.capture = "stopping"]
                  ELSE [m EXCEPT !.pc = "purge"]
  <2>1. /\ g \in Memory /\ g.pc \in {"aborting", "purge"} /\ g.cmd = m.cmd
        /\ g.capture = "none" => m.capture = "none"
        /\ g.prepared = m.prepared /\ g.tick = m.tick
    BY <1>1 DEF Memory
  <2>2. mem' = [mem EXCEPT ![a] = g] /\ m.pc = "got" /\ Handling(m)
    BY <1>11 DEF abort, Holds, Handling
  <2> HIDE DEF g
  <2> QED
    BY <1>2, <2>1, <2>2, WorksServed
<1> QED
  BY <1>4, <1>5, <1>6, <1>7, <1>8, <1>9, <1>10, <1>11

\* A start in hand is in time, and the process that has it is the one that
\* prepared: it is never refused.
LEMMA StartsServed ==
  ASSUME Inv, Served, NEW a \in Agent, start(a)
  PROVE  Served'
<1> DEFINE m == mem[a]
           w == [m EXCEPT !.pc = "waitT0", !.sessionId = TRUE, !.uploadPrefix = TRUE]
<1>1. /\ m \in Memory /\ mem \in [Agent -> Memory] /\ InHandOK(m, rows[a])
      /\ InTurn(m, applied[a], rows[a], t0)
      /\ PreparedOK(m, rows[a], pending[a], a \in ready, state)
  BY InHandServed
<1>2. m.pc = "got" /\ Handling(m) /\ rows[a][m.cmd].type = "start" /\ UNCHANGED <<api, applied, pending>>
  BY DEF start, Holds, Handling, local
<1>3. m.cmd \in DOMAIN rows[a] /\ ~rows[a][m.cmd].acked
  BY <1>1, <1>2 DEF InHandOK, InTurn
<1>4. t0 # "past" /\ m.prepared
  BY <1>1, <1>2, <1>3 DEF InTurn, PreparedOK, HasStart
<1>5. mem' = [mem EXCEPT ![a] = w]
  BY <1>4 DEF start
<1>6. /\ w \in Memory /\ w.pc = "waitT0" /\ w.cmd = m.cmd /\ w.capture = m.capture
      /\ w.prepared = m.prepared /\ w.tick = m.tick
  BY <1>1 DEF Memory
<1>7. ServedKept
  BY <1>2, IdleServed
<1> HIDE DEF w
<1> QED
  BY <1>2, <1>5, <1>6, <1>7, WorksServed

\* The handlers that end a capture: where there is one they post its manifest,
\* and where there is none the agent was not recording.
LEMMA EndsServed ==
  ASSUME Inv, Served, EveryRequestServed, NEW a \in Agent,
         stopCaptureEnds(a) \/ stopIdle(a) \/ abortCaptureEnds(a)
  PROVE  Served'
<1> DEFINE m == mem[a]
<1>1. /\ m \in Memory /\ mem \in [Agent -> Memory] /\ InHandOK(m, rows[a])
      /\ Early => CapturingOK(m, rows[a], pending[a])
  BY InHandServed
<1>2. CASE stopCaptureEnds(a)
  <2>1. ServedKept /\ ~Early' /\ m.pc = "stopping" /\ Handling(m) /\ UNCHANGED <<applied, pending>>
    BY <1>2, ManifestServed DEF stopCaptureEnds, Handling, local
  <2> DEFINE x == [m EXCEPT !.capture = "none"]
  <2>2. /\ x \in Memory /\ x.cmd = m.cmd /\ x.prepared = m.prepared /\ x.tick = m.tick
        /\ x.pc = m.pc
    BY <1>1 DEF Memory
  <2>3. mem' = [mem EXCEPT ![a] = AfterStop(x)] /\ "stopped" \in Report /\ "stopped" # "ready"
    BY <1>2 DEF stopCaptureEnds, Report
  <2> HIDE DEF x
  <2>4. CASE x.sessionId
    BY <2>1, <2>2, <2>3, <2>4, SaysServed DEF AfterStop
  <2>5. CASE ~x.sessionId
    BY <2>1, <2>2, <2>3, <2>5, WorksServed DEF AfterStop
  <2> QED
    BY <2>4, <2>5
<1>3. CASE stopIdle(a)
  <2>1. /\ m.pc = "got" /\ Handling(m) /\ rows[a][m.cmd].type = "stop" /\ m.capture = "none"
        /\ UNCHANGED <<api, pending>>
    BY <1>3 DEF stopIdle, Holds, Handling
  <2>2. ServedKept /\ ~Early'
    BY <1>1, <2>1, IdleServed DEF ServedKept, CapturingOK
  <2>3. CASE m.sessionId
    <3>1. mem' = [mem EXCEPT ![a] = Saying(m, "stopped")] /\ UNCHANGED applied
          /\ "stopped" \in Report /\ "stopped" # "ready"
      BY <1>3, <2>3 DEF stopIdle, AfterStop, Report
    <3> QED
      BY <1>1, <2>1, <2>2, <3>1, SaysServed
  <2>4. CASE ~m.sessionId
    BY <1>1, <1>3, <2>1, <2>2, <2>4, ReturnsServed DEF stopIdle
  <2> QED
    BY <2>3, <2>4
<1>4. CASE abortCaptureEnds(a)
  <2>1. ServedKept /\ ~Early' /\ m.pc = "aborting" /\ Handling(m) /\ UNCHANGED <<applied, pending>>
    BY <1>4, ManifestServed DEF abortCaptureEnds, Handling, local
  <2> DEFINE g == [m EXCEPT !.pc = "purge", !.capture = "none"]
  <2>2. /\ g \in Memory /\ g.pc = "purge" /\ g.cmd = m.cmd /\ g.prepared = m.prepared
        /\ g.tick = m.tick
    BY <1>1 DEF Memory
  <2>3. mem' = [mem EXCEPT ![a] = g]
    BY <1>1, <1>4 DEF abortCaptureEnds
  <2> HIDE DEF g
  <2> QED
    BY <2>1, <2>2, <2>3, WorksServed
<1> QED
  BY <1>2, <1>3, <1>4

\* The last step of a handler.
LEMMA EndsHandlerServed ==
  ASSUME Inv, Served, NEW a \in Agent,
         completeUpload(a) \/ completeUploadFails(a) \/ purge(a) \/ PostStatus(a)
  PROVE  Served'
<1> DEFINE m == mem[a]
<1>1. /\ m \in Memory /\ mem \in [Agent -> Memory] /\ InHandOK(m, rows[a])
      /\ PreparedOK(m, rows[a], pending[a], a \in ready, state)
      /\ Early => CapturingOK(m, rows[a], pending[a])
  BY InHandServed
<1>2. CASE completeUpload(a)
  <2>1. m.pc = "complete" /\ Handling(m) /\ Returns(a, m) /\ UNCHANGED pending
    BY <1>2 DEF completeUpload, Handling
  <2>2. ServedKept /\ rows' = rows
    BY <1>2, StoredServed DEF completeUpload, MarkStored
  <2>3. rows[a][m.cmd].type = "upload"
    BY <1>1, <2>1 DEF InHandOK
  <2> QED
    BY <1>1, <2>1, <2>2, <2>3, ReturnsServed
<1>3. CASE completeUploadFails(a)
  <2>1. /\ m.pc = "complete" /\ Handling(m) /\ mem' = [mem EXCEPT ![a] = Saying(m, "detailed")]
        /\ UNCHANGED <<applied, pending>>
    BY <1>3 DEF completeUploadFails, Handling, local
  <2>2. ServedKept /\ rows' = rows
    BY <1>3, StoredServed, IdleServed DEF completeUploadFails, MarkStored, api
  <2>3. rows[a][m.cmd].type = "upload" /\ "detailed" \in Report /\ "detailed" \notin Closing
    BY <1>1, <2>1 DEF InHandOK, Report, Closing
  <2> QED
    BY <1>1, <2>1, <2>2, <2>3, SaysServed
<1>4. CASE purge(a)
  <2> DEFINE x == [m EXCEPT !.sessionId = FALSE, !.uploadPrefix = FALSE]
  <2>1. /\ x \in Memory /\ x.cmd = m.cmd /\ x.capture = m.capture /\ x.prepared = m.prepared
        /\ x.tick = m.tick
    BY <1>1 DEF Memory
  <2>2. m.pc = "purge" /\ Handling(m) /\ Returns(a, x) /\ UNCHANGED <<api, pending>>
    BY <1>4 DEF purge, Handling
  <2>3. ServedKept /\ rows' = rows
    BY <2>2, IdleServed DEF api
  <2>4. rows[a][m.cmd].type = "abort"
    BY <1>1, <2>2 DEF InHandOK
  <2> HIDE DEF x
  <2> QED
    BY <2>1, <2>2, <2>3, <2>4, ReturnsServed
<1>5. CASE PostStatus(a)
  <2>1. m.pc = "post" /\ Handling(m) /\ Returns(a, m) /\ m.say \in Report /\ report(a, m.say)
    BY <1>1, <1>5 DEF PostStatus, Handling, InHandOK
  <2>2. Honest(m, m.say)
    BY <1>1, <2>1 DEF Honest, CapturingOK, PreparedOK, SaysReady
  <2>3. PICK pq : /\ ServedKept
                  /\ Holding(pending[a], pq, m.say) /\ pending' = [pending EXCEPT ![a] = pq]
    BY <2>1, <2>2, ReportServed
  <2> DEFINE g == [m EXCEPT !.pc = "ack", !.say = "none"]
             aq == applied[a] \cup {m.cmd}
  <2>4. /\ g.pc = "ack" /\ g.say = "none" /\ g.cmd = m.cmd /\ g.prepared = m.prepared
        /\ g.tick = m.tick /\ g.capture = m.capture
    BY <1>1 DEF Memory
  <2>5. mem' = [mem EXCEPT ![a] = g] /\ applied' = [applied EXCEPT ![a] = aq]
    BY <2>1 DEF Returns, Inv, MemTypes
  <2> HIDE DEF g
  <2>6. Onward(m, g)
    BY <2>1, <2>4 DEF Onward, Handling
  <2>7. Early' => Early
    BY <2>3 DEF ServedKept
  <2>8. Early' => m.say \notin Closing /\ Capturing(m, g, rows'[a][m.cmd].type)
    BY <1>1, <2>1, <2>4, <2>7 DEF Capturing, CapturingOK
  <2>9. m.say = "ready" => g.prepared
    BY <2>2, <2>4 DEF Honest
  <2> QED
    BY <2>3, <2>4, <2>5, <2>6, <2>8, <2>9, GoesServed
<1> QED
  BY <1>2, <1>3, <1>4, <1>5

\* The tick loop, the ffmpeg processes, and the life of the agent's process.
LEMMA TicksServed ==
  ASSUME Inv, Served, EveryRequestServed, NEW a \in Agent,
         TickLoop(a) \/ flushPending(a) \/ captureDies(a) \/ crash(a) \/ restart(a)
  PROVE  Served'
<1> DEFINE m == mem[a]
<1>1. m \in Memory /\ mem \in [Agent -> Memory]
  BY InHandServed
<1>2. /\ InTurn(m, applied[a], rows[a], t0)
      /\ PreparedOK(m, rows[a], pending[a], a \in ready, state)
      /\ Early => CapturingOK(m, rows[a], pending[a])
  BY InHandServed
\* Only the tick loop moves, and perhaps the capture ends.
<1>3. ASSUME ServedKept, NEW g, NEW pq, NEW r, g.pc = m.pc, g.cmd = m.cmd, g.say = m.say,
             g.prepared = m.prepared, mem' = [mem EXCEPT ![a] = g], UNCHANGED applied,
             pending' = [pending EXCEPT ![a] = pq], Holding(pending[a], pq, r), r # "ready",
             Early' => /\ g.tick # "post" /\ r \notin Closing
                       /\ g.capture = m.capture \/ g.capture # "none"
      PROVE  Served'
  <2>1. applied' = [applied EXCEPT ![a] = applied[a]]
    BY <1>3 DEF Inv, MemTypes
  <2>2. Early' => CapturingOK(m, rows[a], pending[a])
    BY <1>2, <1>3 DEF ServedKept
  <2> HIDE DEF m
  <2>3. Onward(m, g)
    BY <1>2, <1>3 DEF Onward, Handling, InTurn, PreparedOK, SaysReady
  <2>4. Early' => r \notin Closing /\ Capturing(m, g, rows'[a][m.cmd].type)
    BY <1>3, <2>2 DEF Capturing, CapturingOK
  <2> QED
    BY <1>3, <2>1, <2>3, <2>4, GoesServed DEF m
<1>4. /\ pending' = pending => pending' = [pending EXCEPT ![a] = pending[a]]
      /\ Holding(pending[a], pending[a], "stray")
      /\ "stray" \in Report /\ "low" \in Report /\ "stray" \notin Closing
  BY <1>2 DEF Inv, RestTypes, Holding, Report, Closing
<1>5. CASE tickDiskFloor(a)
  <2> DEFINE g == [m EXCEPT !.tick = "stopping", !.capture = "stopping"]
  <2>0. /\ g.pc = m.pc /\ g.cmd = m.cmd /\ g.say = m.say /\ g.prepared = m.prepared
        /\ g.tick = "stopping" /\ g.capture = "stopping"
    BY <1>1 DEF Memory
  <2>1. mem' = [mem EXCEPT ![a] = g] /\ UNCHANGED <<api, applied, pending>>
    BY <1>1, <1>5 DEF tickDiskFloor
  <2> HIDE DEF g
  <2> QED
    BY <1>3, <1>4, <2>0, <2>1, IdleServed
<1>6. CASE tickStopEnds(a)
  <2> DEFINE g == [m EXCEPT !.tick = "post", !.capture = "none"]
  <2>0. /\ g.pc = m.pc /\ g.cmd = m.cmd /\ g.say = m.say /\ g.prepared = m.prepared
        /\ g.tick = "post" /\ g.capture = "none"
    BY <1>1 DEF Memory
  <2>1. mem' = [mem EXCEPT ![a] = g] /\ UNCHANGED <<applied, pending>>
    BY <1>1, <1>6 DEF tickStopEnds, local
  <2> HIDE DEF g
  <2>2. ServedKept /\ ~Early'
    BY <1>6, ManifestServed DEF tickStopEnds
  <2> QED
    BY <1>3, <1>4, <2>0, <2>1, <2>2
<1>7. CASE tickPost(a)
  <2>1. PICK r \in {"low", "stray"} : report(a, r)
    BY <1>7 DEF tickPost
  <2> DEFINE g == [m EXCEPT !.tick = "idle"]
  <2>0. /\ g.pc = m.pc /\ g.cmd = m.cmd /\ g.say = m.say /\ g.prepared = m.prepared
        /\ g.tick = "idle" /\ g.capture = m.capture
    BY <1>1 DEF Memory
  <2>2. mem' = [mem EXCEPT ![a] = g] /\ UNCHANGED applied /\ m.tick = "post"
    BY <1>1, <1>7 DEF tickPost
  <2> HIDE DEF g
  <2>3. ~Early /\ Honest(m, r)
    BY <1>2, <2>2 DEF Honest, CapturingOK
  <2>4. PICK pq : /\ ServedKept
                  /\ Holding(pending[a], pq, r) /\ pending' = [pending EXCEPT ![a] = pq]
    BY <1>4, <2>1, <2>3, ReportServed
  <2>5. ~Early'
    BY <2>3, <2>4 DEF ServedKept
  <2> QED
    BY <1>3, <2>0, <2>2, <2>4, <2>5
<1>8. CASE tickSweep(a)
  <2> DEFINE g == [m EXCEPT !.tick = "sweeping"]
  <2>0. /\ g.pc = m.pc /\ g.cmd = m.cmd /\ g.say = m.say /\ g.prepared = m.prepared
        /\ g.tick = "sweeping" /\ g.capture = m.capture
    BY <1>1 DEF Memory
  <2>1. mem' = [mem EXCEPT ![a] = g] /\ UNCHANGED <<api, applied, pending>>
    BY <1>1, <1>8 DEF tickSweep, local
  <2> HIDE DEF g
  <2> QED
    BY <1>3, <1>4, <2>0, <2>1, IdleServed
<1>9. CASE tickSweepEnds(a)
  <2> DEFINE g == [m EXCEPT !.tick = "idle"]
  <2>0. /\ g.pc = m.pc /\ g.cmd = m.cmd /\ g.say = m.say /\ g.prepared = m.prepared
        /\ g.tick = "idle" /\ g.capture = m.capture
    BY <1>1 DEF Memory
  <2>1. mem' = [mem EXCEPT ![a] = g] /\ UNCHANGED applied
    BY <1>1, <1>9 DEF tickSweepEnds
  <2> HIDE DEF g
  <2>2. CASE UNCHANGED <<api, pending>>
    BY <1>3, <1>4, <2>0, <2>1, <2>2, IdleServed
  <2>3. CASE report(a, "stray")
    <3>1. Honest(m, "stray")
      BY <1>4 DEF Honest
    <3>2. PICK pq : /\ ServedKept
                    /\ Holding(pending[a], pq, "stray") /\ pending' = [pending EXCEPT ![a] = pq]
      BY <1>4, <2>3, <3>1, ReportServed
    <3> QED
      BY <1>3, <1>4, <2>0, <2>1, <3>2
  <2> QED
    BY <1>9, <2>2, <2>3 DEF tickSweepEnds
<1>10. CASE flushPending(a)
  <2> DEFINE p == pending[a]
             r == Head(p)
  <2>1. p \in Seq(Report) /\ p # <<>>
    BY <1>10 DEF flushPending, Inv, RestTypes
  <2>2. r \in Report /\ r = p[1] /\ 1 \in DOMAIN p
    BY <2>1
  <2>3. Honest(m, r)
    BY <1>2, <2>2 DEF Honest, CapturingOK, PreparedOK, SaysReady
  <2>4. ServedKept
    BY <1>10, <2>2, <2>3, ExchangedServed DEF flushPending, Honest
  <2>5. PICK pq : pending' = [pending EXCEPT ![a] = pq] /\ (pq = p \/ pq = Tail(p))
    BY <1>10 DEF flushPending, Inv, RestTypes
  <2>6. Holding(p, pq, "stray")
    <3>1. \A k \in DOMAIN Tail(p) : k + 1 \in DOMAIN p /\ Tail(p)[k] = p[k + 1]
      BY <2>1
    <3> QED
      BY <2>5, <3>1 DEF Holding
  <2>7. mem' = [mem EXCEPT ![a] = m] /\ UNCHANGED applied
    BY <1>1, <1>10 DEF flushPending
  <2>8. Early' => m.tick # "post"
    BY <1>2, <2>4 DEF ServedKept, CapturingOK
  <2> HIDE DEF m, p, r
  <2> QED
    BY <1>3, <1>4, <2>4, <2>5, <2>6, <2>7, <2>8 DEF p
<1>11. CASE captureDies(a)
  <2> DEFINE g == [m EXCEPT !.capture = "dead"]
  <2>0. /\ g.pc = m.pc /\ g.cmd = m.cmd /\ g.say = m.say /\ g.prepared = m.prepared
        /\ g.tick = m.tick /\ g.capture = "dead"
    BY <1>1 DEF Memory
  <2>1. mem' = [mem EXCEPT ![a] = g] /\ UNCHANGED <<api, applied, pending>>
    BY <1>1, <1>11 DEF captureDies, local
  <2> HIDE DEF g
  <2>2. ServedKept
    BY <2>1, IdleServed
  <2>3. Early' => m.tick # "post"
    BY <1>2, <2>2 DEF ServedKept, CapturingOK
  <2> QED
    BY <1>3, <1>4, <2>0, <2>1, <2>2, <2>3
<1>12. CASE crash(a) \/ restart(a)
  BY <1>2, <1>12 DEF crash, restart, EveryRequestServed, InTurn
<1> QED
  BY <1>5, <1>6, <1>7, <1>8, <1>9, <1>10, <1>11, <1>12 DEF TickLoop, TickStop

-----------------------------------------------------------------------------
\* Rows of one agent

\* Rows are marked: leases end and commands are closed.
Marking(rs, q) ==
  /\ DOMAIN q = DOMAIN rs
  /\ \A i \in DOMAIN rs : /\ q[i].type = rs[i].type /\ q[i].count = rs[i].count
                          /\ q[i].leased => rs[i].leased
                          /\ rs[i].acked => q[i].acked

\* The process goes on as it was, or its command is closed.
Closes(m, g, rs, q) ==
  /\ g.prepared = m.prepared /\ g.capture = m.capture /\ g.tick = m.tick
  /\ \/ g = m /\ \A i \in DOMAIN rs : q[i].acked => rs[i].acked \/ ~Handling(m)
     \/ m.pc = "ack" /\ g.pc = "idle" /\ q[m.cmd].acked

\* A start is closed by an agent that is done with it.
StartsCarriedOut(m, rs, q) ==
  \A i \in DOMAIN rs : q[i].acked /\ rs[i].type = "start" =>
                       rs[i].acked \/ (m.pc = "ack" /\ m.cmd = i)

LEMMA MarkedServed ==
  ASSUME NEW m, NEW ap, NEW rs, NEW n, NEW pend, NEW t, NEW rdy, NEW s, NEW early,
         NEW q, NEW g,
         AgentOK(m, ap, rs, n, t), ServedOK(m, ap, rs, pend, t, rdy, s, early),
         Marking(rs, q), Closes(m, g, rs, q),
         early => StartsCarriedOut(m, rs, q)
  PROVE  ServedOK(g, ap, q, pend, t, rdy, s, early)
<1>1. InTurn(m, ap, rs, t) /\ ap \subseteq DOMAIN rs /\ (Handling(m) => m.cmd \in DOMAIN rs)
  BY DEF ServedOK, AgentOK, AgentTypes, InHandOK
<1>2. InTurn(g, ap, q, t)
  <2>1. CASE g = m /\ \A i \in DOMAIN rs : q[i].acked => rs[i].acked \/ ~Handling(m)
    <3>1. \A i \in DOMAIN q : Outstanding(q[i]) => Outstanding(rs[i])
      BY DEF Outstanding, Marking
    <3>2. Handling(g) => ~q[g.cmd].acked
      BY <1>1, <2>1 DEF InTurn, Marking
    <3> QED
      BY <1>1, <2>1, <3>1, <3>2 DEF InTurn, Marking
  <2>2. CASE m.pc = "ack" /\ g.pc = "idle" /\ q[m.cmd].acked
    <3>1. ~Handling(g) /\ Handling(m)
      BY <2>2 DEF Handling
    <3>2. \A i \in DOMAIN q : Outstanding(q[i]) => Outstanding(rs[i]) /\ i # m.cmd
      BY <2>2 DEF Outstanding, Marking
    <3> QED
      BY <1>1, <2>2, <3>1, <3>2 DEF InTurn, Marking
  <2> QED
    BY <2>1, <2>2 DEF Closes
<1>3. HasStart(q) <=> HasStart(rs)
  BY DEF HasStart, Marking
<1>4. SaysReady(g, pend) => SaysReady(m, pend)
  BY DEF SaysReady, Closes
<1>5. PreparedOK(g, q, pend, rdy, s)
  BY <1>3, <1>4 DEF ServedOK, PreparedOK, Closes
<1>6. ASSUME early
      PROVE  CapturingOK(g, q, pend)
  <2>1. CapturingOK(m, rs, pend)
    BY <1>6 DEF ServedOK
  <2>2. ASSUME NEW i \in DOMAIN q, q[i].type = "start", DoneWith(g, q, i)
        PROVE  DoneWith(m, rs, i)
    BY <1>6, <2>2 DEF DoneWith, Marking, Closes, StartsCarriedOut
  <2>3. \A i \in DOMAIN q : q[i].type = "start" /\ DoneWith(g, q, i) => g.capture # "none"
    BY <2>1, <2>2 DEF CapturingOK, Marking, Closes
  <2>4. g.pc = "got" /\ q[g.cmd].type = "stop" => g.capture # "none"
    BY <1>1, <2>1 DEF CapturingOK, Handling, Marking, Closes
  <2>5. g.pc = "post" => g.say \notin Closing
    BY <2>1 DEF CapturingOK, Closes
  <2> QED
    BY <2>1, <2>3, <2>4, <2>5 DEF CapturingOK, Closes
<1> QED
  BY <1>2, <1>5, <1>6 DEF ServedOK

\* Of the other agents nothing changed that they depend on.
LEMMA Others ==
  ASSUME Served, NEW a \in Agent, \A b \in Agent : b # a => rows'[b] = rows[b],
         UNCHANGED t0, ready' \subseteq ready, Early' => Early,
         state' \in {"recording", "stopping"} => state \in {"recording", "stopping"}
  PROVE  \A b \in Agent : b # a => ServedNext(b)
<1> SUFFICES ASSUME NEW b \in Agent, b # a
             PROVE  ServedNext(b)
  OBVIOUS
<1>1. ServedOK(mem[b], applied[b], rows[b], pending[b], t0, b \in ready, state, Early)
  BY DEF Served
<1>2. ServedOK(mem[b], applied[b], rows[b], pending[b], t0, b \in ready', state', Early')
  BY <1>1 DEF ServedOK, PreparedOK
<1> QED
  BY <1>2 DEF ServedNext

\* The rows of one agent are marked, and its process may close its command.
LEMMA MarksServed ==
  ASSUME Inv, Served, NEW a \in Agent, NEW q, NEW g, rows' = [rows EXCEPT ![a] = q],
         mem' = [mem EXCEPT ![a] = g], UNCHANGED <<applied, pending, t0, manifests>>,
         ready' \subseteq ready, state' \in {state, "failed"},
         Marking(rows[a], q), Closes(mem[a], g, rows[a], q),
         Early' => StartsCarriedOut(mem[a], rows[a], q)
  PROVE  Served'
<1>1. rows'[a] = q /\ \A b \in Agent : b # a => rows'[b] = rows[b]
  BY DEF Inv, ApiTypes
<1>2. (Early' => Early) /\ ReviewHasManifest'
  BY DEF Served, Early, Absent, ReviewHasManifest
<1>3. \A b \in Agent : b # a => ServedNext(b)
  BY <1>1, <1>2, Others
<1>4. /\ AgentOK(mem[a], applied[a], rows[a], captures[a], t0)
      /\ ServedOK(mem[a], applied[a], rows[a], pending[a], t0, a \in ready, state, Early)
  BY DEF Inv, Agents, Served
<1>5. ServedOK(mem[a], applied[a], rows[a], pending[a], t0, a \in ready', state', Early')
  BY <1>2, <1>4 DEF ServedOK, PreparedOK
<1>6. ServedOK(g, applied[a], q, pending[a], t0, a \in ready', state', Early')
  BY <1>4, <1>5, MarkedServed
<1>7. ServedOK(g, applied[a], rows'[a], pending[a], t0', a \in ready', state', Early')
  BY <1>1, <1>6
<1>8. applied' = [applied EXCEPT ![a] = applied[a]] /\ pending' = [pending EXCEPT ![a] = pending[a]]
  BY DEF Inv, MemTypes, RestTypes
<1> QED
  BY ONLY Inv, a \in Agent, mem' = [mem EXCEPT ![a] = g], <1>2, <1>3, <1>7, <1>8, OneServed

\* A session whose command is given up on while a recording is due is failed.
LEMMA SweptServed ==
  ASSUME Inv, Served, NEW a \in Agent, SweepAbandoned(a)
  PROVE  Served'
<1> DEFINE q == [i \in DOMAIN rows[a] |->
                   IF i \in abandoned(a) THEN [rows[a][i] EXCEPT !.acked = TRUE] ELSE rows[a][i]]
<1>1. rows \in [Agent -> Seq(Row)] /\ rows[a] \in Seq(Row) /\ mem \in [Agent -> Memory]
  BY DEF Inv, ApiTypes, MemTypes
<1>2. rows' = [rows EXCEPT ![a] = q]
  BY <1>1 DEF SweepAbandoned
<1>3. \A i \in DOMAIN rows[a] : /\ q[i].type = rows[a][i].type /\ q[i].count = rows[a][i].count
                                /\ q[i].leased = rows[a][i].leased
                                /\ rows[a][i].acked => q[i].acked
  <2> SUFFICES ASSUME NEW i \in DOMAIN rows[a]
               PROVE  /\ q[i].type = rows[a][i].type /\ q[i].count = rows[a][i].count
                      /\ q[i].leased = rows[a][i].leased
                      /\ rows[a][i].acked => q[i].acked
    OBVIOUS
  <2>1. rows[a][i] \in Row
    BY <1>1
  <2> QED
    BY <2>1 DEF Row
<1>4. DOMAIN q = DOMAIN rows[a]
  OBVIOUS
<1> HIDE DEF q
<1>5. /\ ready' \subseteq ready /\ state' \in {state, "failed"} /\ mem' = [mem EXCEPT ![a] = mem[a]]
      /\ UNCHANGED <<applied, pending, t0, manifests>> /\ ~Handling(mem[a])
  BY <1>1 DEF SweepAbandoned, local, Handling
<1>6. ASSUME Early', NEW i \in DOMAIN rows[a]
      PROVE  rows[a][i].type # "start"
  <2>1. state = Absent
    BY <1>6 DEF SweepAbandoned, Early, canFail, isLegalTransition, LEGAL, Absent
  <2> QED
    BY <1>6, <2>1 DEF Inv, ApiOK
<1>7. Marking(rows[a], q) /\ Closes(mem[a], mem[a], rows[a], q)
  BY <1>3, <1>4, <1>5 DEF Marking, Closes
<1>8. Early' => StartsCarriedOut(mem[a], rows[a], q)
  BY <1>6 DEF StartsCarriedOut
<1> QED
  BY <1>2, <1>5, <1>7, <1>8, MarksServed

LEMMA LeasedServed ==
  ASSUME Inv, Served, NEW a \in Agent, NEW i \in DOMAIN rows[a], LeaseExpires(a, i)
  PROVE  Served'
<1> DEFINE q == [rows[a] EXCEPT ![i] = [rows[a][i] EXCEPT !.leased = FALSE]]
<1>1. rows \in [Agent -> Seq(Row)] /\ rows[a] \in Seq(Row) /\ rows[a][i] \in Row
      /\ mem \in [Agent -> Memory]
  BY DEF Inv, ApiTypes, MemTypes
<1>2. rows' = [rows EXCEPT ![a] = q]
  BY <1>1 DEF LeaseExpires
<1>3. /\ DOMAIN q = DOMAIN rows[a]
      /\ \A j \in DOMAIN rows[a] : q[j] = IF j = i THEN [rows[a][i] EXCEPT !.leased = FALSE]
                                                    ELSE rows[a][j]
  BY <1>1
<1>4. \A j \in DOMAIN rows[a] : /\ q[j].type = rows[a][j].type /\ q[j].count = rows[a][j].count
                                /\ q[j].leased => rows[a][j].leased
                                /\ q[j].acked = rows[a][j].acked
  BY <1>1, <1>3 DEF Row
<1> HIDE DEF q
<1>5. /\ UNCHANGED <<state, ready, applied, pending, t0, manifests>>
      /\ mem' = [mem EXCEPT ![a] = mem[a]]
  BY <1>1 DEF LeaseExpires, local
<1>6. /\ Marking(rows[a], q) /\ Closes(mem[a], mem[a], rows[a], q)
      /\ StartsCarriedOut(mem[a], rows[a], q)
  BY <1>3, <1>4 DEF Marking, Closes, StartsCarriedOut
<1> QED
  BY <1>2, <1>5, <1>6, MarksServed

LEMMA AcksServed ==
  ASSUME Inv, Served, EveryRequestServed, NEW a \in Agent, NEW ok \in BOOLEAN, Ack(a, ok)
  PROVE  Served'
<1> DEFINE g == [mem[a] EXCEPT !.pc = "idle", !.cmd = 0]
           i == mem[a].cmd
           q == [rows[a] EXCEPT ![i] = [rows[a][i] EXCEPT !.acked = TRUE]]
<1>1. /\ mem[a] \in Memory /\ mem \in [Agent -> Memory] /\ InHandOK(mem[a], rows[a])
      /\ mem[a].pc = "ack" /\ Handling(mem[a]) /\ ok
  BY InHandServed DEF Ack, Handling, EveryRequestServed
<1>2. /\ g.pc = "idle" /\ g.prepared = mem[a].prepared /\ g.capture = mem[a].capture
      /\ g.tick = mem[a].tick
  BY <1>1 DEF Memory
<1>3. rows \in [Agent -> Seq(Row)] /\ rows[a] \in Seq(Row) /\ i \in DOMAIN rows[a]
      /\ rows[a][i] \in Row
  <2>1. i \in DOMAIN rows[a]
    BY <1>1 DEF InHandOK
  <2> QED
    BY <2>1 DEF Inv, ApiTypes
<1>4. rows' = [rows EXCEPT ![a] = q] /\ mem' = [mem EXCEPT ![a] = g]
  BY <1>1, <1>3 DEF Ack
<1>5. /\ DOMAIN q = DOMAIN rows[a]
      /\ \A j \in DOMAIN rows[a] : q[j] = IF j = i THEN [rows[a][i] EXCEPT !.acked = TRUE]
                                                    ELSE rows[a][j]
  BY <1>3
<1>6. \A j \in DOMAIN rows[a] : /\ q[j].type = rows[a][j].type /\ q[j].count = rows[a][j].count
                                /\ q[j].leased => rows[a][j].leased
                                /\ rows[a][j].acked => q[j].acked
                                /\ q[j].acked => rows[a][j].acked \/ j = i
  BY <1>3, <1>5 DEF Row
<1>7. q[i].acked
  BY <1>3, <1>5 DEF Row
<1> HIDE DEF q, g
<1>8. UNCHANGED <<state, ready, applied, pending, t0, manifests>>
  BY DEF Ack, local
<1>9. /\ Marking(rows[a], q) /\ Closes(mem[a], g, rows[a], q)
      /\ StartsCarriedOut(mem[a], rows[a], q)
  BY <1>1, <1>2, <1>5, <1>6, <1>7 DEF Marking, Closes, StartsCarriedOut
<1> QED
  BY <1>4, <1>8, <1>9, MarksServed

\* The oldest open command is handed out; its answer is lost only if that
\* gives it up.
Fetching(m, rs, i, q, g) ==
  /\ m.pc = "idle"
  /\ \A j \in DOMAIN rs : rs[j].acked \/ rs[j].count = 0
  /\ i \in DOMAIN rs /\ ~rs[i].acked
  /\ \A j \in DOMAIN rs : ~rs[j].acked => i <= j
  /\ q = [rs EXCEPT ![i] = [rs[i] EXCEPT !.count = rs[i].count + 1, !.leased = TRUE]]
  /\ \/ g = m /\ Cap = 1
     \/ g = [m EXCEPT !.pc = "got", !.cmd = i]

NothingEnds(rs) == \A j \in DOMAIN rs : ~Ends(rs[j])

\* Every other is closed or new, so a stop
\* is handed out to an agent that is done with its start.
LEMMA FetchedServed ==
  ASSUME NEW m, NEW ap, NEW rs, NEW n, NEW pend, NEW t, NEW rdy, NEW s, NEW early,
         NEW i, NEW q, NEW g,
         AgentOK(m, ap, rs, n, t), ServedOK(m, ap, rs, pend, t, rdy, s, early),
         Fetching(m, rs, i, q, g), early => HasStart(rs) \/ NothingEnds(rs)
  PROVE  ServedOK(g, ap, q, pend, t, rdy, s, early)
<1>1. /\ m \in Memory /\ rs \in Seq(Row) /\ rs[i] \in Row /\ ap \subseteq DOMAIN rs
      /\ DOMAIN rs = 1..Len(rs) /\ Len(rs) \in Nat
      /\ InTurn(m, ap, rs, t)
  BY DEF AgentOK, AgentTypes, ServedOK, Fetching
<1>2. /\ DOMAIN q = DOMAIN rs /\ \A j \in DOMAIN rs : j # i => q[j] = rs[j]
      /\ q[i].type = rs[i].type /\ q[i].acked = rs[i].acked /\ q[i].count = 1
  BY <1>1 DEF Row, Fetching
<1>3. /\ g.prepared = m.prepared /\ g.capture = m.capture /\ g.tick = m.tick
      /\ (g = m /\ Cap = 1) \/ (g.pc = "got" /\ g.cmd = i)
  BY <1>1 DEF Memory, Fetching
<1> HIDE DEF AgentOK
<1>4. /\ m.pc = "idle" /\ i \in DOMAIN rs /\ ~rs[i].acked
      /\ \A j \in DOMAIN rs : rs[j].acked \/ rs[j].count = 0
      /\ \A j \in DOMAIN rs : ~rs[j].acked => i <= j
  BY DEF Fetching
<1>5. InTurn(g, ap, q, t)
  <2>1. \A j \in DOMAIN q : Outstanding(q[j]) => j = i /\ q[j].count = 1
    BY <1>4, <1>1, <1>2 DEF Outstanding
  <2>2. \A j \in DOMAIN q : Outstanding(q[j]) => q[j].count >= Cap \/ (Handling(g) /\ g.cmd = j)
    BY <1>4, <1>2, <1>3, <2>1 DEF Handling
  <2>3. g.pc # "down" /\ (Handling(g) => ~q[g.cmd].acked)
    BY <1>4, <1>1, <1>2, <1>3 DEF InTurn, Handling
  <2>4. \A j \in DOMAIN q : q[j].leased => q[j].count > 0
    BY <1>4, <1>1, <1>2 DEF InTurn
  <2>5. \A j \in ap : q[j].acked
    BY <1>4, <1>1, <1>2 DEF InTurn
  <2>6. t = "past" => \A j \in DOMAIN q : q[j].type = "start" => q[j].acked
    BY <1>4, <1>1, <1>2 DEF InTurn
  <2> QED
    BY <2>2, <2>3, <2>4, <2>5, <2>6 DEF InTurn
<1>6. HasStart(q) <=> HasStart(rs)
  BY <1>4, <1>2 DEF HasStart
<1>7. SaysReady(g, pend) => SaysReady(m, pend)
  BY <1>4, <1>3 DEF SaysReady
<1>8. PreparedOK(g, q, pend, rdy, s)
  BY <1>4, <1>3, <1>6, <1>7 DEF ServedOK, PreparedOK
<1>9. ASSUME early
      PROVE  CapturingOK(g, q, pend)
  <2>1. CapturingOK(m, rs, pend)
    BY <1>4, <1>9 DEF ServedOK
  <2>2. ASSUME NEW j \in DOMAIN q, q[j].type = "start", DoneWith(g, q, j)
        PROVE  rs[j].acked
    BY <1>4, <1>2, <1>3, <2>2 DEF DoneWith
  <2>3. \A j \in DOMAIN q : q[j].type = "start" /\ DoneWith(g, q, j) => g.capture # "none"
    BY <1>4, <1>2, <1>3, <2>1, <2>2 DEF CapturingOK, DoneWith
  <2>4. ASSUME g.pc = "got", q[g.cmd].type = "stop"
        PROVE  g.capture # "none"
    <3>1. rs[i].type = "stop" /\ Ends(rs[i])
      BY <1>4, <1>2, <1>3, <2>4 DEF Ends
    <3>2. PICK k \in DOMAIN rs : rs[k].type = "start"
      BY <1>9, <1>4, <3>1 DEF HasStart, NothingEnds
    <3>3. k < i
      BY <1>4, <3>1, <3>2 DEF AgentOK, RowsOK
    <3>4. rs[k].acked
      BY <1>4, <1>1, <3>2, <3>3
    <3> QED
      BY <1>4, <1>3, <2>1, <3>2, <3>4 DEF CapturingOK, DoneWith
  <2>5. g.pc = "post" => g.say \notin Closing
    BY <1>4, <1>3, <2>1 DEF CapturingOK
  <2> QED
    BY <1>4, <1>3, <2>1, <2>3, <2>4, <2>5 DEF CapturingOK
<1> QED
  BY <1>5, <1>8, <1>9 DEF ServedOK

LEMMA FetchesServed ==
  ASSUME Inv, Served, EveryRequestServed, NEW a \in Agent, NEW got \in BOOLEAN, nextCommand(a, got)
  PROVE  Served'
<1> DEFINE m == mem[a]
           rs == rows[a]
<1>1. PICK i \in Deliverable(a) :
        /\ Oldest(i, Deliverable(a))
        /\ rows' = [rows EXCEPT ![a][i].count = @ + 1, ![a][i].leased = TRUE]
        /\ mem' = IF got THEN [mem EXCEPT ![a].pc = "got", ![a].cmd = i] ELSE mem
  BY DEF nextCommand
<1> DEFINE q == [rs EXCEPT ![i] = [rs[i] EXCEPT !.count = rs[i].count + 1, !.leased = TRUE]]
           g == IF got THEN [m EXCEPT !.pc = "got", !.cmd = i] ELSE m
<1>2. /\ rows \in [Agent -> Seq(Row)] /\ rs \in Seq(Row) /\ mem \in [Agent -> Memory]
      /\ m \in Memory /\ \A j \in DOMAIN rs : rs[j] \in Row
  BY DEF Inv, ApiTypes, MemTypes
<1>3. /\ AgentOK(m, applied[a], rs, captures[a], t0)
      /\ ServedOK(m, applied[a], rs, pending[a], t0, a \in ready, state, Early)
      /\ InTurn(m, applied[a], rs, t0)
  BY DEF Inv, Agents, Served, ServedOK
<1>4. m.pc = "idle" /\ ~Handling(m) /\ abandoned(a) = {}
  BY DEF nextCommand, Handling
<1>5. ASSUME NEW j \in DOMAIN rs, ~rs[j].acked
      PROVE  rs[j].count = 0 /\ ~rs[j].leased /\ rs[j].count < Cap
  <2>1. rs[j].count \in Nat /\ rs[j].leased \in BOOLEAN
    BY <1>2 DEF Row
  <2>2. ~(rs[j].count >= Cap)
    BY <1>4, <1>5 DEF abandoned
  <2> QED
    BY <1>3, <1>4, <1>5, <2>1, <2>2, CapAssumption DEF InTurn, Outstanding
<1>6. /\ i \in DOMAIN rs /\ ~rs[i].acked
      /\ \A j \in DOMAIN rs : ~rs[j].acked => i <= j
      /\ \A j \in DOMAIN rs : rs[j].acked \/ rs[j].count = 0
  BY <1>1, <1>5 DEF Deliverable, Oldest
<1>7. rows' = [rows EXCEPT ![a] = q]
  BY <1>1, <1>2, <1>6 DEF Row
<1>8. mem' = [mem EXCEPT ![a] = g]
  BY <1>1, <1>2
<1>9. (g = m /\ Cap = 1) \/ g = [m EXCEPT !.pc = "got", !.cmd = i]
  BY DEF nextCommand, EveryRequestServed
<1>10. ASSUME Early
       PROVE  HasStart(rs) \/ NothingEnds(rs)
  <2>1. CASE state \in {"recording", "stopping"}
    BY <1>3, <2>1 DEF ServedOK, PreparedOK
  <2>2. CASE state \in {Absent, "preparing"}
    BY <2>2 DEF Inv, ApiOK, Ends, NothingEnds
  <2> QED
    BY <1>10, <2>1, <2>2 DEF Early
<1>11. /\ UNCHANGED <<state, ready, manifests, t0>> /\ UNCHANGED Early
       /\ applied' = [applied EXCEPT ![a] = applied[a]]
       /\ pending' = [pending EXCEPT ![a] = pending[a]]
  BY DEF nextCommand, local, Inv, MemTypes, RestTypes, Early
<1>12. Fetching(m, rs, i, q, g)
  BY <1>4, <1>6, <1>9 DEF Fetching
<1> HIDE DEF g, m, rs, q
<1>13. ServedOK(g, applied[a], q, pending[a], t0, a \in ready, state, Early)
  BY <1>3, <1>10, <1>12, FetchedServed
<1>14. rows'[a] = q /\ \A b \in Agent : b # a => rows'[b] = rows[b]
  BY <1>2, <1>7
<1>15. \A b \in Agent : b # a => ServedNext(b)
  BY <1>11, <1>14, Others
<1>16. ServedOK(g, applied[a], rows'[a], pending[a], t0', a \in ready', state', Early')
  BY <1>11, <1>13, <1>14
<1>17. ReviewHasManifest'
  BY <1>11 DEF Served, ReviewHasManifest
<1> QED
  BY ONLY Inv, a \in Agent, <1>8, <1>11, <1>15, <1>16, <1>17, OneServed

-----------------------------------------------------------------------------
\* The theorem

LEMMA ServedAlone ==
  ASSUME Inv, Served, ServedKept, UNCHANGED <<mem, applied, pending>>
  PROVE  Served'
BY DEF Served, ServedKept, ServedNext

LEMMA ServedStarts == Init => Served
<1> SUFFICES ASSUME Init
             PROVE  Served
  OBVIOUS
<1> USE DEF Init
<1>1. /\ Fresh.pc = "idle" /\ Fresh.tick = "idle" /\ ~Handling(Fresh)
  BY DEF Fresh, Handling
<1>2. InTurn(Fresh, {}, <<>>, "none")
  BY <1>1 DEF InTurn
<1>3. ~HasStart(<<>>) /\ ~SaysReady(Fresh, <<>>)
  BY <1>1 DEF HasStart, SaysReady
<1>4. PreparedOK(Fresh, <<>>, <<>>, FALSE, Absent)
  BY <1>3 DEF PreparedOK, Absent
<1>5. CapturingOK(Fresh, <<>>, <<>>)
  BY <1>1 DEF CapturingOK
<1>6. ReviewHasManifest
  BY DEF ReviewHasManifest, Absent
<1>7. ASSUME NEW a \in Agent
      PROVE  ServedOK(mem[a], applied[a], rows[a], pending[a], t0, a \in ready, state, Early)
  <2>1. /\ mem[a] = Fresh /\ applied[a] = {} /\ rows[a] = <<>> /\ pending[a] = <<>>
        /\ t0 = "none" /\ state = Absent /\ a \notin ready
    OBVIOUS
  <2>2. InTurn(mem[a], applied[a], rows[a], t0) /\ CapturingOK(mem[a], rows[a], pending[a])
    BY <1>2, <1>5, <2>1
  <2>3. PreparedOK(mem[a], rows[a], pending[a], a \in ready, state)
    BY <1>4, <2>1 DEF PreparedOK
  <2> QED
    BY <2>2, <2>3 DEF ServedOK
<1> QED
  BY <1>6, <1>7 DEF Served

LEMMA ServedPreserved == Inv /\ Served /\ EveryRequestServed /\ [Next]_vars => Served'
<1> SUFFICES ASSUME Inv, Served, EveryRequestServed, [Next]_vars
             PROVE  Served'
  OBVIOUS
<1>1. CASE Operator \/ T0Passes
  BY <1>1, RequestsServed, ServedAlone DEF local
<1>2. ASSUME NEW a \in Agent, NEW i \in DOMAIN rows[a], LeaseExpires(a, i)
      PROVE  Served'
  BY <1>2, LeasedServed
<1>3. ASSUME NEW a \in Agent, PollLoop(a)
      PROVE  Served'
  <2>1. CASE SweepAbandoned(a) \/ start(a)
    BY <2>1, SweptServed, StartsServed
  <2>2. CASE (\E got \in BOOLEAN : nextCommand(a, got)) \/ (\E ok \in BOOLEAN : Ack(a, ok))
    BY <2>2, FetchesServed, AcksServed
  <2>3. CASE \/ Duplicate(a) \/ prepare(a) \/ prepareRefuses(a) \/ captureStart(a)
             \/ captureStartFails(a) \/ stopCapture(a) \/ upload(a) \/ uploadFails(a) \/ abort(a)
    BY <2>3, HandlesServed
  <2>4. CASE stopCaptureEnds(a) \/ stopIdle(a) \/ abortCaptureEnds(a)
    BY <2>4, EndsServed
  <2>5. CASE completeUpload(a) \/ completeUploadFails(a) \/ purge(a) \/ PostStatus(a)
    BY <2>5, EndsHandlerServed
  <2> QED
    BY <1>3, <2>1, <2>2, <2>3, <2>4, <2>5 DEF PollLoop
<1>4. ASSUME NEW a \in Agent,
             TickLoop(a) \/ flushPending(a) \/ captureDies(a) \/ crash(a) \/ restart(a)
      PROVE  Served'
  BY <1>4, TicksServed
<1>5. CASE UNCHANGED vars
  <2>1. UNCHANGED api /\ UNCHANGED <<mem, applied, pending>>
    BY <1>5 DEF vars, local
  <2> QED
    BY <2>1, IdleServed, ServedAlone
<1> QED
  BY <1>1, <1>2, <1>3, <1>4, <1>5 DEF Next

\* Where every request is served and no process dies, a session that is in
\* review has a manifest, for any number of agents: whoever says `stopped' had
\* a capture, and posted its manifest before.  A command lost on its way back is
\* covered if the first loss gives it up; with a second delivery the stop can
\* overtake a start that was lost.
THEOREM ReviewHasManifestHolds ==
  ASSUME EveryRequestServed
  PROVE  Spec => []ReviewHasManifest
<1>1. Inv /\ Served /\ [Next]_vars => Inv' /\ Served'
  BY Preserves, ServedPreserved
<1>2. Init => Inv /\ Served
  BY Starting, ServedStarts
<1>3. Spec => [](Inv /\ Served)
  BY <1>1, <1>2, PTL DEF Spec
<1>4. Served => ReviewHasManifest
  BY DEF Served
<1> QED
  BY <1>3, <1>4, PTL
=============================================================================
