--------------------------- MODULE Preview_proofs ---------------------------
(***************************************************************************)
(* The preview of a session for any number of agents, sources, requests in *)
(* progress, renders and crashes: typing, that no report makes a set ready *)
(* that lacks a source and, for one request at a time, that a ready set    *)
(* stays as it is.                                                         *)
(***************************************************************************)
EXTENDS Preview, TLAPS

-----------------------------------------------------------------------------
\* Typing.  A loop that posted a report waits for exactly one request, and a
\* report of the tick loop is still the head of the pending queue.

TableOK == /\ row \in PreviewRow
           /\ manifests \subseteq Agent
           /\ crashes \in 0..MaxCrashes
CommandsOK == rows \in Seq(Command) /\ applied \subseteq DOMAIN rows
RequestsOK == requests \in [Handler -> Request \cup {Free}]
AgentsOK == /\ mem \in [Agent -> Memory]
            /\ \A a \in Agent : mem[a].pc # "idle" => mem[a].cmd \in DOMAIN rows
            /\ pending \in [Agent -> Seq(Report)]

Waits(r, a, loop) == r # Free /\ r.from = <<a, loop>>
WaitsOK == \A h \in Handler, a \in Agent :
             /\ Waits(requests[h], a, "poll") => mem[a].pc = "posted"
             /\ Waits(requests[h], a, "tick") => mem[a].tick = "posted" /\ pending[a] # <<>>
OneWaits == \A g, h \in Handler, a \in Agent, loop \in {"poll", "tick"} :
              Waits(requests[g], a, loop) /\ Waits(requests[h], a, loop) => g = h

TypeInv == TableOK /\ CommandsOK /\ RequestsOK /\ AgentsOK /\ WaitsOK /\ OneWaits

LEMMA TypeInvTypes == TypeInv => TypeOK
BY DEF TypeInv, TableOK, CommandsOK, RequestsOK, AgentsOK, TypeOK

LEMMA RefsAreSources ==
  ASSUME NEW ms \in SUBSET Agent
  PROVE  audioTrackRefs(ms) \in SUBSET Source
BY RecordsAssumption DEF audioTrackRefs

LEMMA RefsGrow ==
  ASSUME NEW ms, NEW ns, ms \subseteq ns
  PROVE  audioTrackRefs(ms) \subseteq audioTrackRefs(ns)
BY DEF audioTrackRefs

LEMMA SayingOK == \A s \in {"ready", "failed", "deferred"} : Saying(s) \in Report
BY DEF Saying, Report

LEMMA FreshOK == Fresh \in Memory /\ Fresh.pc = "idle" /\ Fresh.tick = "idle"
BY SayingOK DEF Fresh, Memory

LEMMA NoRowOK == NoRow \in PreviewRow
BY DEF NoRow, PreviewRow

LEMMA TargetOK == \A r \in Report : targetState(r) \in PreviewState
BY DEF targetState, PreviewState, Report

LEMMA RowsAreCommands == TypeInv => \A i \in DOMAIN rows : rows[i] \in Command
BY DEF TypeInv, CommandsOK

LEMMA CountedOK ==
  ASSUME NEW c \in Command, c.count < Cap
  PROVE  [c EXCEPT !.count = @ + 1, !.leased = TRUE] \in Command
<1>1. c.count + 1 \in 0..Cap
  BY BoundsAssumption DEF Command
<1> QED
  BY <1>1 DEF Command

\* A request that has just come.
LEMMA ArrivingOK ==
  ASSUME TableOK,
         NEW op \in {"requestRender", "selectSource", "completeRender"},
         NEW source \in Source \cup {None}, NEW r \in Report,
         NEW from \in (Agent \X {"poll", "tick"}) \cup {Nobody}
  PROVE  /\ Arriving(op, source, r, from) \in Request
         /\ Arriving(op, source, r, from).from = from
         /\ Arriving(op, source, r, from).at = "row"
         /\ Arriving(op, source, r, from).begun = manifests
BY NoRowOK DEF Arriving, Request, TableOK

LEMMA FreeIsNoRequest == \A r \in Request : r # Free
BY DEF Request, Free, None

\* One slot is rewritten by a request from the same agent or from nobody, and
\* the agents stand still.
LEMMA SlotKept ==
  ASSUME TypeInv, NEW h \in Handler, NEW r \in Request,
         requests' = [requests EXCEPT ![h] = r],
         \/ requests[h] # Free /\ r.from = requests[h].from
         \/ r.from = Nobody,
         UNCHANGED <<mem, pending>>
  PROVE  RequestsOK' /\ WaitsOK' /\ OneWaits'
<1>1. RequestsOK'
  BY DEF TypeInv, RequestsOK
<1>2. ASSUME NEW g \in Handler, NEW a \in Agent, NEW loop \in {"poll", "tick"},
             Waits(requests'[g], a, loop)
      PROVE  Waits(requests[g], a, loop)
  BY <1>2 DEF TypeInv, RequestsOK, Waits, Nobody, None
<1>3. WaitsOK'
  BY <1>2 DEF TypeInv, WaitsOK
<1>4. OneWaits'
  BY <1>2 DEF TypeInv, OneWaits
<1> QED
  BY <1>1, <1>3, <1>4

LEMMA AsksKeeps ==
  ASSUME TypeInv, NEW h \in Handler, NEW op \in {"requestRender", "selectSource"},
         NEW source \in Source \cup {None}, OperatorAsks(h, op, source)
  PROVE  TypeInv'
<1> DEFINE r == Arriving(op, source, Saying("failed"), Nobody)
<1>1. r \in Request /\ r.from = Nobody
  BY ArrivingOK, SayingOK DEF TypeInv
<1>2. RequestsOK' /\ WaitsOK' /\ OneWaits'
  <2> HIDE DEF r
  <2>1. requests' = [requests EXCEPT ![h] = r] /\ UNCHANGED <<mem, pending>>
    BY DEF OperatorAsks, r
  <2> QED
    BY <1>1, <2>1, SlotKept
<1> QED
  BY <1>2 DEF OperatorAsks, TypeInv, TableOK, CommandsOK, AgentsOK

LEMMA ProceedKeeps ==
  ASSUME TypeInv, NEW h \in Handler, requests[h] # Free, NEW r \in Request,
         r.from = requests[h].from, Proceed(h, r)
  PROVE  RequestsOK' /\ WaitsOK' /\ OneWaits'
BY SlotKept DEF Proceed

\* A request is answered: its slot is free, and whoever waited waits no more.
LEMMA AnswerKeeps ==
  ASSUME TypeInv, NEW h \in Handler, requests[h] # Free, Answer(h),
         rows' \in Seq(Command), DOMAIN rows \subseteq DOMAIN rows'
  PROVE  CommandsOK' /\ RequestsOK' /\ AgentsOK' /\ WaitsOK' /\ OneWaits'
<1> DEFINE a == requests[h].from[1]
           loop == requests[h].from[2]
<1>1. requests[h] \in Request /\ requests[h].from \in (Agent \X {"poll", "tick"}) \cup {Nobody}
  BY DEF TypeInv, RequestsOK, Request
<1>2. /\ RequestsOK'
      /\ \A g \in Handler : requests'[g] = IF g = h THEN Free ELSE requests[g]
  BY DEF Answer, TypeInv, RequestsOK
<1>3. ASSUME NEW g \in Handler, NEW b \in Agent, NEW l \in {"poll", "tick"},
             Waits(requests'[g], b, l)
      PROVE  g # h /\ Waits(requests[g], b, l)
  BY <1>2, <1>3 DEF Waits
<1>4. OneWaits'
  BY <1>3 DEF TypeInv, OneWaits
<1>5. CASE loop = None
  <2>1. UNCHANGED <<mem, applied, pending>>
    BY <1>5 DEF Answer, None
  <2> QED
    BY <1>2, <1>3, <1>4, <2>1 DEF TypeInv, CommandsOK, AgentsOK, WaitsOK
<1>6. CASE loop = "poll"
  <2>1. a \in Agent /\ Waits(requests[h], a, "poll")
    BY <1>1, <1>6 DEF Waits, Nobody, None
  <2>2. mem[a].pc = "posted" /\ mem[a].cmd \in DOMAIN rows /\ mem[a].say \in Report
    BY <2>1 DEF TypeInv, WaitsOK, AgentsOK, Memory
  <2>3. /\ mem' = [mem EXCEPT ![a].pc = "ack"]
        /\ applied' = applied \cup {mem[a].cmd}
        /\ \/ pending' = pending
           \/ pending' = [pending EXCEPT ![a] = Append(@, mem[a].say)]
    BY <1>6 DEF Answer, None
  <2>4. CommandsOK'
    BY <2>2, <2>3 DEF TypeInv, CommandsOK
  <2>5. mem' \in [Agent -> Memory] /\ pending' \in [Agent -> Seq(Report)]
    <3>1. mem' \in [Agent -> Memory]
      <4>1. [mem[a] EXCEPT !.pc = "ack"] \in Memory
        BY <2>1 DEF TypeInv, AgentsOK, Memory
      <4> QED
        BY <2>1, <2>3, <4>1 DEF TypeInv, AgentsOK
    <3>2. pending[a] \in Seq(Report) /\ Append(pending[a], mem[a].say) \in Seq(Report)
      BY <2>1, <2>2 DEF TypeInv, AgentsOK
    <3> QED
      BY <2>1, <2>3, <3>1, <3>2 DEF TypeInv, AgentsOK
  <2>6. AgentsOK'
    BY <2>1, <2>2, <2>3, <2>5 DEF TypeInv, AgentsOK
  <2>7. ASSUME NEW g \in Handler, NEW b \in Agent, Waits(requests'[g], b, "poll")
        PROVE  mem'[b].pc = "posted"
    <3>1. g # h /\ Waits(requests[g], b, "poll")
      BY <1>3, <2>7
    <3>2. b # a
      BY <2>1, <3>1 DEF TypeInv, OneWaits
    <3> QED
      BY <2>3, <3>1, <3>2 DEF TypeInv, WaitsOK, AgentsOK
  <2>8. ASSUME NEW g \in Handler, NEW b \in Agent, Waits(requests'[g], b, "tick")
        PROVE  mem'[b].tick = "posted" /\ pending'[b] # <<>>
    <3>1. mem[b].tick = "posted" /\ pending[b] # <<>> /\ pending[b] \in Seq(Report)
      BY <1>3, <2>8 DEF TypeInv, WaitsOK, AgentsOK
    <3>2. mem'[b].tick = mem[b].tick
      BY <2>3 DEF TypeInv, AgentsOK, Memory
    <3>3. pending'[b] = pending[b] \/ pending'[b] = Append(pending[b], mem[a].say)
      BY <2>3 DEF TypeInv, AgentsOK
    <3> QED
      BY <2>2, <3>1, <3>2, <3>3
  <2> QED
    BY <1>2, <1>4, <2>4, <2>6, <2>7, <2>8 DEF WaitsOK
<1>7. CASE loop = "tick"
  <2>1. a \in Agent /\ Waits(requests[h], a, "tick")
    BY <1>1, <1>7 DEF Waits, Nobody, None
  <2>2. pending[a] # <<>> /\ pending[a] \in Seq(Report)
    BY <2>1 DEF TypeInv, WaitsOK, AgentsOK
  <2>3. /\ mem' = [mem EXCEPT ![a].tick = "idle"]
        /\ applied' = applied
        /\ \/ pending' = pending
           \/ pending' = [pending EXCEPT ![a] = Tail(@)]
    BY <1>7 DEF Answer, None
  <2>4. CommandsOK'
    BY <2>3 DEF TypeInv, CommandsOK
  <2>5. mem' \in [Agent -> Memory] /\ pending' \in [Agent -> Seq(Report)]
    <3>1. mem' \in [Agent -> Memory]
      <4>1. [mem[a] EXCEPT !.tick = "idle"] \in Memory
        BY <2>1 DEF TypeInv, AgentsOK, Memory
      <4> QED
        BY <2>1, <2>3, <4>1 DEF TypeInv, AgentsOK
    <3>2. Tail(pending[a]) \in Seq(Report)
      BY <2>2
    <3> QED
      BY <2>1, <2>3, <3>1, <3>2 DEF TypeInv, AgentsOK
  <2>6. \A b \in Agent : mem'[b].pc = mem[b].pc /\ mem'[b].cmd = mem[b].cmd
    BY <2>3 DEF TypeInv, AgentsOK, Memory
  <2>7. AgentsOK'
    BY <2>5, <2>6 DEF TypeInv, AgentsOK
  <2>8. ASSUME NEW g \in Handler, NEW b \in Agent, Waits(requests'[g], b, "tick")
        PROVE  mem'[b].tick = "posted" /\ pending'[b] # <<>>
    <3>1. g # h /\ Waits(requests[g], b, "tick")
      BY <1>3, <2>8
    <3>2. b # a
      BY <2>1, <3>1 DEF TypeInv, OneWaits
    <3> QED
      BY <2>3, <3>1, <3>2 DEF TypeInv, WaitsOK, AgentsOK
  <2> QED
    BY <1>2, <1>3, <1>4, <2>4, <2>6, <2>7, <2>8 DEF TypeInv, WaitsOK
<1> QED
  BY <1>1, <1>5, <1>6, <1>7 DEF Nobody, None

-----------------------------------------------------------------------------
\* The steps of a request.

LEMMA ReadRowKeeps ==
  ASSUME TypeInv, NEW h \in Handler, ReadRow(h)
  PROVE  TypeInv'
<1> DEFINE q == requests[h]
           at == IF q.op = "completeRender" /\ targetState(q.report) # "ready"
                 THEN "save" ELSE "manifests"
           r == [q EXCEPT !.row = row, !.at = at]
<1>1. q \in Request /\ q # Free
  BY DEF ReadRow, TypeInv, RequestsOK
<1>2. r \in Request /\ r.from = q.from
  BY <1>1 DEF Request, TypeInv, TableOK
<1>3. Answer(h) \/ Proceed(h, r)
  BY DEF ReadRow
<1>4. CommandsOK' /\ AgentsOK' /\ RequestsOK' /\ WaitsOK' /\ OneWaits'
  <2>1. UNCHANGED rows
    BY DEF ReadRow
  <2>2. CASE Answer(h)
    BY <1>1, <2>1, <2>2, AnswerKeeps DEF TypeInv, CommandsOK
  <2>3. CASE Proceed(h, r)
    <3>1. RequestsOK' /\ WaitsOK' /\ OneWaits'
      <4> HIDE DEF r
      <4> QED
        BY <1>1, <1>2, <2>3, ProceedKeeps
    <3> QED
      BY <2>1, <2>3, <3>1 DEF Proceed, TypeInv, CommandsOK, AgentsOK
  <2> QED
    BY <1>3, <2>2, <2>3
<1> QED
  BY <1>4 DEF ReadRow, TypeInv, TableOK

LEMMA ReadManifestsKeeps ==
  ASSUME TypeInv, NEW h \in Handler, ReadManifests(h)
  PROVE  TypeInv'
<1> DEFINE q == requests[h]
           r == [q EXCEPT !.seen = manifests, !.at = "save"]
<1>1. q \in Request /\ q # Free
  BY DEF ReadManifests, TypeInv, RequestsOK
<1>2. r \in Request /\ r.from = q.from
  BY <1>1 DEF Request, TypeInv, TableOK
<1>3. Answer(h) \/ Proceed(h, r)
  BY DEF ReadManifests
<1>4. CommandsOK' /\ AgentsOK' /\ RequestsOK' /\ WaitsOK' /\ OneWaits'
  <2>1. UNCHANGED rows
    BY DEF ReadManifests
  <2>2. CASE Answer(h)
    BY <1>1, <2>1, <2>2, AnswerKeeps DEF TypeInv, CommandsOK
  <2>3. CASE Proceed(h, r)
    <3>1. RequestsOK' /\ WaitsOK' /\ OneWaits'
      <4> HIDE DEF r
      <4> QED
        BY <1>1, <1>2, <2>3, ProceedKeeps
    <3> QED
      BY <2>1, <2>3, <3>1 DEF Proceed, TypeInv, CommandsOK, AgentsOK
  <2> QED
    BY <1>3, <2>2, <2>3
<1> QED
  BY <1>4 DEF ReadManifests, TypeInv, TableOK

LEMMA CompletedOK == \A q \in Request : Completed(q) \in PreviewRow
<1> SUFFICES ASSUME NEW q \in Request PROVE Completed(q) \in PreviewRow
  OBVIOUS
<1>1. q.row \in PreviewRow /\ q.report \in Report
  BY DEF Request
<1>2. targetState(q.report) \in PreviewState
  BY <1>1, TargetOK
<1> QED
  BY <1>1, <1>2 DEF Completed, PreviewRow, PreviewState, Report

LEMMA SaveRowKeeps ==
  ASSUME TypeInv, NEW h \in Handler, SaveRow(h)
  PROVE  TypeInv'
<1> DEFINE q == requests[h]
           r == [q EXCEPT !.at = "queue"]
<1>1. q \in Request /\ q # Free
  BY DEF SaveRow, TypeInv, RequestsOK
<1>2. r \in Request /\ r.from = q.from
  BY <1>1 DEF Request
<1>3. Answer(h) \/ Proceed(h, r)
  BY <1>1 DEF SaveRow, Request
<1>4. CommandsOK' /\ AgentsOK' /\ RequestsOK' /\ WaitsOK' /\ OneWaits'
  <2>1. UNCHANGED rows
    BY DEF SaveRow
  <2>2. CASE Answer(h)
    BY <1>1, <2>1, <2>2, AnswerKeeps DEF TypeInv, CommandsOK
  <2>3. CASE Proceed(h, r)
    <3>1. RequestsOK' /\ WaitsOK' /\ OneWaits'
      <4> HIDE DEF r
      <4> QED
        BY <1>1, <1>2, <2>3, ProceedKeeps
    <3> QED
      BY <2>1, <2>3, <3>1 DEF Proceed, TypeInv, CommandsOK, AgentsOK
  <2> QED
    BY <1>3, <2>2, <2>3
<1>5. row' \in PreviewRow
  <2>1. /\ q.row \in PreviewRow /\ q.source \in Source \cup {None}
        /\ q.op \in {"requestRender", "selectSource", "completeRender"}
    BY <1>1 DEF Request
  <2>2. [q.row EXCEPT !.state = "rendering"] \in PreviewRow
    BY <2>1 DEF PreviewRow, PreviewState
  <2>3. [q.row EXCEPT !.chosen = q.source] \in PreviewRow
    BY <2>1 DEF PreviewRow
  <2>4. \/ row' = row
        \/ row' = [q.row EXCEPT !.state = "rendering"]
        \/ row' = [q.row EXCEPT !.chosen = q.source]
        \/ row' = Completed(q)
    BY <2>1 DEF SaveRow
  <2> QED
    BY <1>1, <2>2, <2>3, <2>4, CompletedOK DEF TypeInv, TableOK
<1> QED
  BY <1>4, <1>5 DEF SaveRow, TypeInv, TableOK

LEMMA QueueCommandKeeps ==
  ASSUME TypeInv, NEW h \in Handler, QueueCommand(h)
  PROVE  TypeInv'
<1>1. requests[h] \in Request /\ requests[h] # Free
  BY DEF QueueCommand, TypeInv, RequestsOK
<1>2. PICK a \in requests[h].seen :
        rows' = Append(rows, [to |-> a, refs |-> audioTrackRefs(requests[h].seen),
                              count |-> 0, leased |-> FALSE, acked |-> FALSE])
  BY DEF QueueCommand
<1>3. [to |-> a, refs |-> audioTrackRefs(requests[h].seen),
       count |-> 0, leased |-> FALSE, acked |-> FALSE] \in Command
  <2>1. requests[h].seen \in SUBSET Agent
    BY <1>1 DEF Request
  <2>2. audioTrackRefs(requests[h].seen) \in SUBSET Source
    BY <2>1, RefsAreSources
  <2> QED
    BY <2>1, <2>2, BoundsAssumption DEF Command
<1>4. rows' \in Seq(Command) /\ DOMAIN rows \subseteq DOMAIN rows'
  BY <1>2, <1>3 DEF TypeInv, CommandsOK
<1>5. CommandsOK' /\ RequestsOK' /\ AgentsOK' /\ WaitsOK' /\ OneWaits'
  BY <1>1, <1>4, AnswerKeeps DEF QueueCommand
<1> QED
  BY <1>5 DEF QueueCommand, TypeInv, TableOK

-----------------------------------------------------------------------------
\* The steps of an agent.

\* A's poll loop moves on; nobody waits for it to have posted.
LEMMA LoopKeeps ==
  ASSUME TypeInv, NEW a \in Agent, NEW m \in Memory, mem' = [mem EXCEPT ![a] = m],
         mem[a].pc # "posted", m.tick = mem[a].tick,
         m.pc # "idle" => m.cmd \in DOMAIN rows,
         rows' \in Seq(Command), DOMAIN rows' = DOMAIN rows, applied' \subseteq DOMAIN rows,
         pending' \in [Agent -> Seq(Report)],
         \A b \in Agent : pending[b] # <<>> => pending'[b] # <<>>,
         UNCHANGED <<row, manifests, requests, crashes>>
  PROVE  TypeInv'
<1>1. TableOK' /\ CommandsOK' /\ RequestsOK' /\ OneWaits'
  BY DEF TypeInv, TableOK, CommandsOK, RequestsOK, OneWaits
<1>2. AgentsOK'
  BY DEF TypeInv, AgentsOK
<1>3. WaitsOK'
  BY DEF TypeInv, WaitsOK, AgentsOK
<1> QED
  BY <1>1, <1>2, <1>3 DEF TypeInv

\* Nothing but the leases, counts and acknowledgements of commands changes.
LEMMA CommandsKeep ==
  ASSUME TypeInv, rows' \in Seq(Command), DOMAIN rows' = DOMAIN rows,
         UNCHANGED <<row, manifests, requests, mem, applied, pending, crashes>>
  PROVE  TypeInv'
BY DEF TypeInv, TableOK, CommandsOK, RequestsOK, AgentsOK, WaitsOK, OneWaits

LEMMA SweepAbandonedKeeps ==
  ASSUME TypeInv, NEW a \in Agent, SweepAbandoned(a)
  PROVE  TypeInv'
<1>1. \A i \in DOMAIN rows : [rows[i] EXCEPT !.acked = TRUE] \in Command /\ rows[i] \in Command
  <2>1. \A i \in DOMAIN rows : rows[i] \in Command
    BY RowsAreCommands
  <2> QED
    BY <2>1 DEF Command
<1>2. rows' \in Seq(Command) /\ DOMAIN rows' = DOMAIN rows
  BY <1>1 DEF SweepAbandoned, TypeInv, CommandsOK
<1> QED
  BY <1>2, CommandsKeep DEF SweepAbandoned

LEMMA LeaseExpiresKeeps ==
  ASSUME TypeInv, NEW i \in DOMAIN rows, LeaseExpires(i)
  PROVE  TypeInv'
<1>1. [rows[i] EXCEPT !.leased = FALSE] \in Command
  <2>1. rows[i] \in Command
    BY RowsAreCommands
  <2> QED
    BY <2>1 DEF Command
<1>2. rows' \in Seq(Command) /\ DOMAIN rows' = DOMAIN rows
  BY <1>1 DEF LeaseExpires, TypeInv, CommandsOK
<1> QED
  BY <1>2, CommandsKeep DEF LeaseExpires

LEMMA NextCommandKeeps ==
  ASSUME TypeInv, NEW a \in Agent, nextCommand(a)
  PROVE  TypeInv'
<1>1. PICK i \in Deliverable(a) :
        /\ rows' = [rows EXCEPT ![i].count = @ + 1, ![i].leased = TRUE]
        /\ mem' = [mem EXCEPT ![a].pc = "got", ![a].cmd = i]
  BY DEF nextCommand
<1>2. i \in DOMAIN rows /\ rows[i] \in Command /\ rows[i].count < Cap
  BY RowsAreCommands DEF Deliverable
<1>3. [rows[i] EXCEPT !.count = @ + 1, !.leased = TRUE] \in Command
  BY <1>2, CountedOK
<1>4. rows' \in Seq(Command) /\ DOMAIN rows' = DOMAIN rows
  <2>1. rows' = [rows EXCEPT ![i] = [rows[i] EXCEPT !.count = @ + 1, !.leased = TRUE]]
    BY <1>1
  <2> QED
    BY <1>2, <1>3, <2>1 DEF TypeInv, CommandsOK
<1> DEFINE m == [mem[a] EXCEPT !.pc = "got", !.cmd = i]
<1>5. m \in Memory /\ m.pc = "got" /\ m.cmd = i /\ m.tick = mem[a].tick
  <2>1. i \in Nat
    BY <1>2 DEF TypeInv, CommandsOK
  <2>2. mem[a] \in Memory
    BY DEF TypeInv, AgentsOK
  <2> QED
    BY <2>1, <2>2 DEF Memory
<1>6. mem' = [mem EXCEPT ![a] = m]
  BY <1>1 DEF TypeInv, AgentsOK
<1>7. UNCHANGED <<row, manifests, requests, applied, pending, crashes>> /\ mem[a].pc # "posted"
  BY DEF nextCommand
<1>8. applied \subseteq DOMAIN rows /\ pending \in [Agent -> Seq(Report)]
  BY DEF TypeInv, CommandsOK, AgentsOK
<1> HIDE DEF m
<1> QED
  BY <1>2, <1>4, <1>5, <1>6, <1>7, <1>8, LoopKeeps

LEMMA DuplicateKeeps ==
  ASSUME TypeInv, NEW a \in Agent, Duplicate(a)
  PROVE  TypeInv'
<1> DEFINE m == [mem[a] EXCEPT !.pc = "ack"]
<1>1. m \in Memory /\ m.tick = mem[a].tick /\ m.cmd \in DOMAIN rows
  BY DEF Duplicate, TypeInv, AgentsOK, Memory
<1>2. mem' = [mem EXCEPT ![a] = m]
  BY DEF Duplicate, TypeInv, AgentsOK
<1>3. /\ UNCHANGED <<row, manifests, requests, rows, applied, pending, crashes>>
      /\ mem[a].pc # "posted"
  BY DEF Duplicate
<1>4. rows \in Seq(Command) /\ applied \subseteq DOMAIN rows /\ pending \in [Agent -> Seq(Report)]
  BY DEF TypeInv, CommandsOK, AgentsOK
<1> HIDE DEF m
<1> QED
  BY <1>1, <1>2, <1>3, <1>4, LoopKeeps

LEMMA RenderPreviewKeeps ==
  ASSUME TypeInv, NEW a \in Agent, renderPreview(a)
  PROVE  TypeInv'
<1>1. PICK m \in {[mem[a] EXCEPT !.pc = "render"],
                  [mem[a] EXCEPT !.pc = "post", !.say = Saying("deferred")]} :
        mem' = [mem EXCEPT ![a] = m]
  BY DEF renderPreview, TypeInv, AgentsOK
<1>2. m \in Memory /\ m.tick = mem[a].tick /\ m.cmd \in DOMAIN rows
  BY SayingOK DEF renderPreview, TypeInv, AgentsOK, Memory
<1>3. /\ UNCHANGED <<row, manifests, requests, rows, applied, pending, crashes>>
      /\ mem[a].pc # "posted"
  BY DEF renderPreview
<1>4. rows \in Seq(Command) /\ applied \subseteq DOMAIN rows /\ pending \in [Agent -> Seq(Report)]
  BY DEF TypeInv, CommandsOK, AgentsOK
<1> QED
  BY <1>1, <1>2, <1>3, <1>4, LoopKeeps

LEMMA RenderedOK == \A refs \in SUBSET Source : Rendered(refs) \in SUBSET Artifact
BY DEF Rendered, Artifact

LEMMA RenderKeeps ==
  ASSUME TypeInv, NEW a \in Agent, render(a)
  PROVE  TypeInv'
<1> DEFINE refs == rows[mem[a].cmd].refs
           m(r) == [mem[a] EXCEPT !.pc = "post", !.say = r]
<1>1. mem[a].pc = "render" /\ mem[a] \in Memory /\ mem[a].cmd \in DOMAIN rows
  BY DEF render, TypeInv, AgentsOK
<1>2. refs \in SUBSET Source
  <2>1. rows[mem[a].cmd] \in Command
    BY <1>1, RowsAreCommands
  <2> QED
    BY <2>1 DEF Command
<1>3. [state |-> "ready", artifacts |-> Rendered(refs)] \in Report
  BY <1>2, RenderedOK DEF Report
<1>4. PICK r \in Report : mem' = [mem EXCEPT ![a].pc = "post", ![a].say = r]
  BY <1>3, SayingOK DEF render
<1>5. m(r) \in Memory /\ m(r).tick = mem[a].tick /\ m(r).cmd \in DOMAIN rows
  BY <1>1 DEF Memory
<1>6. mem' = [mem EXCEPT ![a] = m(r)]
  BY <1>4 DEF TypeInv, AgentsOK
<1>7. UNCHANGED <<row, manifests, requests, rows, applied, pending, crashes>>
  BY DEF render
<1>8. rows \in Seq(Command) /\ applied \subseteq DOMAIN rows /\ pending \in [Agent -> Seq(Report)]
  BY DEF TypeInv, CommandsOK, AgentsOK
<1> HIDE DEF m
<1> QED
  BY <1>1, <1>5, <1>6, <1>7, <1>8, LoopKeeps

LEMMA ReportPreviewFailsKeeps ==
  ASSUME TypeInv, NEW a \in Agent, reportPreviewFails(a)
  PROVE  TypeInv'
<1> DEFINE m == [mem[a] EXCEPT !.pc = "ack"]
<1>1. mem[a].pc = "post" /\ mem[a].cmd \in DOMAIN rows /\ mem[a] \in Memory
  BY DEF reportPreviewFails, TypeInv, AgentsOK
<1>2. m \in Memory /\ m.tick = mem[a].tick /\ m.cmd \in DOMAIN rows /\ mem[a].say \in Report
  BY <1>1 DEF Memory
<1>3. mem' = [mem EXCEPT ![a] = m]
  BY DEF reportPreviewFails, TypeInv, AgentsOK
<1>4. /\ pending[a] \in Seq(Report) /\ Append(pending[a], mem[a].say) \in Seq(Report)
      /\ Append(pending[a], mem[a].say) # <<>>
  <2>1. pending[a] \in Seq(Report)
    BY DEF TypeInv, AgentsOK
  <2> QED
    BY <1>2, <2>1
<1>5. /\ pending' \in [Agent -> Seq(Report)]
      /\ \A b \in Agent : pending[b] # <<>> => pending'[b] # <<>>
  BY <1>4 DEF reportPreviewFails, TypeInv, AgentsOK
<1>6. rows \in Seq(Command) /\ applied' \subseteq DOMAIN rows
  BY <1>1 DEF reportPreviewFails, TypeInv, CommandsOK
<1>7. UNCHANGED <<row, manifests, requests, rows, crashes>>
  BY DEF reportPreviewFails
<1> HIDE DEF m
<1> QED
  BY <1>1, <1>2, <1>3, <1>5, <1>6, <1>7, LoopKeeps

LEMMA AckKeeps ==
  ASSUME TypeInv, NEW a \in Agent, Ack(a)
  PROVE  TypeInv'
<1> DEFINE m == [mem[a] EXCEPT !.pc = "idle", !.cmd = 0, !.say = Saying("failed")]
<1>1. mem[a].pc = "ack" /\ mem[a].cmd \in DOMAIN rows /\ mem[a] \in Memory
  BY DEF Ack, TypeInv, AgentsOK
<1>2. m \in Memory /\ m.tick = mem[a].tick /\ m.pc = "idle"
  BY <1>1, SayingOK DEF Memory
<1>3. mem' = [mem EXCEPT ![a] = m]
  BY DEF Ack, TypeInv, AgentsOK
<1>4. [rows[mem[a].cmd] EXCEPT !.acked = TRUE] \in Command
  <2>1. rows[mem[a].cmd] \in Command
    BY <1>1, RowsAreCommands
  <2> QED
    BY <2>1 DEF Command
<1>5. rows' \in Seq(Command) /\ DOMAIN rows' = DOMAIN rows
  BY <1>1, <1>4 DEF Ack, TypeInv, CommandsOK
<1>6. applied \subseteq DOMAIN rows /\ pending \in [Agent -> Seq(Report)]
  BY DEF TypeInv, CommandsOK, AgentsOK
<1>7. UNCHANGED <<row, manifests, requests, applied, pending, crashes>>
  BY DEF Ack
<1> HIDE DEF m
<1> QED
  BY <1>1, <1>2, <1>3, <1>5, <1>6, <1>7, LoopKeeps

\* A report is posted: the loop that posted it waited for nothing before.
LEMMA PostKeeps ==
  ASSUME TypeInv, NEW a \in Agent, NEW h \in Handler, NEW loop \in {"poll", "tick"},
         NEW r \in Request, r.from = <<a, loop>>, requests' = [requests EXCEPT ![h] = r],
         NEW m \in Memory, mem' = [mem EXCEPT ![a] = m], m.cmd = mem[a].cmd,
         loop = "poll" => /\ mem[a].pc \notin {"idle", "posted"} /\ m.pc = "posted"
                          /\ m.tick = mem[a].tick,
         loop = "tick" => /\ mem[a].tick = "idle" /\ m.tick = "posted" /\ pending[a] # <<>>
                          /\ m.pc = mem[a].pc,
         UNCHANGED <<row, manifests, rows, applied, pending, crashes>>
  PROVE  TypeInv'
<1>1. TableOK' /\ CommandsOK' /\ RequestsOK'
  BY DEF TypeInv, TableOK, CommandsOK, RequestsOK
<1>2. AgentsOK'
  BY DEF TypeInv, AgentsOK
<1>3. ASSUME NEW g \in Handler, NEW b \in Agent, NEW l \in {"poll", "tick"},
             Waits(requests'[g], b, l)
      PROVE  \/ g = h /\ b = a /\ l = loop
             \/ g # h /\ Waits(requests[g], b, l) /\ <<b, l>> # <<a, loop>>
  <2>1. CASE g = h
    BY <1>3, <2>1 DEF TypeInv, RequestsOK, Waits
  <2>2. CASE g # h
    <3>1. Waits(requests[g], b, l)
      BY <1>3, <2>2 DEF TypeInv, RequestsOK
    <3>2. <<b, l>> # <<a, loop>>
      BY <3>1 DEF TypeInv, WaitsOK
    <3> QED
      BY <2>2, <3>1, <3>2
  <2> QED
    BY <2>1, <2>2
<1>4. OneWaits'
  BY <1>3 DEF TypeInv, OneWaits
<1>5. WaitsOK'
  <2>1. ASSUME NEW g \in Handler, NEW b \in Agent, Waits(requests'[g], b, "poll")
        PROVE  mem'[b].pc = "posted"
    BY <1>3, <2>1 DEF TypeInv, WaitsOK, AgentsOK
  <2>2. ASSUME NEW g \in Handler, NEW b \in Agent, Waits(requests'[g], b, "tick")
        PROVE  mem'[b].tick = "posted" /\ pending'[b] # <<>>
    BY <1>3, <2>2 DEF TypeInv, WaitsOK, AgentsOK
  <2> QED
    BY <2>1, <2>2 DEF WaitsOK
<1> QED
  BY <1>1, <1>2, <1>4, <1>5 DEF TypeInv

LEMMA ReportPreviewKeeps ==
  ASSUME TypeInv, NEW a \in Agent, NEW h \in Handler, reportPreview(a, h)
  PROVE  TypeInv'
<1> DEFINE r == Arriving("completeRender", None, mem[a].say, <<a, "poll">>)
           m == [mem[a] EXCEPT !.pc = "posted"]
<1>1. mem[a].pc = "post" /\ mem[a] \in Memory /\ mem[a].say \in Report
  BY DEF reportPreview, TypeInv, AgentsOK, Memory
<1>2. r \in Request /\ r.from = <<a, "poll">>
  BY <1>1, ArrivingOK DEF TypeInv
<1>3. m \in Memory /\ m.pc = "posted" /\ m.tick = mem[a].tick /\ m.cmd = mem[a].cmd
  BY <1>1 DEF Memory
<1>4. mem' = [mem EXCEPT ![a] = m]
  BY DEF reportPreview, TypeInv, AgentsOK
<1>5. /\ requests' = [requests EXCEPT ![h] = r]
      /\ UNCHANGED <<row, manifests, rows, applied, pending, crashes>>
  BY DEF reportPreview
<1> HIDE DEF r, m
<1> QED
  BY <1>1, <1>2, <1>3, <1>4, <1>5, PostKeeps

LEMMA FlushPendingKeeps ==
  ASSUME TypeInv, NEW a \in Agent, NEW h \in Handler, flushPending(a, h)
  PROVE  TypeInv'
<1> DEFINE r == Arriving("completeRender", None, Head(pending[a]), <<a, "tick">>)
           m == [mem[a] EXCEPT !.tick = "posted"]
<1>1. /\ mem[a].tick = "idle" /\ mem[a] \in Memory
      /\ pending[a] # <<>> /\ Head(pending[a]) \in Report
  BY DEF flushPending, TypeInv, AgentsOK
<1>2. r \in Request /\ r.from = <<a, "tick">>
  <2>1. <<a, "tick">> \in (Agent \X {"poll", "tick"}) \cup {Nobody}
    OBVIOUS
  <2>2. None \in Source \cup {None}
    OBVIOUS
  <2> QED
    BY <1>1, <2>1, <2>2, ArrivingOK DEF TypeInv
<1>3. m \in Memory /\ m.tick = "posted" /\ m.pc = mem[a].pc /\ m.cmd = mem[a].cmd
  BY <1>1 DEF Memory
<1>4. mem' = [mem EXCEPT ![a] = m]
  BY DEF flushPending, TypeInv, AgentsOK
<1>5. /\ requests' = [requests EXCEPT ![h] = r]
      /\ UNCHANGED <<row, manifests, rows, applied, pending, crashes>>
  BY DEF flushPending
<1> HIDE DEF r, m
<1> QED
  BY <1>1, <1>2, <1>3, <1>4, <1>5, PostKeeps

LEMMA CrashKeeps ==
  ASSUME TypeInv, NEW a \in Agent, crash(a)
  PROVE  TypeInv'
<1>1. RequestsOK'
  <2>1. \A h \in Handler : requests[h] # Free => [requests[h] EXCEPT !.from = Nobody] \in Request
    BY DEF TypeInv, RequestsOK, Request
  <2> QED
    BY <2>1 DEF crash, TypeInv, RequestsOK
<1>2. ASSUME NEW g \in Handler, NEW b \in Agent, NEW l \in {"poll", "tick"},
             Waits(requests'[g], b, l)
      PROVE  b # a /\ Waits(requests[g], b, l)
  <2>1. requests'[g] = IF requests[g] # Free /\ requests[g].from[1] = a
                       THEN [requests[g] EXCEPT !.from = Nobody] ELSE requests[g]
    BY DEF crash
  <2>2. CASE requests[g] # Free /\ requests[g].from[1] = a
    <3>1. requests'[g].from = Nobody
      BY <2>1, <2>2 DEF TypeInv, RequestsOK, Request
    <3> QED
      BY <1>2, <3>1 DEF Waits, Nobody, None
  <2>3. CASE ~(requests[g] # Free /\ requests[g].from[1] = a)
    BY <1>2, <2>1, <2>3 DEF Waits
  <2> QED
    BY <2>2, <2>3
<1>3. OneWaits'
  BY <1>2 DEF TypeInv, OneWaits
<1>4. WaitsOK'
  BY <1>2 DEF crash, TypeInv, WaitsOK, AgentsOK
<1>5. AgentsOK'
  BY FreshOK DEF crash, TypeInv, AgentsOK
<1>6. TableOK' /\ CommandsOK'
  BY BoundsAssumption DEF crash, TypeInv, TableOK, CommandsOK
<1> QED
  BY <1>1, <1>3, <1>4, <1>5, <1>6 DEF TypeInv

-----------------------------------------------------------------------------
LEMMA TypeInitial == Init => TypeInv
<1> SUFFICES ASSUME Init PROVE TypeInv
  OBVIOUS
<1>1. TableOK /\ CommandsOK
  BY NoRowOK, ManifestedAssumption, BoundsAssumption DEF Init, TableOK, CommandsOK
<1>2. RequestsOK /\ WaitsOK /\ OneWaits
  BY DEF Init, RequestsOK, WaitsOK, OneWaits, Waits
<1>3. AgentsOK
  BY FreshOK DEF Init, AgentsOK
<1> QED
  BY <1>1, <1>2, <1>3 DEF TypeInv

LEMMA TypeInductive == TypeInv /\ [Next]_vars => TypeInv'
<1> SUFFICES ASSUME TypeInv, [Next]_vars PROVE TypeInv'
  OBVIOUS
<1>1. ASSUME NEW h \in Handler, requestRender(h) PROVE TypeInv'
  BY <1>1, AsksKeeps DEF requestRender
<1>2. ASSUME NEW h \in Handler, NEW s \in Source, selectSource(h, s) PROVE TypeInv'
  BY <1>2, AsksKeeps DEF selectSource
<1>3. ASSUME NEW h \in Handler, Serve(h) PROVE TypeInv'
  BY <1>3, ReadRowKeeps, ReadManifestsKeeps, SaveRowKeeps, QueueCommandKeeps DEF Serve
<1>4. ASSUME NEW i \in DOMAIN rows, LeaseExpires(i) PROVE TypeInv'
  BY <1>4, LeaseExpiresKeeps
<1>5. ASSUME NEW a \in Agent, LateManifest(a) PROVE TypeInv'
  BY <1>5 DEF LateManifest, TypeInv, TableOK, CommandsOK, RequestsOK, AgentsOK, WaitsOK, OneWaits
<1>6. ASSUME NEW a \in Agent, PollLoop(a) PROVE TypeInv'
  BY <1>6, SweepAbandonedKeeps, NextCommandKeeps, DuplicateKeeps, RenderPreviewKeeps,
     RenderKeeps, ReportPreviewKeeps, ReportPreviewFailsKeeps, AckKeeps DEF PollLoop
<1>7. ASSUME NEW a \in Agent, TickLoop(a) PROVE TypeInv'
  BY <1>7, FlushPendingKeeps DEF TickLoop
<1>8. ASSUME NEW a \in Agent, crash(a) PROVE TypeInv'
  BY <1>8, CrashKeeps
<1>9. CASE UNCHANGED vars
  BY <1>9 DEF vars, TypeInv, TableOK, CommandsOK, RequestsOK, AgentsOK, WaitsOK, OneWaits
<1> QED
  BY <1>1, <1>2, <1>3, <1>4, <1>5, <1>6, <1>7, <1>8, <1>9 DEF Next

\* Every reachable state is of its type: the answer to a posted report finds
\* the command it settles, and in flushPending the pending report it removes.
THEOREM TypeCorrect == Spec => []TypeOK
<1>1. Spec => []TypeInv
  BY TypeInitial, TypeInductive, PTL DEF Spec
<1>2. TypeInv => TypeOK
  BY TypeInvTypes
<1> QED
  BY <1>1, <1>2, PTL

-----------------------------------------------------------------------------
\* A whole set.  What a report's request verifies against, `seen', holds all
\* the manifests that were there when it came, for manifests only arrive.

WholeOK(q, ms) == /\ q.begun \subseteq ms
                  /\ q.op = "completeRender" /\ q.at = "save" /\ targetState(q.report) = "ready"
                     => q.begun \subseteq q.seen
WholeInv == \A h \in Handler : requests[h] # Free => WholeOK(requests[h], manifests)

\* One slot changes, and what is put there has verified enough.
LEMMA WholeSlot ==
  ASSUME TypeInv, WholeInv, NEW h \in Handler, NEW r,
         requests' = [requests EXCEPT ![h] = r], r # Free => WholeOK(r, manifests),
         manifests' = manifests
  PROVE  WholeInv'
<1> SUFFICES ASSUME NEW g \in Handler, requests'[g] # Free
             PROVE  WholeOK(requests'[g], manifests')
  BY DEF WholeInv, WholeOK
<1>1. CASE g = h
  BY <1>1 DEF TypeInv, RequestsOK
<1>2. CASE g # h
  BY <1>2 DEF TypeInv, RequestsOK, WholeInv
<1> QED
  BY <1>1, <1>2

LEMMA WholeAnswered ==
  ASSUME TypeInv, WholeInv, NEW h \in Handler, Answer(h), manifests' = manifests
  PROVE  WholeInv'
<1>1. requests' = [requests EXCEPT ![h] = Free]
  BY DEF Answer
<1> QED
  BY <1>1, WholeSlot

LEMMA WholeArrives ==
  ASSUME TypeInv, WholeInv, NEW h \in Handler, NEW op, NEW source, NEW r, NEW from,
         requests' = [requests EXCEPT ![h] = Arriving(op, source, r, from)],
         manifests' = manifests
  PROVE  WholeInv'
<1>1. WholeOK(Arriving(op, source, r, from), manifests)
  BY DEF Arriving, WholeOK
<1> QED
  BY <1>1, WholeSlot

LEMMA WholeServe ==
  ASSUME TypeInv, WholeInv, NEW h \in Handler, Serve(h)
  PROVE  WholeInv'
<1> DEFINE q == requests[h]
<1>1. manifests' = manifests
  BY DEF Serve, ReadRow, ReadManifests, SaveRow, QueueCommand
<1>2. q \in Request /\ q # Free /\ WholeOK(q, manifests)
  BY DEF Serve, ReadRow, ReadManifests, SaveRow, QueueCommand, TypeInv, RequestsOK, WholeInv
<1>3. CASE Answer(h)
  BY <1>1, <1>3, WholeAnswered
<1>4. CASE ReadRow(h) /\ ~Answer(h)
  <2> DEFINE at == IF q.op = "completeRender" /\ targetState(q.report) # "ready"
                   THEN "save" ELSE "manifests"
             r == [q EXCEPT !.row = row, !.at = at]
  <2>1. requests' = [requests EXCEPT ![h] = r]
    BY <1>4 DEF ReadRow, Proceed
  <2>2. /\ r.begun = q.begun /\ r.op = q.op /\ r.report = q.report
        /\ r.at = IF q.op = "completeRender" /\ targetState(q.report) # "ready"
                  THEN "save" ELSE "manifests"
    BY <1>2 DEF Request
  <2>3. WholeOK(r, manifests)
    BY <1>2, <2>2 DEF WholeOK
  <2> HIDE DEF r
  <2> QED
    BY <1>1, <2>1, <2>3, WholeSlot
<1>5. CASE ReadManifests(h) /\ ~Answer(h)
  <2> DEFINE r == [q EXCEPT !.seen = manifests, !.at = "save"]
  <2>1. requests' = [requests EXCEPT ![h] = r]
    BY <1>5 DEF ReadManifests, Proceed
  <2>2. r.begun = q.begun /\ r.seen = manifests
    BY <1>2 DEF Request
  <2>3. WholeOK(r, manifests)
    BY <1>2, <2>2 DEF WholeOK
  <2> HIDE DEF r
  <2> QED
    BY <1>1, <2>1, <2>3, WholeSlot
<1>6. CASE SaveRow(h) /\ ~Answer(h)
  <2> DEFINE r == [q EXCEPT !.at = "queue"]
  <2>1. requests' = [requests EXCEPT ![h] = r]
    BY <1>2, <1>6 DEF SaveRow, Proceed, Request
  <2>2. r.begun = q.begun /\ r.at = "queue"
    BY <1>2 DEF Request
  <2>3. WholeOK(r, manifests)
    BY <1>2, <2>2 DEF WholeOK
  <2> HIDE DEF r
  <2> QED
    BY <1>1, <2>1, <2>3, WholeSlot
<1> QED
  BY <1>3, <1>4, <1>5, <1>6 DEF Serve, QueueCommand

LEMMA WholeCrash ==
  ASSUME TypeInv, WholeInv, NEW a \in Agent, crash(a)
  PROVE  WholeInv'
<1>1. manifests' = manifests
  BY DEF crash
<1> SUFFICES ASSUME NEW g \in Handler, requests'[g] # Free
             PROVE  WholeOK(requests'[g], manifests)
  BY <1>1 DEF WholeInv, WholeOK
<1>2. \/ requests'[g] = requests[g]
      \/ requests[g] # Free /\ requests'[g] = [requests[g] EXCEPT !.from = Nobody]
  BY DEF crash
<1>3. requests[g] # Free
  BY <1>2
<1>4. requests[g] \in Request /\ WholeOK(requests[g], manifests)
  BY <1>3 DEF TypeInv, RequestsOK, WholeInv
<1> QED
  BY <1>2, <1>4 DEF WholeOK, Request

LEMMA WholeInitial == Init => WholeInv
BY DEF Init, WholeInv

LEMMA WholeInductive == TypeInv /\ WholeInv /\ [Next]_vars => WholeInv'
<1> SUFFICES ASSUME TypeInv, WholeInv, [Next]_vars PROVE WholeInv'
  OBVIOUS
<1>1. ASSUME NEW h \in Handler, requestRender(h) PROVE WholeInv'
  BY <1>1, WholeArrives DEF requestRender, OperatorAsks
<1>2. ASSUME NEW h \in Handler, NEW s \in Source, selectSource(h, s) PROVE WholeInv'
  BY <1>2, WholeArrives DEF selectSource, OperatorAsks
<1>3. ASSUME NEW h \in Handler, Serve(h) PROVE WholeInv'
  BY <1>3, WholeServe
<1>4. ASSUME NEW a \in Agent, LateManifest(a) PROVE WholeInv'
  BY <1>4 DEF LateManifest, WholeInv, WholeOK
<1>5. ASSUME NEW a \in Agent, NEW h \in Handler, reportPreview(a, h) PROVE WholeInv'
  BY <1>5, WholeArrives DEF reportPreview
<1>6. ASSUME NEW a \in Agent, NEW h \in Handler, flushPending(a, h) PROVE WholeInv'
  BY <1>6, WholeArrives DEF flushPending
<1>7. ASSUME NEW a \in Agent, crash(a) PROVE WholeInv'
  BY <1>7, WholeCrash
<1>8. CASE UNCHANGED <<requests, manifests>>
  BY <1>8 DEF WholeInv
<1>9. ASSUME NEW a \in Agent, PollLoop(a)
      PROVE  (\E h \in Handler : reportPreview(a, h)) \/ UNCHANGED <<requests, manifests>>
  BY <1>9 DEF PollLoop, SweepAbandoned, nextCommand, Duplicate, renderPreview, render,
              reportPreviewFails, Ack
<1>10. ASSUME NEW i \in DOMAIN rows, LeaseExpires(i) PROVE UNCHANGED <<requests, manifests>>
  BY <1>10 DEF LeaseExpires
<1> QED
  BY <1>1, <1>2, <1>3, <1>4, <1>5, <1>6, <1>7, <1>8, <1>9, <1>10 DEF Next, TickLoop, vars

\* Only a request that saves changes the row.
LEMMA RowSaved ==
  ASSUME [Next]_vars, row' # row
  PROVE  \E h \in Handler : SaveRow(h)
BY DEF Next, vars, requestRender, selectSource, OperatorAsks, Serve, ReadRow, ReadManifests,
       QueueCommand, LeaseExpires, LateManifest, PollLoop, SweepAbandoned, nextCommand,
       Duplicate, renderPreview, render, reportPreview, reportPreviewFails, Ack, TickLoop,
       flushPending, crash

\* What completeRender makes ready covers what it verified against.
LEMMA CompletedIsWhole ==
  ASSUME NEW q \in Request, Completed(q).state = "ready",
         targetState(q.report) = "ready" => q.begun \subseteq q.seen
  PROVE  Whole(Completed(q).artifacts, q.begun)
<1>1. q.row \in PreviewRow /\ q.report \in Report
  BY DEF Request
<1>2. targetState(q.report) = "ready" /\ ~incompleteness(q.report.artifacts, q.seen)
  BY <1>1 DEF Completed, PreviewRow
<1>3. Completed(q).artifacts = q.report.artifacts
  BY <1>1, <1>2 DEF Completed, PreviewRow
<1>4. audioTrackRefs(q.begun) \subseteq audioTrackRefs(q.seen)
  BY <1>2, RefsGrow
<1> QED
  BY <1>2, <1>3, <1>4 DEF Whole, incompleteness

LEMMA ReadyStep ==
  ASSUME TypeInv, WholeInv, [Next]_vars, NEW h \in Handler, Completes(h),
         row'.state = "ready", row.state # "ready"
  PROVE  Whole(row'.artifacts, requests[h].begun)
<1>1. PICK g \in Handler : SaveRow(g)
  BY RowSaved
<1>2. requests[g] \in Request /\ requests[h] \in Request
  BY <1>1 DEF SaveRow, Completes, TypeInv, RequestsOK
<1>3. g = h
  <2>1. SUFFICES ASSUME g # h PROVE requests'[h] = requests[h]
    BY DEF Completes
  <2> QED
    BY <1>1, <1>2, <2>1 DEF SaveRow, Answer, Proceed, TypeInv, RequestsOK, Request
<1>4. row' = Completed(requests[h])
  BY <1>1, <1>3 DEF SaveRow, Completes
<1>5. targetState(requests[h].report) = "ready" => requests[h].begun \subseteq requests[h].seen
  BY <1>1, <1>3 DEF SaveRow, Completes, WholeInv, WholeOK
<1> QED
  BY <1>2, <1>4, <1>5, CompletedIsWhole

\* However many agents record and however requests to the API overlap,
\* completeRender makes no preview ready that lacks the video or the audio of
\* a source known when the report came.
THEOREM ReadySetsAreWhole == Spec => ReadyWasWhole
<1>1. Spec => [](TypeInv /\ WholeInv)
  <2>1. Init => TypeInv /\ WholeInv
    BY TypeInitial, WholeInitial
  <2>2. (TypeInv /\ WholeInv) /\ [Next]_vars => (TypeInv /\ WholeInv)'
    BY TypeInductive, WholeInductive
  <2> QED
    BY <2>1, <2>2, PTL DEF Spec
<1>2. TypeInv /\ WholeInv /\ [Next]_vars
      => [\A h \in Handler :
            Completes(h) /\ row'.state = "ready" /\ row.state # "ready"
            => Whole(row'.artifacts, requests[h].begun)]_vars
  BY ReadyStep
<1> QED
  BY <1>1, <1>2, PTL DEF Spec, ReadyWasWhole

-----------------------------------------------------------------------------
\* One request at a time: what a request read of the row is still there when
\* it saves, and a request that would render or report anew gave up on reading
\* that the set is ready.  Agents and their crashes are not held back.

Serial == \A g, h \in Handler : g = h

Current(q, r) == q # Free /\ q.at \in {"manifests", "save"} =>
                   q.row = r /\ (q.op = "selectSource" \/ r.state # "ready")
CurrentInv == \A h \in Handler : Current(requests[h], row)

\* The only request there is moves on, or is answered.
LEMMA CurrentSlot ==
  ASSUME Serial, TypeInv, NEW h \in Handler, NEW r,
         requests' = [requests EXCEPT ![h] = r], Current(r, row')
  PROVE  CurrentInv'
<1>1. \A g \in Handler : requests'[g] = r
  BY DEF TypeInv, RequestsOK, Serial
<1> QED
  BY <1>1 DEF CurrentInv, Current

LEMMA CurrentAnswered ==
  ASSUME Serial, TypeInv, NEW h \in Handler, Answer(h)
  PROVE  CurrentInv'
BY CurrentSlot DEF Answer, Current

LEMMA CurrentArrives ==
  ASSUME Serial, TypeInv, NEW h \in Handler, NEW op, NEW source, NEW r, NEW from,
         requests' = [requests EXCEPT ![h] = Arriving(op, source, r, from)]
  PROVE  CurrentInv'
<1>1. Arriving(op, source, r, from).at = "row"
  BY DEF Arriving
<1>2. Current(Arriving(op, source, r, from), row')
  BY <1>1 DEF Current
<1> QED
  BY <1>2, CurrentSlot

LEMMA CurrentServe ==
  ASSUME Serial, TypeInv, CurrentInv, NEW h \in Handler, Serve(h)
  PROVE  CurrentInv'
<1> DEFINE q == requests[h]
<1>1. q \in Request /\ q # Free /\ Current(q, row) /\ row \in PreviewRow
  BY DEF Serve, ReadRow, ReadManifests, SaveRow, QueueCommand, TypeInv, RequestsOK, TableOK,
         CurrentInv
<1>2. CASE Answer(h)
  BY <1>2, CurrentAnswered
<1>3. CASE ReadRow(h) /\ ~Answer(h)
  <2> DEFINE at == IF q.op = "completeRender" /\ targetState(q.report) # "ready"
                   THEN "save" ELSE "manifests"
             r == [q EXCEPT !.row = row, !.at = at]
  <2>1. requests' = [requests EXCEPT ![h] = r] /\ row' = row
    BY <1>3 DEF ReadRow, Proceed
  <2>2. r.op = q.op /\ r.row = row
    BY <1>1 DEF Request
  <2>3. q.op = "requestRender" => row.state # "ready"
    BY <1>3 DEF ReadRow
  <2>4. q.op = "completeRender" => row.state # "ready"
    <3>1. ASSUME q.op = "completeRender"
          PROVE  row # NoRow /\ targetState(q.report) \in LEGAL[row.state]
      BY <1>3, <3>1 DEF ReadRow, isLegalPreviewTransition
    <3> QED
      BY <3>1 DEF LEGAL
  <2>5. q.op \in {"requestRender", "selectSource", "completeRender"}
    BY <1>1 DEF Request
  <2> HIDE DEF r
  <2>6. Current(r, row')
    BY <2>1, <2>2, <2>3, <2>4, <2>5 DEF Current
  <2> QED
    BY <2>1, <2>6, CurrentSlot
<1>4. CASE ReadManifests(h) /\ ~Answer(h)
  <2> DEFINE r == [q EXCEPT !.seen = manifests, !.at = "save"]
  <2>1. requests' = [requests EXCEPT ![h] = r] /\ row' = row /\ q.at = "manifests"
    BY <1>4 DEF ReadManifests, Proceed
  <2>2. r.op = q.op /\ r.row = q.row
    BY <1>1 DEF Request
  <2> HIDE DEF r
  <2>3. Current(r, row')
    BY <1>1, <2>1, <2>2 DEF Current
  <2> QED
    BY <2>1, <2>3, CurrentSlot
<1>5. CASE SaveRow(h) /\ ~Answer(h)
  <2> DEFINE r == [q EXCEPT !.at = "queue"]
  <2>1. requests' = [requests EXCEPT ![h] = r]
    BY <1>1, <1>5 DEF SaveRow, Proceed, Request
  <2>2. r.at = "queue"
    BY <1>1 DEF Request
  <2> HIDE DEF r
  <2>3. Current(r, row')
    BY <2>2 DEF Current
  <2> QED
    BY <2>1, <2>3, CurrentSlot
<1> QED
  BY <1>2, <1>3, <1>4, <1>5 DEF Serve, QueueCommand

LEMMA CurrentCrash ==
  ASSUME TypeInv, CurrentInv, NEW a \in Agent, crash(a)
  PROVE  CurrentInv'
<1>1. row' = row
  BY DEF crash
<1> SUFFICES ASSUME NEW g \in Handler
             PROVE  Current(requests'[g], row)
  BY <1>1 DEF CurrentInv, Current
<1>2. \/ requests'[g] = requests[g]
      \/ requests[g] # Free /\ requests'[g] = [requests[g] EXCEPT !.from = Nobody]
  BY DEF crash
<1>3. Current(requests[g], row)
  BY DEF CurrentInv
<1>4. requests[g] # Free => requests[g] \in Request
  BY DEF TypeInv, RequestsOK
<1> QED
  BY <1>2, <1>3, <1>4 DEF Current, Request

LEMMA CurrentInductive ==
  ASSUME Serial, TypeInv, CurrentInv, [Next]_vars
  PROVE  CurrentInv'
<1>1. ASSUME NEW h \in Handler, requestRender(h) PROVE CurrentInv'
  BY <1>1, CurrentArrives DEF requestRender, OperatorAsks
<1>2. ASSUME NEW h \in Handler, NEW s \in Source, selectSource(h, s) PROVE CurrentInv'
  BY <1>2, CurrentArrives DEF selectSource, OperatorAsks
<1>3. ASSUME NEW h \in Handler, Serve(h) PROVE CurrentInv'
  BY <1>3, CurrentServe
<1>4. ASSUME NEW a \in Agent, NEW h \in Handler, reportPreview(a, h) PROVE CurrentInv'
  BY <1>4, CurrentArrives DEF reportPreview
<1>5. ASSUME NEW a \in Agent, NEW h \in Handler, flushPending(a, h) PROVE CurrentInv'
  BY <1>5, CurrentArrives DEF flushPending
<1>6. ASSUME NEW a \in Agent, crash(a) PROVE CurrentInv'
  BY <1>6, CurrentCrash
<1>7. CASE UNCHANGED <<requests, row>>
  BY <1>7 DEF CurrentInv
<1>8. ASSUME NEW a \in Agent, PollLoop(a) \/ LateManifest(a)
      PROVE  (\E h \in Handler : reportPreview(a, h)) \/ UNCHANGED <<requests, row>>
  BY <1>8 DEF PollLoop, SweepAbandoned, nextCommand, Duplicate, renderPreview, render,
              reportPreviewFails, Ack, LateManifest
<1>9. ASSUME NEW i \in DOMAIN rows, LeaseExpires(i) PROVE UNCHANGED <<requests, row>>
  BY <1>9 DEF LeaseExpires
<1> QED
  BY <1>1, <1>2, <1>3, <1>4, <1>5, <1>6, <1>7, <1>8, <1>9 DEF Next, TickLoop, vars

\* A ready preview keeps its state and its artifacts, whatever reports arrive
\* late or twice and whatever is asked for, one request at a time.
THEOREM ReadyIsFinalHolds ==
  ASSUME Serial
  PROVE  Spec => ReadyIsFinal
<1>1. Init => CurrentInv
  BY DEF Init, CurrentInv, Current
<1>2. TypeInv /\ CurrentInv /\ [Next]_vars => CurrentInv'
  BY CurrentInductive
<1>3. TypeInv /\ CurrentInv /\ [Next]_vars =>
        [row.state = "ready" => row'.state = "ready" /\ row'.artifacts = row.artifacts]_vars
  <2> SUFFICES ASSUME TypeInv, CurrentInv, [Next]_vars, row.state = "ready", row' # row
               PROVE  row'.state = "ready" /\ row'.artifacts = row.artifacts
    OBVIOUS
  <2>1. PICK h \in Handler : SaveRow(h)
    BY RowSaved
  <2> DEFINE q == requests[h]
  <2>2. q \in Request /\ q.row = row /\ q.op = "selectSource"
    BY <2>1 DEF SaveRow, TypeInv, RequestsOK, CurrentInv, Current
  <2>3. row' = [row EXCEPT !.chosen = q.source] /\ row \in PreviewRow
    BY <2>1, <2>2 DEF SaveRow, TypeInv, TableOK
  <2> QED
    BY <2>3 DEF PreviewRow
<1> QED
  BY <1>1, <1>2, <1>3, TypeInitial, TypeInductive, PTL DEF Spec, ReadyIsFinal
=============================================================================
