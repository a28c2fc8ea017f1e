------------------------------ MODULE Preview ------------------------------
(***************************************************************************)
(* The preview of one stored session: the row of session_previews, the     *)
(* render-preview commands it queues, and the agents that render.          *)
(*                                                                         *)
(* An API request is cut at its awaits.  It reads the row, then the        *)
(* manifests, and saves the whole row it read; what other requests saved   *)
(* in between is overwritten.  Delivery of commands is as in               *)
(* RecordingSystem, and so is an agent's poll loop; of the tick loop only  *)
(* the re-sending of reports is here.                                      *)
(***************************************************************************)
EXTENDS Naturals, Sequences

CONSTANTS Agent,       \* the agents that recorded the session
          Source,      \* its audio sources
          Records,     \* Records[a]: the audio sources a's manifest names
          Manifested,  \* the agents whose manifest was there from the start
          Handler,     \* bound: requests the API serves at a time
          Cap,         \* ABANDON_AFTER_DELIVERIES
          Faults,      \* what may go wrong in this instance
          MaxRenders,  \* bound: render commands queued
          MaxCrashes   \* bound: how often an agent process dies

FaultKinds == {"undelivered", \* a request does not reach the API
               "unanswered",  \* a report is served, but the answer is lost
               "capture",     \* the agent records another session
               "render",      \* ffmpeg or the bucket fails the render
               "crash"}       \* an agent process dies

ASSUME RecordsAssumption == Records \in [Agent -> SUBSET Source]
ASSUME ManifestedAssumption == Manifested \subseteq Agent
ASSUME FaultsAssumption == Faults \subseteq FaultKinds
ASSUME BoundsAssumption == Cap \in Nat \ {0} /\ MaxRenders \in Nat /\ MaxCrashes \in Nat

VARIABLES
  row,       \* the session's row of session_previews
  manifests, \* the agents whose manifest was received
  requests,  \* requests[h]: what slot h of the API is serving
  rows,      \* the render-preview commands in issuedAt order
  mem,       \* mem[a]: the memory of a's process
  applied,   \* the ids of commands applied, durable
  pending,   \* pending[a]: reports not delivered, durable
  crashes    \* how often an agent has died

vars == <<row, manifests, requests, rows, mem, applied, pending, crashes>>

PreviewState == {"pending", "rendering", "ready", "failed"}
LEGAL == [pending   |-> {"rendering", "failed"},
          rendering |-> {"ready", "failed", "pending"},
          failed    |-> {"rendering"},
          ready     |-> {}]
\* Variant: a report is taken whatever the row says.
isLegalPreviewTransition_any(from, to) == TRUE
isLegalPreviewTransition(from, to) == to \in LEGAL[from]

None == "none"
Artifact == ({"audio", "peaks"} \X Source) \cup {<<"video", None>>}
PreviewRow == [state : PreviewState \cup {None}, artifacts : SUBSET Artifact,
               chosen : Source \cup {None}]
NoRow == [state |-> None, artifacts |-> {}, chosen |-> None]

\* An agent's report at the end of a render, and what the validation pipe
\* makes of it: PreviewArtifactDto knows two of the three kinds.
Report == [state : {"ready", "failed", "deferred"}, artifacts : SUBSET Artifact]
Saying(s) == [state |-> s, artifacts |-> {}]
Rejects(r) == \E x \in r.artifacts : x[1] \notin {"video", "audio"}

audioTrackRefs(ms) == UNION {Records[a] : a \in ms}

Command == [to : Agent, refs : SUBSET Source, count : 0..Cap, leased : BOOLEAN,
            acked : BOOLEAN]
Memory == [pc : {"idle", "got", "render", "post", "posted", "ack"}, cmd : Nat,
           say : Report, tick : {"idle", "posted"}]
Fresh == [pc |-> "idle", cmd |-> 0, say |-> Saying("failed"), tick |-> "idle"]

\* A request: op, the next step, the row and the manifests it has read, and
\* what it carries.  `begun' is history: the manifests received when it came.
Nobody == <<None, None>>
Request == [op : {"requestRender", "selectSource", "completeRender"},
            at : {"row", "manifests", "save", "queue"}, row : PreviewRow,
            seen : SUBSET Agent, begun : SUBSET Agent, source : Source \cup {None},
            report : Report, from : (Agent \X {"poll", "tick"}) \cup {Nobody}]
Free == [op |-> None]
Arriving(op, source, r, from) ==
  [op |-> op, at |-> "row", row |-> NoRow, seen |-> {}, begun |-> manifests,
   source |-> source, report |-> r, from |-> from]

TypeOK == /\ row \in PreviewRow
          /\ manifests \subseteq Agent
          /\ requests \in [Handler -> Request \cup {Free}]
          /\ rows \in Seq(Command)
          /\ mem \in [Agent -> Memory]
          /\ applied \subseteq DOMAIN rows
          /\ pending \in [Agent -> Seq(Report)]
          /\ crashes \in 0..MaxCrashes

Init == /\ row = NoRow
        /\ manifests = Manifested
        /\ requests = [h \in Handler |-> Free]
        /\ rows = <<>>
        /\ mem = [a \in Agent |-> Fresh]
        /\ applied = {}
        /\ pending = [a \in Agent |-> <<>>]
        /\ crashes = 0

-----------------------------------------------------------------------------
\* Requests of the operator, and their steps.  Bound: nobody chooses the
\* source that is chosen already.

OperatorAsks(h, op, source) ==
  /\ requests[h] = Free
  /\ requests' = [requests EXCEPT ![h] = Arriving(op, source, Saying("failed"), Nobody)]
  /\ UNCHANGED <<row, manifests, rows, mem, applied, pending, crashes>>

requestRender(h) == Len(rows) < MaxRenders /\ OperatorAsks(h, "requestRender", None)
selectSource(h, source) == source # row.chosen /\ OperatorAsks(h, "selectSource", source)

\* The request is over and, if it was an agent's, answered with 200 -- though
\* the answer may not arrive, and the agent then keeps the report for later.
Answer(h) ==
  /\ requests' = [requests EXCEPT ![h] = Free]
  /\ LET a == requests[h].from[1]
         loop == requests[h].from[2]
     IN \E ok \in {TRUE} \cup (IF "unanswered" \in Faults THEN {FALSE} ELSE {}) :
          CASE loop = None   -> ok /\ UNCHANGED <<mem, applied, pending>>
            [] loop = "poll" ->
                 /\ mem' = [mem EXCEPT ![a].pc = "ack"]
                 /\ applied' = applied \cup {mem[a].cmd}
                 /\ pending' = IF ok THEN pending
                               ELSE [pending EXCEPT ![a] = Append(@, mem[a].say)]
            [] loop = "tick" ->
                 /\ mem' = [mem EXCEPT ![a].tick = "idle"]
                 /\ pending' = IF ok THEN [pending EXCEPT ![a] = Tail(@)] ELSE pending
                 /\ UNCHANGED applied

Proceed(h, r) == /\ requests' = [requests EXCEPT ![h] = r]
                 /\ UNCHANGED <<mem, applied, pending>>

\* Variant: standing aside for a recording is not a state of the row.
targetState_stays(r) == CASE r.state = "ready"    -> "ready"
                          [] r.state = "deferred" -> "rendering"
                          [] OTHER                -> "failed"
targetState(r) == CASE r.state = "ready"    -> "ready"
                    [] r.state = "deferred" -> "pending"
                    [] OTHER                -> "failed"

\* findOne.  A render that is ready or running is not asked for again; a
\* report without a row, or one the table does not allow, is ignored.
ReadRow(h) ==
  LET q == requests[h] IN
  /\ q # Free /\ q.at = "row"
  /\ IF \/ q.op = "requestRender" /\ row.state \in {"ready", "rendering"}
        \/ /\ q.op = "completeRender"
           /\ row = NoRow \/ ~isLegalPreviewTransition(row.state, targetState(q.report))
     THEN Answer(h)
     ELSE Proceed(h, [q EXCEPT !.row = row,
            !.at = IF q.op = "completeRender" /\ targetState(q.report) # "ready"
                   THEN "save" ELSE "manifests"])
  /\ UNCHANGED <<row, manifests, rows, crashes>>

\* The manifests.  Without one there is no host to render, and no source to
\* choose; a choice also needs a row.
ReadManifests(h) ==
  LET q == requests[h] IN
  /\ q # Free /\ q.at = "manifests"
  /\ IF \/ q.op = "requestRender" /\ manifests = {}
        \/ /\ q.op = "selectSource"
           /\ q.source \notin audioTrackRefs(manifests) \/ q.row = NoRow
     THEN Answer(h)
     ELSE Proceed(h, [q EXCEPT !.seen = manifests, !.at = "save"])
  /\ UNCHANGED <<row, manifests, rows, crashes>>

\* Variant: the agent's word that the set is whole is taken.
incompleteness_trusting(artifacts, ms) == <<"video", None>> \notin artifacts
\* A set without the video or without one source's audio is not ready.
incompleteness(artifacts, ms) ==
  \/ <<"video", None>> \notin artifacts
  \/ \E s \in audioTrackRefs(ms) : <<"audio", s>> \notin artifacts

\* What completeRender makes of the row it read.
Completed(q) ==
  IF targetState(q.report) # "ready"
  THEN [q.row EXCEPT !.state = targetState(q.report)]
  ELSE IF incompleteness(q.report.artifacts, q.seen)
       THEN [q.row EXCEPT !.state = "failed"]
       ELSE [q.row EXCEPT !.state = "ready", !.artifacts = q.report.artifacts]

\* save(): the whole row.  A first render inserts it, and the unique index on
\* sessionId refuses the second of two inserts.
SaveRow(h) ==
  LET q == requests[h] IN
  /\ q # Free /\ q.at = "save"
  /\ CASE q.op = "requestRender" ->
            IF q.row = NoRow /\ row # NoRow
            THEN Answer(h) /\ UNCHANGED row
            ELSE row' = [q.row EXCEPT !.state = "rendering"]
                 /\ Proceed(h, [q EXCEPT !.at = "queue"])
       [] q.op = "selectSource" ->
            row' = [q.row EXCEPT !.chosen = q.source] /\ Answer(h)
       [] q.op = "completeRender" ->
            row' = Completed(q) /\ Answer(h)
  /\ UNCHANGED <<manifests, rows, crashes>>

\* The command goes to the host of the first manifest found: with several,
\* whichever the database returns first.
QueueCommand(h) ==
  LET q == requests[h] IN
  /\ q # Free /\ q.at = "queue"
  /\ \E a \in q.seen :
       rows' = Append(rows, [to |-> a, refs |-> audioTrackRefs(q.seen), count |-> 0,
                             leased |-> FALSE, acked |-> FALSE])
  /\ Answer(h)
  /\ UNCHANGED <<row, manifests, crashes>>

Serve(h) == ReadRow(h) \/ ReadManifests(h) \/ SaveRow(h) \/ QueueCommand(h)

\* ingestManifest does not ask for the session's state: one may come late.
LateManifest(a) ==
  /\ a \notin manifests
  /\ manifests' = manifests \cup {a}
  /\ UNCHANGED <<row, requests, rows, mem, applied, pending, crashes>>

-----------------------------------------------------------------------------
\* The delivery of a command

abandoned(a) == {i \in DOMAIN rows : rows[i].to = a /\ ~rows[i].acked /\ rows[i].count >= Cap}
Deliverable(a) ==
  {i \in DOMAIN rows : /\ rows[i].to = a /\ ~rows[i].acked
                       /\ rows[i].count < Cap /\ ~rows[i].leased}

\* The session is stored and cannot fail, so the command is only retired.
SweepAbandoned(a) ==
  /\ mem[a].pc = "idle"
  /\ abandoned(a) # {}
  /\ rows' = [i \in DOMAIN rows |->
                IF i \in abandoned(a) THEN [rows[i] EXCEPT !.acked = TRUE] ELSE rows[i]]
  /\ UNCHANGED <<row, manifests, requests, mem, applied, pending, crashes>>

\* A handout whose answer is lost is a crash right after it.
nextCommand(a) ==
  /\ mem[a].pc = "idle"
  /\ abandoned(a) = {}
  /\ \E i \in Deliverable(a) :
       /\ \A j \in Deliverable(a) : i <= j
       /\ rows' = [rows EXCEPT ![i].count = @ + 1, ![i].leased = TRUE]
       /\ mem' = [mem EXCEPT ![a].pc = "got", ![a].cmd = i]
  /\ UNCHANGED <<row, manifests, requests, applied, pending, crashes>>

LeaseExpires(i) ==
  /\ i \in DOMAIN rows
  /\ rows[i].leased /\ ~rows[i].acked
  /\ mem[rows[i].to].pc = "idle"
  /\ rows' = [rows EXCEPT ![i].leased = FALSE]
  /\ UNCHANGED <<row, manifests, requests, mem, applied, pending, crashes>>

Duplicate(a) ==
  /\ mem[a].pc = "got" /\ mem[a].cmd \in applied
  /\ mem' = [mem EXCEPT ![a].pc = "ack"]
  /\ UNCHANGED <<row, manifests, requests, rows, applied, pending, crashes>>

\* An acknowledgement that is lost is a crash right before it.
Ack(a) ==
  /\ mem[a].pc = "ack"
  /\ rows' = [rows EXCEPT ![mem[a].cmd].acked = TRUE]
  /\ mem' = [mem EXCEPT ![a].pc = "idle", ![a].cmd = 0, ![a].say = Saying("failed")]
  /\ UNCHANGED <<row, manifests, requests, applied, pending, crashes>>

-----------------------------------------------------------------------------
\* The agent: renderPreview, reportPreview and flushPending

\* A render stands aside for a recording, which is of another session.
renderPreview(a) ==
  /\ mem[a].pc = "got" /\ mem[a].cmd \notin applied
  /\ \/ mem' = [mem EXCEPT ![a].pc = "render"]
     \/ "capture" \in Faults /\ mem' = [mem EXCEPT ![a].pc = "post", ![a].say = Saying("deferred")]
  /\ UNCHANGED <<row, manifests, requests, rows, applied, pending, crashes>>

\* The video, and for every source asked for its audio and its peaks.
Rendered(refs) == {<<"video", None>>} \cup ({"audio", "peaks"} \X refs)

\* The renderer reads this host's media only: a source another host recorded
\* has no segments here, and the whole render fails.
render(a) ==
  /\ mem[a].pc = "render"
  /\ LET refs == rows[mem[a].cmd].refs IN
     \E r \in (IF refs \subseteq Records[a]
               THEN {[state |-> "ready", artifacts |-> Rendered(refs)]} ELSE {})
              \cup (IF "render" \in Faults \/ ~(refs \subseteq Records[a])
                    THEN {Saying("failed")} ELSE {}) :
       mem' = [mem EXCEPT ![a].pc = "post", ![a].say = r]
  /\ UNCHANGED <<row, manifests, requests, rows, applied, pending, crashes>>

reportPreview(a, h) ==
  /\ mem[a].pc = "post" /\ ~Rejects(mem[a].say)
  /\ requests[h] = Free
  /\ requests' = [requests EXCEPT ![h] =
                    Arriving("completeRender", None, mem[a].say, <<a, "poll">>)]
  /\ mem' = [mem EXCEPT ![a].pc = "posted"]
  /\ UNCHANGED <<row, manifests, rows, applied, pending, crashes>>

\* A report that is refused or does not reach the API is kept.
reportPreviewFails(a) ==
  /\ mem[a].pc = "post"
  /\ Rejects(mem[a].say) \/ "undelivered" \in Faults
  /\ pending' = [pending EXCEPT ![a] = Append(@, mem[a].say)]
  /\ applied' = applied \cup {mem[a].cmd}
  /\ mem' = [mem EXCEPT ![a].pc = "ack"]
  /\ UNCHANGED <<row, manifests, requests, rows, crashes>>

\* The oldest report that was kept goes first; while the API refuses it,
\* nothing behind it is sent.
flushPending(a, h) ==
  /\ mem[a].tick = "idle"
  /\ pending[a] # <<>> /\ ~Rejects(Head(pending[a]))
  /\ requests[h] = Free
  /\ requests' = [requests EXCEPT ![h] =
                    Arriving("completeRender", None, Head(pending[a]), <<a, "tick">>)]
  /\ mem' = [mem EXCEPT ![a].tick = "posted"]
  /\ UNCHANGED <<row, manifests, rows, applied, pending, crashes>>

\* A process dies in the middle of something and its service manager starts
\* it again.  A request in progress is served to its end, with nobody to answer.
crash(a) ==
  /\ "crash" \in Faults /\ crashes < MaxCrashes
  /\ mem[a] # Fresh
  /\ crashes' = crashes + 1
  /\ mem' = [mem EXCEPT ![a] = Fresh]
  /\ requests' = [h \in Handler |->
       IF requests[h] # Free /\ requests[h].from[1] = a
       THEN [requests[h] EXCEPT !.from = Nobody] ELSE requests[h]]
  /\ UNCHANGED <<row, manifests, rows, applied, pending>>

-----------------------------------------------------------------------------
PollLoop(a) == \/ SweepAbandoned(a)
               \/ nextCommand(a)
               \/ Duplicate(a)
               \/ renderPreview(a)
               \/ render(a)
               \/ \E h \in Handler : reportPreview(a, h)
               \/ reportPreviewFails(a)
               \/ Ack(a)
TickLoop(a) == \E h \in Handler : flushPending(a, h)

Next == \/ \E h \in Handler : \/ requestRender(h)
                              \/ \E s \in Source : selectSource(h, s)
                              \/ Serve(h)
        \/ \E i \in DOMAIN rows : LeaseExpires(i)
        \/ \E a \in Agent : \/ LateManifest(a)
                            \/ PollLoop(a)
                            \/ TickLoop(a)
                            \/ crash(a)

Spec == Init /\ [][Next]_vars

(***************************************************************************)
(* A request is served to its end, a lease is time, and the loops run for  *)
(* ever.  The loops get strong fairness because the real API serves any    *)
(* number of requests at a time: that a slot is taken is a bound of the    *)
(* model, not of the code.                                                 *)
(***************************************************************************)
FairSpec == /\ Spec
            /\ \A h \in Handler : WF_vars(Serve(h))
            /\ \A i \in 1..MaxRenders : WF_vars(LeaseExpires(i))
            /\ \A a \in Agent : /\ SF_vars(PollLoop(a))
                                /\ SF_vars(TickLoop(a))

-----------------------------------------------------------------------------
\* Properties

\* No report makes a preview ready unless it has the video and the audio of
\* every source that the manifests received before the report name, whichever
\* manifests the render was asked for with: completeRender verifies the set
\* and does not trust the agent.
Completes(h) == /\ requests[h] # Free
                /\ requests[h].op = "completeRender"
                /\ requests'[h] = Free
Whole(artifacts, ms) == /\ <<"video", None>> \in artifacts
                        /\ \A s \in audioTrackRefs(ms) : <<"audio", s>> \in artifacts
ReadyWasWhole ==
  [][\A h \in Handler :
       Completes(h) /\ row'.state = "ready" /\ row.state # "ready"
       => Whole(row'.artifacts, requests[h].begun)]_vars

\* A ready preview is not rendered again in place, whatever reports arrive
\* late or twice (session-preview.entity.ts:24).  Holds for requests served
\* one at a time: a row read earlier and saved over it undoes it.
ReadyIsFinal == [][row.state = "ready" => /\ row'.state = "ready"
                                          /\ row'.artifacts = row.artifacts]_vars

\* A command the sweep gave up on before any agent carried it out.
GivenUp == \E i \in DOMAIN rows : rows[i].acked /\ i \notin applied

\* A render of no audio whose command was not given up on ends: outages, lost
\* answers, failed renders, recordings in between and crashes do not leave the
\* row rendering.
SilentRenderSettles ==
  /\ row.state = "rendering"
  /\ \A i \in DOMAIN rows : rows[i].refs = {}
  /\ \A h \in Handler : requests[h] # Free => requests[h].at # "queue"
  ~> row.state # "rendering" \/ GivenUp

-----------------------------------------------------------------------------
\* What the comments say beyond this

\* preview.service.ts: never leave the row rendering forever with no reason on it.
RenderSettles == row.state = "rendering" ~> row.state # "rendering"
=============================================================================
