-------------------------- MODULE RecordingSystem --------------------------
(***************************************************************************)
(* One session, end to end: the API, the command queue, the bucket and the *)
(* agents that record it.                                                  *)
(*                                                                         *)
(* An agent process runs two loops that share its memory.  The poll loop   *)
(* takes one command at a time and carries it out; the tick loop watches   *)
(* the disk, uploads closed segments, and re-sends the reports an outage   *)
(* left behind.  A handler is cut into steps where the other loop or the   *)
(* rest of the system can come in between.  One request to the API is one  *)
(* step here: what can happen inside the API's handlers is the subject of  *)
(* SessionControl and CommandDelivery.                                     *)
(***************************************************************************)
EXTENDS SessionStates, Naturals, Sequences, FiniteSets

CONSTANTS Agent,      \* the agents that own a track of the session
          Cap,        \* ABANDON_AFTER_DELIVERIES
          Faults,     \* what may go wrong in this instance
          MaxCrashes, \* bound: how often an agent process dies
          MaxPending  \* bound: no request of an agent that holds back so many is lost

FaultKinds == {"undelivered", \* a request does not reach the API
               "unanswered",  \* it is served, but the answer is lost
               "crash",       \* an agent process dies
               "refuse",      \* a check of `prepare' fails: clock or disk
               "nosignal",    \* a camera of `prepare' delivers no frames
               "late",        \* a start is handled after T0
               "ffmpeg",      \* capture does not start, or all of it dies
               "disk",        \* free space falls below the floor
               "storage"}     \* the upload of a session fails

ASSUME CapAssumption == Cap \in Nat \ {0}
ASSUME FaultsAssumption == Faults \subseteq FaultKinds
ASSUME BoundsAssumption == MaxCrashes \in Nat /\ MaxPending \in Nat

VARIABLES
  \* the API and its database
  state,      \* the session's state
  reason,     \* its failureReason
  prefix,     \* whether its s3Prefix is fixed
  ready,      \* the readiness barrier
  rows,       \* rows[a]: a's rows of the commands table in issuedAt order
  manifests,  \* agents whose manifest was received
  saved,      \* history: whether the operator saved it
  t0,         \* "none", "ahead", or "past": by more than the tolerance
  \* the bucket
  objects,    \* objects[a]: how much of a's recording it holds
  \* the agents
  mem,        \* mem[a]: the memory of a's process
  applied,    \* applied[a]: the applied-set, durable
  pending,    \* pending[a]: reports not delivered, durable
  media,      \* media[a]: whether the session's directory exists on a's disk
  crashes,    \* crashes[a]: how often a has died
  captures,   \* history: captures[a], how often a started capturing
  diskStopped \* history: agents whose capture the disk floor ended

api == <<state, reason, prefix, ready, rows, manifests, saved, t0>>
local == <<applied, pending, media, crashes, captures, diskStopped>>
vars == <<api, objects, mem, local>>

CommandType == {"prepare", "start", "stop", "upload", "abort"}
Row == [type : CommandType, count : 0..Cap, leased : BOOLEAN, acked : BOOLEAN]

\* What an agent posts to the status route.  `refused' is a failure with a
\* reason; `detailed' is one that also carries a `detail'; `low' is a stop
\* the disk floor forced; `stray' is any report addressed to session null.
Report == {"ready", "recording", "stopped", "low", "refused", "detailed", "stray"}

\* pc: the poll loop; tick: the tick loop; say: the report about to be posted.
Memory == [pc : {"down", "idle", "got", "waitT0", "stopping", "aborting",
                 "purge", "complete", "post", "ack"},
           cmd : Nat, say : Report \cup {"none"},
           tick : {"idle", "sweeping", "stopping", "post"},
           sessionId : BOOLEAN, prepared : BOOLEAN, uploadPrefix : BOOLEAN,
           capture : {"none", "dead", "running", "stopping"}]
Fresh == [pc |-> "idle", cmd |-> 0, say |-> "none", tick |-> "idle",
          sessionId |-> FALSE, prepared |-> FALSE, uploadPrefix |-> FALSE,
          capture |-> "none"]

TypeOK == /\ state \in SessionState \cup {Absent}
          /\ reason \in {"none", "failed", "disk", "command_unacknowledged"}
          /\ prefix \in BOOLEAN
          /\ ready \subseteq Agent
          /\ rows \in [Agent -> Seq(Row)]
          /\ manifests \subseteq Agent
          /\ saved \in BOOLEAN
          /\ t0 \in {"none", "ahead", "past"}
          /\ objects \in [Agent -> {"none", "some", "all"}]
          /\ mem \in [Agent -> Memory]
          /\ applied \in [Agent -> SUBSET Nat]
          /\ pending \in [Agent -> Seq(Report)]
          /\ media \in [Agent -> BOOLEAN]
          /\ crashes \in [Agent -> Nat]
          /\ captures \in [Agent -> Nat]
          /\ diskStopped \subseteq Agent

Init == /\ state = Absent
        /\ reason = "none"
        /\ prefix = FALSE
        /\ ready = {}
        /\ rows = [a \in Agent |-> <<>>]
        /\ manifests = {}
        /\ saved = FALSE
        /\ t0 = "none"
        /\ objects = [a \in Agent |-> "none"]
        /\ mem = [a \in Agent |-> Fresh]
        /\ applied = [a \in Agent |-> {}]
        /\ pending = [a \in Agent |-> <<>>]
        /\ media = [a \in Agent |-> FALSE]
        /\ crashes = [a \in Agent |-> 0]
        /\ captures = [a \in Agent |-> 0]
        /\ diskStopped = {}

-----------------------------------------------------------------------------
\* The operator's requests and the commands they queue

\* One row of type t for every participant.
QueueAll(t) ==
  rows' = [a \in Agent |-> Append(rows[a], [type |-> t, count |-> 0,
                                           leased |-> FALSE, acked |-> FALSE])]

create == /\ state = Absent
          /\ state' = "preparing"
          /\ ready' = {}
          /\ QueueAll("prepare")
          /\ UNCHANGED <<reason, prefix, manifests, saved, t0, objects, mem, local>>

stop == /\ isLegalTransition(state, "stopping")
        /\ state' = "stopping"
        /\ QueueAll("stop")
        /\ UNCHANGED <<reason, prefix, ready, manifests, saved, t0, objects, mem, local>>

save == /\ isLegalTransition(state, "uploading")
        /\ state' = "uploading"
        /\ saved' = TRUE
        /\ prefix' = TRUE
        /\ QueueAll("upload")
        /\ UNCHANGED <<reason, ready, manifests, t0, objects, mem, local>>

discard == /\ isLegalTransition(state, "discarded")
           /\ state' = "discarded"
           /\ QueueAll("abort")
           /\ UNCHANGED <<reason, prefix, ready, manifests, saved, t0, objects, mem, local>>

\* The clock passes T0 and its tolerance.  An instance without the fault
\* "late" is one whose agents handle their start in time.
T0Passes ==
  /\ t0 = "ahead"
  /\ \/ "late" \in Faults
     \/ \A a \in Agent : \A i \in DOMAIN rows[a] :
          rows[a][i].type = "start" /\ ~rows[a][i].acked
          => rows[a][i].count > 0 /\ mem[a].pc # "got"
  /\ t0' = "past"
  /\ UNCHANGED <<state, reason, prefix, ready, rows, manifests, saved, objects, mem, local>>

-----------------------------------------------------------------------------
\* The status route

\* The answers that are not 2xx: an unknown field, session null, or a
\* transition the table does not have.
Rejects(a, r) ==
  \/ r \in {"detailed", "stray"}
  \/ r = "refused" /\ ~isLegalTransition(state, "failed")
  \/ r = "ready" /\ ready \cup {a} = Agent /\ ~isLegalTransition(state, "recording")

\* Variant: the barrier is tested before the report is added to it.
ReportReady_early(a) ==
  IF ready = Agent
  THEN /\ state' = "recording"
       /\ prefix' = TRUE
       /\ t0' = "ahead"
       /\ ready' = {}
       /\ QueueAll("start")
       /\ UNCHANGED <<reason, manifests, saved>>
  ELSE /\ ready' = ready \cup {a}
       /\ UNCHANGED <<state, reason, prefix, rows, manifests, saved, t0>>

ReportReady(a) ==
  IF ready \cup {a} = Agent
  THEN /\ state' = "recording"
       /\ prefix' = TRUE
       /\ t0' = "ahead"
       /\ ready' = {}
       /\ QueueAll("start")
       /\ UNCHANGED <<reason, manifests, saved>>
  ELSE /\ ready' = ready \cup {a}
       /\ UNCHANGED <<state, reason, prefix, rows, manifests, saved, t0>>

ReportFailed == /\ state' = "failed"
                /\ reason' = "failed"
                /\ ready' = {}
                /\ UNCHANGED <<prefix, rows, manifests, saved, t0>>

\* Variant: `stopped' sends the session to review whatever its state.
ReportStopped_always(why) ==
  /\ state' = "review"
  /\ UNCHANGED <<reason, prefix, ready, rows, manifests, saved, t0>>

ReportStopped(why) ==
  IF state = "stopping"
  THEN /\ state' = "review"
       /\ reason' = IF why = "low" THEN "disk" ELSE reason
       /\ UNCHANGED <<prefix, ready, rows, manifests, saved, t0>>
  ELSE UNCHANGED api

reportStatus(a, r) ==
  /\ ~Rejects(a, r)
  /\ CASE r = "ready"               -> ReportReady(a)
       [] r = "refused"             -> ReportFailed
       [] r \in {"stopped", "low"}  -> ReportStopped(r)
       [] r = "recording"           -> UNCHANGED api

\* What becomes of one post: served and answered, or refused, or lost on the
\* way there or back.  `ok' is whether the agent saw a 2xx.
Exchange(a, r, ok) ==
  \/ ok /\ reportStatus(a, r)
  \/ ~ok /\ Rejects(a, r) /\ UNCHANGED api
  \/ ~ok /\ "undelivered" \in Faults /\ UNCHANGED api
  \/ ~ok /\ "unanswered" \in Faults /\ reportStatus(a, r)

\* report(): a post that did not succeed is kept for later, whatever went wrong.
report(a, r) ==
  \/ Exchange(a, r, TRUE) /\ UNCHANGED pending
  \/ /\ Rejects(a, r) \/ Len(pending[a]) < MaxPending
     /\ Exchange(a, r, FALSE)
     /\ pending' = [pending EXCEPT ![a] = Append(@, r)]

-----------------------------------------------------------------------------
\* The poll loop: fetching a command, and finishing with it

abandoned(a) == {i \in DOMAIN rows[a] : ~rows[a][i].acked /\ rows[a][i].count >= Cap}
Deliverable(a) ==
  {i \in DOMAIN rows[a] : ~rows[a][i].acked /\ rows[a][i].count < Cap /\ ~rows[a][i].leased}
Oldest(i, S) == i \in S /\ \A j \in S : i <= j

canFail == isLegalTransition(state, "failed")

\* Variant: the sweep closes the commands and leaves the session alone.
SweepAbandoned_quiet(a) ==
  /\ mem[a].pc = "idle"
  /\ abandoned(a) # {}
  /\ rows' = [rows EXCEPT ![a] = [i \in DOMAIN @ |->
                IF i \in abandoned(a) THEN [@[i] EXCEPT !.acked = TRUE] ELSE @[i]]]
  /\ UNCHANGED <<state, reason, ready, prefix, manifests, saved, t0, objects, mem, local>>

\* The sweep on the way into the poll: a session that can still fail is failed.
SweepAbandoned(a) ==
  /\ mem[a].pc = "idle"
  /\ abandoned(a) # {}
  /\ IF canFail
     THEN /\ state' = "failed"
          /\ reason' = "command_unacknowledged"
          /\ ready' = {}
     ELSE UNCHANGED <<state, reason, ready>>
  /\ rows' = [rows EXCEPT ![a] = [i \in DOMAIN @ |->
                IF i \in abandoned(a) THEN [@[i] EXCEPT !.acked = TRUE] ELSE @[i]]]
  /\ UNCHANGED <<prefix, manifests, saved, t0, objects, mem, local>>

\* nextFor hands out the oldest command; `got' is whether the answer arrives.
nextCommand(a, got) ==
  /\ mem[a].pc = "idle"
  /\ abandoned(a) = {}
  /\ got \/ "unanswered" \in Faults
  /\ \E i \in Deliverable(a) :
       /\ Oldest(i, Deliverable(a))
       /\ rows' = [rows EXCEPT ![a][i].count = @ + 1, ![a][i].leased = TRUE]
       /\ mem' = IF got THEN [mem EXCEPT ![a].pc = "got", ![a].cmd = i] ELSE mem
  /\ UNCHANGED <<state, reason, prefix, ready, manifests, saved, t0, objects, local>>

\* LEASE_MS after a handout.  It shows only when the agent polls, which it
\* does not do while it handles a command.  A lease is longer than the start
\* barrier's lead and tolerance together: an expired start has missed its T0.
LeaseExpires(a, i) ==
  /\ mem[a].pc = "idle"
  /\ rows[a][i].leased /\ ~rows[a][i].acked
  /\ rows[a][i].type = "start" => t0 = "past"
  /\ rows' = [rows EXCEPT ![a][i].leased = FALSE]
  /\ UNCHANGED <<state, reason, prefix, ready, manifests, saved, t0, objects, mem, local>>

\* A command in hand that is new to this agent, and its type.
Holds(a, t) == /\ mem[a].pc = "got"
               /\ mem[a].cmd \notin applied[a]
               /\ rows[a][mem[a].cmd].type = t

Duplicate(a) ==
  /\ mem[a].pc = "got"
  /\ mem[a].cmd \in applied[a]
  /\ mem' = [mem EXCEPT ![a].pc = "ack"]
  /\ UNCHANGED <<api, objects, local>>

\* The handler returns: applied.add in the same turn, then the ack.
Returns(a, m) == /\ mem' = [mem EXCEPT ![a] = [m EXCEPT !.pc = "ack", !.say = "none"]]
                 /\ applied' = [applied EXCEPT ![a] = @ \cup {m.cmd}]

\* Variant: an API that cannot be reached ends the capture.
PostStatus_sacrificing(a) ==
  /\ mem[a].pc = "post"
  /\ report(a, mem[a].say)
  /\ Returns(a, IF pending' # pending /\ mem[a].capture = "running"
                THEN [mem[a] EXCEPT !.capture = "stopping"] ELSE mem[a])
  /\ UNCHANGED <<objects, media, crashes, captures, diskStopped>>

\* The report that ends a handler.
PostStatus(a) ==
  /\ mem[a].pc = "post"
  /\ report(a, mem[a].say)
  /\ Returns(a, mem[a])
  /\ UNCHANGED <<objects, media, crashes, captures, diskStopped>>

Ack(a, ok) ==
  /\ mem[a].pc = "ack"
  /\ ok \/ "undelivered" \in Faults
  /\ rows' = IF ok THEN [rows EXCEPT ![a][mem[a].cmd].acked = TRUE] ELSE rows
  /\ mem' = [mem EXCEPT ![a].pc = "idle", ![a].cmd = 0]
  /\ UNCHANGED <<state, reason, prefix, ready, manifests, saved, t0, objects, local>>

-----------------------------------------------------------------------------
\* The handlers

Saying(m, r) == [m EXCEPT !.pc = "post", !.say = r]

prepare(a) ==
  /\ Holds(a, "prepare")
  /\ mem' = [mem EXCEPT ![a] = Saying([@ EXCEPT !.sessionId = TRUE, !.prepared = TRUE], "ready")]
  /\ UNCHANGED <<api, objects, local>>

prepareRefuses(a) ==
  /\ Holds(a, "prepare")
  /\ \E r \in (IF "refuse" \in Faults THEN {"refused"} ELSE {})
              \cup (IF "nosignal" \in Faults THEN {"detailed"} ELSE {}) :
       mem' = [mem EXCEPT ![a] = Saying(@, r)]
  /\ UNCHANGED <<api, objects, local>>

\* Variant: neither t0 nor the prepared tracks are looked at.
start_unchecked(a) ==
  /\ Holds(a, "start")
  /\ mem' = [mem EXCEPT ![a].pc = "waitT0", ![a].sessionId = TRUE, ![a].uploadPrefix = TRUE]
  /\ UNCHANGED <<api, objects, local>>

\* Variant: t0 is not looked at.
start_late(a) ==
  /\ Holds(a, "start")
  /\ mem' = [mem EXCEPT ![a] =
       IF ~@.prepared THEN Saying(@, "refused")
       ELSE [@ EXCEPT !.pc = "waitT0", !.sessionId = TRUE, !.uploadPrefix = TRUE]]
  /\ UNCHANGED <<api, objects, local>>

\* T0 missed, or nothing prepared in this process: refuse.  Otherwise wait.
start(a) ==
  /\ Holds(a, "start")
  /\ mem' = [mem EXCEPT ![a] =
       IF t0 = "past" \/ ~@.prepared THEN Saying(@, "refused")
       ELSE [@ EXCEPT !.pc = "waitT0", !.sessionId = TRUE, !.uploadPrefix = TRUE]]
  /\ UNCHANGED <<api, objects, local>>

\* T0 is here.
captureStart(a) ==
  /\ mem[a].pc = "waitT0"
  /\ mem' = [mem EXCEPT ![a] = Saying([@ EXCEPT !.capture = "running"], "recording")]
  /\ captures' = [captures EXCEPT ![a] = @ + 1]
  /\ media' = [media EXCEPT ![a] = TRUE]
  /\ UNCHANGED <<api, objects, applied, pending, crashes, diskStopped>>

captureStartFails(a) ==
  /\ "ffmpeg" \in Faults
  /\ mem[a].pc = "waitT0"
  /\ mem' = [mem EXCEPT ![a] = Saying([@ EXCEPT !.capture = "dead"], "detailed")]
  /\ media' = [media EXCEPT ![a] = TRUE]
  /\ UNCHANGED <<api, objects, applied, pending, crashes, captures, diskStopped>>

\* Every ffmpeg has exited by itself.
captureDies(a) ==
  /\ "ffmpeg" \in Faults
  /\ mem[a].capture = "running"
  /\ mem' = [mem EXCEPT ![a].capture = "dead"]
  /\ UNCHANGED <<api, objects, local>>

\* Variant: the manifest stays on the agent's disk.
CaptureStopped_keeps(a) == UNCHANGED api

\* capture.stop() ends: the manifest is on disk and has been posted, once.
CaptureStopped(a) ==
  /\ \/ manifests' = manifests \cup {a}
     \/ "undelivered" \in Faults /\ UNCHANGED manifests
  /\ UNCHANGED <<state, reason, prefix, ready, rows, saved, t0>>

\* stop() acts on the session this process remembers, if it remembers one.
AfterStop(m) == IF m.sessionId THEN Saying(m, "stopped") ELSE m

stopCapture(a) ==
  /\ Holds(a, "stop")
  /\ mem[a].capture # "none"
  /\ mem' = [mem EXCEPT ![a].pc = "stopping", ![a].capture = "stopping"]
  /\ UNCHANGED <<api, objects, local>>

stopCaptureEnds(a) ==
  /\ mem[a].pc = "stopping"
  /\ CaptureStopped(a)
  /\ mem' = [mem EXCEPT ![a] = AfterStop([@ EXCEPT !.capture = "none"])]
  /\ UNCHANGED <<objects, local>>

\* Variant: an agent that has nothing to stop says nothing.
stopIdle_silent(a) ==
  /\ Holds(a, "stop")
  /\ mem[a].capture = "none"
  /\ Returns(a, mem[a])
  /\ UNCHANGED <<api, objects, pending, media, crashes, captures, diskStopped>>

\* No capture object: nothing to stop, and after a restart nothing to report.
stopIdle(a) ==
  /\ Holds(a, "stop")
  /\ mem[a].capture = "none"
  /\ IF mem[a].sessionId
     THEN mem' = [mem EXCEPT ![a] = AfterStop(@)] /\ UNCHANGED applied
     ELSE Returns(a, mem[a])
  /\ UNCHANGED <<api, objects, pending, media, crashes, captures, diskStopped>>

\* Variant: the bytes are moved and nobody is told.
upload_silent(a) ==
  /\ Holds(a, "upload")
  /\ media[a]
  /\ objects' = [objects EXCEPT ![a] = "all"]
  /\ Returns(a, mem[a])
  /\ UNCHANGED <<api, pending, media, crashes, captures, diskStopped>>

\* upload(): walk the directory, put every file, read it back.  Files ffmpeg
\* still has open are put as they are.
upload(a) ==
  /\ Holds(a, "upload")
  /\ media[a]
  /\ objects' = [objects EXCEPT ![a] = IF mem[a].capture = "none" THEN "all" ELSE "some"]
  /\ mem' = [mem EXCEPT ![a].pc = "complete"]
  /\ UNCHANGED <<api, local>>

uploadFails(a) ==
  /\ Holds(a, "upload")
  /\ ~media[a] \/ "storage" \in Faults
  /\ mem' = [mem EXCEPT ![a] = Saying(@, "detailed")]
  /\ UNCHANGED <<api, objects, local>>

\* completeUpload(): readback of everything the manifests list.
Verified == manifests # {} /\ \A a \in manifests : objects[a] = "all"
CanStore == Verified /\ isLegalTransition(state, "stored")

MarkStored == /\ state' = "stored"
              /\ UNCHANGED <<reason, prefix, ready, rows, manifests, saved, t0>>

completeUpload(a) ==
  /\ mem[a].pc = "complete"
  /\ CanStore
  /\ MarkStored
  /\ Returns(a, mem[a])
  /\ UNCHANGED <<objects, pending, media, crashes, captures, diskStopped>>

\* Refused or lost: the catch reports the failure, with its message as detail.
completeUploadFails(a) ==
  /\ mem[a].pc = "complete"
  /\ \/ (~CanStore \/ "undelivered" \in Faults) /\ UNCHANGED api
     \/ CanStore /\ "unanswered" \in Faults /\ MarkStored
  /\ mem' = [mem EXCEPT ![a] = Saying(@, "detailed")]
  /\ UNCHANGED <<objects, local>>

\* abort(): stop a running capture, purge the prefix, forget the session.
abort(a) ==
  /\ Holds(a, "abort")
  /\ mem' = [mem EXCEPT ![a] =
       IF @.capture = "running" THEN [@ EXCEPT !.pc = "aborting", !.capture = "stopping"]
                                ELSE [@ EXCEPT !.pc = "purge"]]
  /\ UNCHANGED <<api, objects, local>>

abortCaptureEnds(a) ==
  /\ mem[a].pc = "aborting"
  /\ CaptureStopped(a)
  /\ mem' = [mem EXCEPT ![a].pc = "purge", ![a].capture = "none"]
  /\ UNCHANGED <<objects, local>>

\* The prefix is the session's: the purge deletes what every agent uploaded.
purge(a) ==
  /\ mem[a].pc = "purge"
  /\ \/ objects' = IF prefix THEN [b \in Agent |-> "none"] ELSE objects
     \/ "storage" \in Faults /\ UNCHANGED objects
  /\ Returns(a, [mem[a] EXCEPT !.sessionId = FALSE, !.uploadPrefix = FALSE])
  /\ UNCHANGED <<api, pending, media, crashes, captures, diskStopped>>

-----------------------------------------------------------------------------
\* The tick loop

Live(a) == /\ mem[a].pc # "down" /\ mem[a].tick = "idle"
           /\ mem[a].capture = "running" /\ mem[a].sessionId

tickDiskFloor(a) ==
  /\ "disk" \in Faults
  /\ Live(a)
  /\ mem' = [mem EXCEPT ![a].tick = "stopping", ![a].capture = "stopping"]
  /\ diskStopped' = diskStopped \cup {a}
  /\ UNCHANGED <<api, objects, applied, pending, media, crashes, captures>>

tickStopEnds(a) ==
  /\ mem[a].tick = "stopping"
  /\ CaptureStopped(a)
  /\ mem' = [mem EXCEPT ![a].tick = "post", ![a].capture = "none"]
  /\ UNCHANGED <<objects, local>>

\* this.sessionId is read again here: an abort may have cleared it meanwhile.
tickPost(a) ==
  /\ mem[a].tick = "post"
  /\ report(a, IF mem[a].sessionId THEN "low" ELSE "stray")
  /\ mem' = [mem EXCEPT ![a].tick = "idle"]
  /\ UNCHANGED <<objects, applied, media, crashes, captures, diskStopped>>

tickSweep(a) ==
  /\ Live(a)
  /\ mem[a].uploadPrefix
  /\ objects[a] = "none"
  /\ mem' = [mem EXCEPT ![a].tick = "sweeping"]
  /\ UNCHANGED <<api, objects, local>>

\* The sweep wrote its segments; the progress report that follows goes to the
\* session id as it is now.
tickSweepEnds(a) ==
  /\ mem[a].tick = "sweeping"
  /\ objects' = [objects EXCEPT ![a] = IF @ = "none" THEN "some" ELSE @]
  /\ mem' = [mem EXCEPT ![a].tick = "idle"]
  /\ IF mem[a].sessionId THEN UNCHANGED <<api, pending>> ELSE report(a, "stray")
  /\ UNCHANGED <<applied, media, crashes, captures, diskStopped>>

\* flushPending(): the head is removed only by a 2xx; anything else leaves the
\* queue as it is until the next tick.
flushPending(a) ==
  /\ mem[a].pc # "down" /\ mem[a].tick = "idle"
  /\ pending[a] # <<>>
  /\ \/ /\ Exchange(a, Head(pending[a]), TRUE)
        /\ pending' = [pending EXCEPT ![a] = Tail(@)]
     \/ /\ Exchange(a, Head(pending[a]), FALSE)
        /\ UNCHANGED pending
  /\ UNCHANGED <<objects, mem, applied, media, crashes, captures, diskStopped>>

-----------------------------------------------------------------------------
\* The process dies, and its ffmpeg children with it; systemd restarts it.
crash(a) ==
  /\ "crash" \in Faults
  /\ crashes[a] < MaxCrashes
  /\ mem[a].pc # "down"
  /\ mem' = [mem EXCEPT ![a] = [Fresh EXCEPT !.pc = "down"]]
  /\ crashes' = [crashes EXCEPT ![a] = @ + 1]
  /\ UNCHANGED <<api, objects, applied, pending, media, captures, diskStopped>>

restart(a) ==
  /\ mem[a].pc = "down"
  /\ mem' = [mem EXCEPT ![a] = Fresh]
  /\ UNCHANGED <<api, objects, local>>

-----------------------------------------------------------------------------
PollLoop(a) == \/ SweepAbandoned(a)
               \/ \E got \in BOOLEAN : nextCommand(a, got)
               \/ Duplicate(a)
               \/ prepare(a) \/ prepareRefuses(a)
               \/ start(a) \/ captureStart(a) \/ captureStartFails(a)
               \/ stopCapture(a) \/ stopCaptureEnds(a) \/ stopIdle(a)
               \/ upload(a) \/ uploadFails(a)
               \/ completeUpload(a) \/ completeUploadFails(a)
               \/ abort(a) \/ abortCaptureEnds(a) \/ purge(a)
               \/ PostStatus(a)
               \/ \E ok \in BOOLEAN : Ack(a, ok)

TickStop(a) == tickStopEnds(a) \/ tickPost(a)
TickLoop(a) == tickDiskFloor(a) \/ TickStop(a) \/ tickSweep(a) \/ tickSweepEnds(a)

Operator == create \/ stop \/ save \/ discard

Next == \/ Operator
        \/ T0Passes
        \/ \E a \in Agent : \/ \E i \in DOMAIN rows[a] : LeaseExpires(a, i)
                            \/ PollLoop(a)
                            \/ TickLoop(a)
                            \/ flushPending(a)
                            \/ captureDies(a)
                            \/ crash(a)
                            \/ restart(a)

Spec == Init /\ [][Next]_vars

\* The loops of a running agent go on for ever, leases run out, systemd brings
\* a dead agent back, and a request that is made again and again gets through
\* in the end.  Nothing is assumed of the operator or of any fault.
MaxRows == Cardinality(CommandType)
Fairness ==
  /\ WF_vars(T0Passes)
  /\ \A a \in Agent : /\ \A i \in 1..MaxRows :
                           WF_vars(i \in DOMAIN rows[a] /\ LeaseExpires(a, i))
                      /\ WF_vars(PollLoop(a))
                      /\ WF_vars(TickStop(a))
                      /\ WF_vars(tickSweepEnds(a))
                      /\ WF_vars(restart(a))
                      /\ SF_vars(nextCommand(a, TRUE))
                      /\ SF_vars(Ack(a, TRUE))
                      /\ SF_vars(flushPending(a) /\ pending'[a] # pending[a])

FairSpec == Spec /\ Fairness

-----------------------------------------------------------------------------
\* A session's row follows the transition table and passes the review gate,
\* whatever the agents report and however often.
Lifecycle == INSTANCE SessionLifecycle
               WITH Session <- {"s"},
                    state <- [s \in {"s"} |-> state],
                    saved <- IF saved THEN {"s"} ELSE {}
ImplementsLifecycle == Lifecycle!Spec

\* An agent captures a session at most once, however often the start is
\* delivered and whenever the process dies: a second ffmpeg tree would write
\* into the first one's directory.
OneCapture == \A a \in Agent : captures[a] <= 1

Applied(a, t) == \E i \in applied[a] : rows[a][i].type = t

\* Once an agent has carried out its stop or its abort no command that comes
\* late, comes again or was overtaken sets it capturing; after an abort
\* nothing is left that a sweep could upload to.
EndIsFinal ==
  \A a \in Agent :
    /\ Applied(a, "stop") \/ Applied(a, "abort") => mem[a].capture # "running"
    /\ Applied(a, "abort") => ~mem[a].uploadPrefix

\* A recording in progress is never sacrificed to an API problem: capture is
\* ended by the operator's stop or discard, or by the disk floor.
NeverSacrificed ==
  [][\A a \in Agent :
       mem[a].capture = "running" /\ mem'[a].capture = "stopping"
       => \/ a \in diskStopped'
          \/ \E i \in DOMAIN rows[a] : rows[a][i].type \in {"stop", "abort"}]_vars

\* The operator reviews a recording whose timing contract has arrived: with
\* every request served, the manifest is posted before the agent says `stopped'.
ReviewHasManifest == state = "review" => manifests # {}

\* A session does not sit in `stopping' for ever (the comment on `stopped' in
\* reportStatus): the recording gets to review, or the session fails.
StopIsAnswered == state = "stopping" ~> state # "stopping"

\* Once the operator stops the session every agent ends its capture, and the
\* session moves on: what is left to do when nothing runs is to say so.
StopEndsCapture ==
  state = "stopping" ~> /\ state # "stopping"
                        /\ \A a \in Agent : mem[a].capture \in {"none", "dead"}

\* A saved session is stored in the end.
SaveIsAnswered == state = "uploading" ~> state # "uploading"

\* A session that is being prepared does not stay so for ever.
PrepareIsAnswered == state = "preparing" ~> state # "preparing"

-----------------------------------------------------------------------------
\* What the documentation says beyond this

\* docs/06_architecture/AGENT_API_CONTRACT.md, on the manifest: sent once after a graceful
\* stop, before the session enters `review'.
ReviewHasEveryManifest == state = "review" => manifests = Agent

\* The contract's "Reconcile on reconnect": what an agent could not report is
\* reported once the API answers again.
ReportsGetThrough == \A a \in Agent : pending[a] # <<>> ~> pending[a] = <<>>

\* The comment on `stopped' in reportStatus: the reason of a stop that the disk
\* floor forced survives into the review.
DiskReasonSurvives == state = "review" /\ diskStopped # {} => reason = "disk"

\* The comment on `failed' in reportStatus: one agent failing aborts the whole
\* session, so no agent goes on capturing it.
FailureEndsCapture ==
  state = "failed" ~> \A a \in Agent : mem[a].capture \in {"none", "dead"}

\* The comment on abort() in agent.ts: the objects a discarded session already
\* had in storage are purged, and nothing re-creates them.
DiscardPurges ==
  state = "discarded" /\ (\A a \in Agent : Applied(a, "abort"))
  => \A a \in Agent : objects[a] = "none"
=============================================================================
