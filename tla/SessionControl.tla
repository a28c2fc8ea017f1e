--------------------------- MODULE SessionControl ---------------------------
(***************************************************************************)
(* The control plane: SessionsService and ManifestService.                 *)
(*                                                                         *)
(* Node runs one handler at a time, but every database call is awaited and *)
(* another handler may run there.  A handler therefore takes several       *)
(* steps: it reads the session row, decides on what it read, writes the    *)
(* whole row back, and queues one command per participant.  Handlers work  *)
(* side by side up to the number of handler slots; with a single slot they *)
(* are serialised.  An API restart loses every handler in flight and the   *)
(* in-memory readiness barrier.                                            *)
(*                                                                         *)
(* Operators and agents are the environment: an agent can report on a      *)
(* session once it has been sent the command the report follows from.      *)
(***************************************************************************)
EXTENDS SessionStates, Naturals, FiniteSets

CONSTANTS Session, Agent,
          Handler,     \* handler slots: how many requests are in progress at once
          Kinds        \* bound: the requests this instance explores, besides create

CommandType == {"prepare", "start", "stop", "upload", "abort"}

VARIABLES
  db,         \* db[s]: the session row
  tracks,     \* tracks[s]: the agents of the track rows, i.e. the participants
  readiness,  \* readiness[s]: the in-memory barrier, agents that reported ready
  queued,     \* queued[s][a][t]: command rows of type t queued for a
  manifests,  \* manifests[s]: agents whose manifest has been received
  objects,    \* objects[s]: agents whose objects are all in the bucket
  handlers,   \* handlers[h]: the request being served in slot h
  saved,      \* history: sessions whose Save was accepted
  reported,   \* history: reported[s], agents the API has heard `ready' from
  restarted   \* history: sessions that were preparing when the API restarted

vars == <<db, tracks, readiness, queued, manifests, objects, handlers,
          saved, reported, restarted>>
history == <<saved, reported, restarted>>

Row == [state : SessionState \cup {Absent}, prefix : BOOLEAN]
NoRow == [state |-> Absent, prefix |-> FALSE]

Op == {"none", "create", "ready", "failed", "stopped", "stop", "save", "discard",
       "manifest", "complete"}

ASSUME KindsAssumption == Kinds \subseteq Op

\* A request in progress: what it does, for which session and agent, the
\* step it is at, the row it will write, and the agents it still has to serve.
Request == [op : Op, s : Session \cup {"none"}, a : Agent \cup {"none"},
            pc : {"free", "insert", "tracks", "act", "write", "queue"},
            row : Row, todo : SUBSET Agent, parts : SUBSET Agent]
Free == [op |-> "none", s |-> "none", a |-> "none", pc |-> "free",
         row |-> NoRow, todo |-> {}, parts |-> {}]

TypeOK == /\ db \in [Session -> Row]
          /\ tracks \in [Session -> SUBSET Agent]
          /\ readiness \in [Session -> SUBSET Agent]
          /\ queued \in [Session -> [Agent -> [CommandType -> Nat]]]
          /\ manifests \in [Session -> SUBSET Agent]
          /\ objects \in [Session -> SUBSET Agent]
          /\ handlers \in [Handler -> Request]
          /\ saved \subseteq Session
          /\ reported \in [Session -> SUBSET Agent]
          /\ restarted \subseteq Session

Init == /\ db = [s \in Session |-> NoRow]
        /\ tracks = [s \in Session |-> {}]
        /\ readiness = [s \in Session |-> {}]
        /\ queued = [s \in Session |-> [a \in Agent |-> [t \in CommandType |-> 0]]]
        /\ manifests = [s \in Session |-> {}]
        /\ objects = [s \in Session |-> {}]
        /\ handlers = [h \in Handler |-> Free]
        /\ saved = {}
        /\ reported = [s \in Session |-> {}]
        /\ restarted = {}

-----------------------------------------------------------------------------
\* Opening a request and moving it along

Busy(h, op, pc) == handlers[h].op = op /\ handlers[h].pc = pc

\* require(): the row as it is now is the snapshot the handler works on.
Open(h, op, s, a, pc) ==
  /\ handlers[h].pc = "free"
  /\ db[s].state # Absent
  /\ handlers' = [handlers EXCEPT ![h] =
       [op |-> op, s |-> s, a |-> a, pc |-> pc, row |-> db[s], todo |-> {}, parts |-> {}]]

\* Variant: the row is moved without asking the table.
Transition_unchecked(h, to, pre) ==
  handlers' = [handlers EXCEPT ![h].row.state = to, ![h].row.prefix = @ \/ pre,
                               ![h].pc = "write", ![h].parts = tracks[handlers[h].s]]

\* transition(): throws unless the table allows the move from the snapshot.
Transition(h, to, pre) ==
  /\ isLegalTransition(handlers[h].row.state, to)
  /\ handlers' = [handlers EXCEPT ![h].row.state = to, ![h].row.prefix = @ \/ pre,
                                  ![h].pc = "write", ![h].parts = tracks[handlers[h].s]]

\* The handler returns, or throws: nothing more is written.
Close(h) == handlers' = [handlers EXCEPT ![h] = Free]

Sent(s, a, t) == queued[s][a][t] > 0

-----------------------------------------------------------------------------
\* create(): the session row, a row per track, a prepare per agent, and only
\* then the empty readiness map.

CreateSession(h, s, chosen) ==
  /\ handlers[h].pc = "free"
  /\ db[s].state = Absent
  /\ \A g \in Handler : handlers[g].s # s
  /\ handlers' = [handlers EXCEPT ![h] =
       [op |-> "create", s |-> s, a |-> "none", pc |-> "insert",
        row |-> [NoRow EXCEPT !.state = "preparing"], todo |-> chosen, parts |-> chosen]]
  /\ UNCHANGED <<db, tracks, readiness, queued, manifests, objects, history>>

InsertSession(h) ==
  /\ Busy(h, "create", "insert")
  /\ db' = [db EXCEPT ![handlers[h].s] = handlers[h].row]
  /\ handlers' = [handlers EXCEPT ![h] =
       IF handlers[h].todo = {} THEN Free ELSE [handlers[h] EXCEPT !.pc = "tracks"]]
  /\ UNCHANGED <<tracks, readiness, queued, manifests, objects, history>>

InsertTracks(h) ==
  /\ Busy(h, "create", "tracks")
  /\ \E a \in handlers[h].todo :
       /\ tracks' = [tracks EXCEPT ![handlers[h].s] = @ \cup {a}]
       /\ handlers' = IF handlers[h].todo = {a}
                      THEN [handlers EXCEPT ![h].pc = "queue", ![h].todo = handlers[h].parts]
                      ELSE [handlers EXCEPT ![h].todo = @ \ {a}]
  /\ UNCHANGED <<db, readiness, queued, manifests, objects, history>>

-----------------------------------------------------------------------------
\* reportStatus(): the reads, then one of three branches

\* An agent reports `ready' or `failed' once it was sent prepare, `stopped'
\* once it was sent start, and may repeat a report whose answer it missed.
ReportStatus(h, s, a, report) ==
  /\ report \in {"ready", "failed", "stopped"}
  /\ Sent(s, a, IF report = "stopped" THEN "start" ELSE "prepare")
  /\ Open(h, report, s, a, "act")
  /\ UNCHANGED <<db, tracks, readiness, queued, manifests, objects, history>>

ActFailed(h) ==
  /\ Busy(h, "failed", "act")
  /\ \/ Transition(h, "failed", FALSE)
     \/ ~isLegalTransition(handlers[h].row.state, "failed") /\ Close(h)
  /\ UNCHANGED <<db, tracks, readiness, queued, manifests, objects, history>>

\* Only a stop is completed by `stopped'; in any other state it is ignored.
ActStopped(h) ==
  /\ Busy(h, "stopped", "act")
  /\ \/ handlers[h].row.state = "stopping" /\ Transition(h, "review", FALSE)
     \/ handlers[h].row.state # "stopping" /\ Close(h)
  /\ UNCHANGED <<db, tracks, readiness, queued, manifests, objects, history>>

\* Variant: the barrier opens for the first agent that is ready.
ActReady_some(h) ==
  /\ Busy(h, "ready", "act")
  /\ LET s == handlers[h].s
         ready == readiness[s] \cup {handlers[h].a}
     IN /\ readiness' = [readiness EXCEPT ![s] = ready]
        /\ reported' = [reported EXCEPT ![s] = @ \cup {handlers[h].a}]
        /\ \/ Transition(h, "recording", TRUE)
           \/ ~isLegalTransition(handlers[h].row.state, "recording") /\ Close(h)
  /\ UNCHANGED <<db, tracks, queued, manifests, objects, saved, restarted>>

\* Variant: a repeated `ready' repeats the start of a running session.
ActReady_repeats(h) ==
  /\ Busy(h, "ready", "act")
  /\ LET s == handlers[h].s
         ready == readiness[s] \cup {handlers[h].a}
     IN /\ readiness' = [readiness EXCEPT ![s] = ready]
        /\ reported' = [reported EXCEPT ![s] = @ \cup {handlers[h].a}]
        /\ IF tracks[s] \subseteq ready /\ handlers[h].row.state \in {"preparing", "recording"}
           THEN handlers' = [handlers EXCEPT ![h].row.state = "recording", ![h].row.prefix = TRUE,
                                             ![h].pc = "write", ![h].parts = tracks[s]]
           ELSE Close(h)
  /\ UNCHANGED <<db, tracks, queued, manifests, objects, saved, restarted>>

\* The barrier.  It is updated in the same turn in which it is tested.
ActReady(h) ==
  /\ Busy(h, "ready", "act")
  /\ LET s == handlers[h].s
         ready == readiness[s] \cup {handlers[h].a}
         allReady == tracks[s] \subseteq ready
     IN /\ readiness' = [readiness EXCEPT ![s] = ready]
        /\ reported' = [reported EXCEPT ![s] = @ \cup {handlers[h].a}]
        /\ \/ allReady /\ Transition(h, "recording", TRUE)
           \/ /\ ~(allReady /\ isLegalTransition(handlers[h].row.state, "recording"))
              /\ Close(h)
  /\ UNCHANGED <<db, tracks, queued, manifests, objects, saved, restarted>>

-----------------------------------------------------------------------------
\* stop(), save(), discard(): the read and the check are one turn

Target == [stop |-> "stopping", save |-> "uploading", discard |-> "discarded"]

\* Variant: the operator's request is not checked against the table.
Operator_unchecked(h, op, s) ==
  /\ op \in DOMAIN Target
  /\ handlers[h].pc = "free"
  /\ db[s].state # Absent
  /\ handlers' = [handlers EXCEPT ![h] =
       [op |-> op, s |-> s, a |-> "none", pc |-> "write",
        row |-> [state |-> Target[op], prefix |-> db[s].prefix \/ op = "save"],
        todo |-> {}, parts |-> {}]]
  /\ UNCHANGED <<db, tracks, readiness, queued, manifests, objects, history>>

\* The request opens already at its write; an illegal one is refused outright.
\* discard() does not fix a prefix; save() falls back to computing one.
Operator(h, op, s) ==
  /\ op \in DOMAIN Target
  /\ handlers[h].pc = "free"
  /\ isLegalTransition(db[s].state, Target[op])
  /\ handlers' = [handlers EXCEPT ![h] =
       [op |-> op, s |-> s, a |-> "none", pc |-> "write",
        row |-> [state |-> Target[op], prefix |-> db[s].prefix \/ op = "save"],
        todo |-> {}, parts |-> {}]]
  /\ UNCHANGED <<db, tracks, readiness, queued, manifests, objects, history>>

-----------------------------------------------------------------------------
\* ManifestService

\* One manifest per agent, posted after its capture stopped.
IngestManifest(h, s, a) ==
  /\ Sent(s, a, "start")
  /\ a \notin manifests[s]
  /\ \A g \in Handler : ~(Busy(g, "manifest", "act") /\ handlers[g].s = s /\ handlers[g].a = a)
  /\ Open(h, "manifest", s, a, "act")
  /\ UNCHANGED <<db, tracks, readiness, queued, manifests, objects, history>>

\* The manifest and the track counters are saved; the session row read at the
\* start is still to be written back, for its clock offset.
ActManifest(h) ==
  /\ Busy(h, "manifest", "act")
  /\ manifests' = [manifests EXCEPT ![handlers[h].s] = @ \cup {handlers[h].a}]
  /\ handlers' = [handlers EXCEPT ![h].pc = "write"]
  /\ UNCHANGED <<db, tracks, readiness, queued, objects, history>>

CompleteUpload(h, s, a) ==
  /\ Sent(s, a, "upload")
  /\ Open(h, "complete", s, a, "act")
  /\ UNCHANGED <<db, tracks, readiness, queued, manifests, objects, history>>

\* Every object of every manifest received so far is found in the bucket.
Verified(s) == manifests[s] # {} /\ manifests[s] \subseteq objects[s]

\* Variant: the agent's own `verified' is trusted.
ActComplete_trusting(h) ==
  /\ Busy(h, "complete", "act")
  /\ \/ Transition(h, "stored", FALSE)
     \/ ~isLegalTransition(handlers[h].row.state, "stored") /\ Close(h)
  /\ UNCHANGED <<db, tracks, readiness, queued, manifests, objects, history>>

ActComplete(h) ==
  /\ Busy(h, "complete", "act")
  /\ \/ Verified(handlers[h].s) /\ Transition(h, "stored", FALSE)
     \/ /\ ~(/\ Verified(handlers[h].s)
             /\ isLegalTransition(handlers[h].row.state, "stored"))
        /\ Close(h)
  /\ UNCHANGED <<db, tracks, readiness, queued, manifests, objects, history>>

-----------------------------------------------------------------------------
\* The tail every handler shares

\* Variant: a stopped session is uploaded without waiting for the operator.
Queues_eager == [create |-> "prepare", ready |-> "start", stop |-> "upload",
                 save |-> "upload", discard |-> "abort"]

\* The command a handler queues for each participant, if it queues any.
Queues == [create |-> "prepare", ready |-> "start", stop |-> "stop",
           save |-> "upload", discard |-> "abort"]

\* sessions.save(): the whole row, as read and changed, replaces the stored
\* one.  `failed' clears the barrier as soon as its save returns.
WriteRow(h) ==
  /\ handlers[h].pc = "write"
  /\ LET r == handlers[h]
         parts == IF r.op = "ready" THEN r.parts ELSE tracks[r.s]
     IN /\ db' = [db EXCEPT ![r.s] = r.row]
        /\ saved' = IF r.op = "save" THEN saved \cup {r.s} ELSE saved
        /\ readiness' = IF r.op = "failed" THEN [readiness EXCEPT ![r.s] = {}]
                                           ELSE readiness
        /\ handlers' = [handlers EXCEPT ![h] =
             IF r.op \in DOMAIN Queues /\ parts # {}
             THEN [r EXCEPT !.pc = "queue", !.todo = parts] ELSE Free]
  /\ UNCHANGED <<tracks, queued, manifests, objects, reported, restarted>>

\* One commands.queue() call.  After the last one create() installs an empty
\* barrier and `ready' removes the one it has just satisfied.
QueueCommand(h) ==
  /\ handlers[h].pc = "queue"
  /\ LET r == handlers[h]
     IN \E a \in r.todo :
          /\ queued' = [queued EXCEPT ![r.s][a][Queues[r.op]] = @ + 1]
          /\ handlers' = [handlers EXCEPT ![h] =
               IF r.todo = {a} THEN Free ELSE [r EXCEPT !.todo = @ \ {a}]]
          /\ readiness' = IF r.todo = {a} /\ r.op \in {"create", "ready"}
                          THEN [readiness EXCEPT ![r.s] = {}] ELSE readiness
  /\ UNCHANGED <<db, tracks, manifests, objects, history>>

-----------------------------------------------------------------------------
\* The bucket, and the API process

UploadObjects(s, a) ==
  /\ Sent(s, a, "start")
  /\ objects' = [objects EXCEPT ![s] = @ \cup {a}]
  /\ UNCHANGED <<db, tracks, readiness, queued, manifests, handlers, history>>

\* An abort carries the session's prefix, and the purge deletes under all of it.
PurgeObjects(s) ==
  /\ \E a \in Agent : Sent(s, a, "abort")
  /\ db[s].prefix
  /\ objects' = [objects EXCEPT ![s] = {}]
  /\ UNCHANGED <<db, tracks, readiness, queued, manifests, handlers, history>>

ApiRestart ==
  /\ handlers' = [h \in Handler |-> Free]
  /\ readiness' = [s \in Session |-> {}]
  /\ restarted' = restarted \cup {s \in Session : db[s].state = "preparing"}
  /\ UNCHANGED <<db, tracks, queued, manifests, objects, saved, reported>>

-----------------------------------------------------------------------------
Begin(h) == \E s \in Session :
              \/ \E chosen \in SUBSET Agent : CreateSession(h, s, chosen)
              \/ \E op \in Kinds : Operator(h, op, s)
              \/ \E a \in Agent : \/ \E report \in Kinds : ReportStatus(h, s, a, report)
                                  \/ "manifest" \in Kinds /\ IngestManifest(h, s, a)
                                  \/ "complete" \in Kinds /\ CompleteUpload(h, s, a)

Continue(h) == \/ InsertSession(h)
               \/ InsertTracks(h)
               \/ ActFailed(h)
               \/ ActStopped(h)
               \/ ActReady(h)
               \/ ActManifest(h)
               \/ ActComplete(h)
               \/ WriteRow(h)
               \/ QueueCommand(h)

Next == \/ \E h \in Handler : Begin(h) \/ Continue(h)
        \/ /\ "complete" \in Kinds  \* nobody else looks into the bucket
           /\ \E s \in Session : PurgeObjects(s) \/ \E a \in Agent : UploadObjects(s, a)
        \/ ApiRestart

Spec == Init /\ [][Next]_vars
-----------------------------------------------------------------------------
\* No agent is sent start before every participant has reported ready: a
\* partial start gives tracks that cannot be aligned.  Holds however requests
\* overlap and whenever the API restarts.
StartNeedsAllReady ==
  \A s \in Session, a \in Agent : Sent(s, a, "start") => tracks[s] \subseteq reported[s]

\* Nothing is sent to storage, let alone called stored, without the operator's
\* Save: the review gate, seen from the commands and from the row.
UploadNeedsSave ==
  \A s \in Session :
    \/ \E a \in Agent : Sent(s, a, "upload")
    \/ db[s].state \in {"uploading", "stored"}
    => s \in saved

\* A session is stored on the API's own readback of everything its manifests
\* list, and the readback is not outdated when the row is written.
StoredWasVerified ==
  [][\A s \in Session :
       db[s].state # "stored" /\ db'[s].state = "stored" => Verified(s)]_vars

\* An agent gets at most one start for a session: a second one has an id the
\* applied-set does not know and would spawn a second ffmpeg tree.
OneStart == \A s \in Session, a \in Agent : queued[s][a]["start"] <= 1

\* Save and Discard exclude each other: no session has both an upload and an
\* abort queued, which would purge what is being stored.
OneDecision ==
  \A s \in Session : ~(/\ \E a \in Agent : Sent(s, a, "upload")
                       /\ \E a \in Agent : Sent(s, a, "abort"))

\* Every row follows the transition table and passes the review gate.
Lifecycle == INSTANCE SessionLifecycle WITH state <- [s \in Session |-> db[s].state]
ImplementsLifecycle == Lifecycle!Spec

-----------------------------------------------------------------------------
\* What the readiness map's comment says: only an API restart loses readiness.
BarrierRemembers ==
  \A s \in Session : /\ db[s].state = "preparing"
                     /\ s \notin restarted
                     => reported[s] \subseteq readiness[s]

\* What the entity's own test says: stored, discarded and failed are terminal.
TerminalIsFinal ==
  [][\A s \in Session : db[s].state \in Terminal => db'[s].state = db[s].state]_vars

\* What completeUpload's comment says: stored means every object is there --
\* read as every participant's recording, not only of those heard from first.
StoredHasEveryTrack ==
  \A s \in Session : db[s].state = "stored" => tracks[s] \subseteq objects[s]
=============================================================================
