------------------------------- MODULE Camera -------------------------------
(***************************************************************************)
(* The camera check before a recording: the console asks for the phone's   *)
(* stream to be fed into the loopback device (PullerSupervisor) and shows  *)
(* it live from the agent's own server (LivePreviewServer).                *)
(*                                                                         *)
(* The console's commands reach the agent at least once, by the queue of   *)
(* CommandDelivery, and what the agent answers is read from the memory of  *)
(* the API.  An ffmpeg that is told to end still runs for a while, and     *)
(* that it ended is learned later: both are steps of their own.            *)
(***************************************************************************)
EXTENDS Naturals, Sequences

CONSTANTS Child,    \* processes that feed the device
          Viewer,   \* connections to the preview server, each with its ffmpeg
          None,
          Cap,      \* ABANDON_AFTER_DELIVERIES
          MaxRows   \* bound: commands the operator gives

ASSUME NoneAssumption == None \notin Child \cup Viewer
ASSUME BoundsAssumption == Cap \in Nat \ {0} /\ MaxRows \in Nat

VARIABLES
  rows,      \* the camera's commands, in the order they were given
  reported,  \* pullerState of the agent, in the memory of the API
  job,       \* the command the agent is in, and the status it is posting
  child,     \* PullerSupervisor.child
  feed,      \* feed[c]: what process c does
  serving,   \* whether LivePreviewServer.server is there
  views,     \* views[v]: the connection, and the ffmpeg behind it
  capture,   \* the recording that reads the device
  camera,    \* whether the page has a cameraAgentId
  img,       \* the connection the page's <img> points at
  refreshes, \* refreshPullerStatus calls under way: due, or with an answer
  changed    \* history: a feed ended, or the agent, since the last command

api == <<rows, reported>>
puller == <<child, feed, changed>>
page == <<camera, img, refreshes>>
vars == <<rows, reported, job, child, feed, serving, views, capture, camera, img, refreshes,
          changed>>

Status == {"running", "stopped"}
Row == [action : {"start", "stop"}, state : {"queued", "leased", "done"},
        count : 0..Cap]
\* none: no such process; told: got SIGINT; ended: its close event is to come
Process == {"none", "runs", "told", "ended"}
\* gone: the page has dropped the connection, which the server has yet to learn
View == [conn : {"none", "open", "gone"}, ffmpeg : Process]
NoView == [conn |-> "none", ffmpeg |-> "none"]
Idle == [row |-> 0, says |-> "stopped"]

TypeOK == /\ rows \in Seq(Row)
          /\ reported \in Status \cup {"unknown"}
          /\ job \in [row : 0..MaxRows, says : Status]
          /\ child \in Child \cup {None}
          /\ feed \in [Child -> Process]
          /\ serving \in BOOLEAN
          /\ views \in [Viewer -> View]
          /\ capture \in {"off", "asked", "on"}
          /\ camera \in BOOLEAN
          /\ img \in Viewer \cup {None}
          /\ refreshes \subseteq Status \cup {"due"}
          /\ changed \in BOOLEAN

Init == /\ rows = <<>>
        /\ reported = "unknown"
        /\ job = Idle
        /\ child = None
        /\ feed = [c \in Child |-> "none"]
        /\ serving = FALSE
        /\ views = [v \in Viewer |-> NoView]
        /\ capture = "off"
        /\ camera = FALSE
        /\ img = None
        /\ refreshes = {}
        /\ changed = FALSE

tell(p) == IF p = "runs" THEN "told" ELSE p

-----------------------------------------------------------------------------
\* The page

\* Clearing src is what closes the connection.
stopCameraPreview ==
  /\ img' = None
  /\ views' = [v \in Viewer |-> IF v = img /\ views[v].conn = "open"
                                THEN [views[v] EXCEPT !.conn = "gone"] ELSE views[v]]

\* An image that points somewhere is left alone, also when nothing is there.
startCameraPreview ==
  \/ img # None /\ UNCHANGED <<img, views>>
  \/ /\ img = None
     /\ \E v \in Viewer :
          /\ views[v] = NoView
          /\ img' = v
          /\ views' = IF serving THEN [views EXCEPT ![v] = [conn |-> "open", ffmpeg |-> "runs"]]
                                 ELSE views

\* A webcam is ticked, or the last one is unticked.  The agent is remembered.
updateCameraCheck ==
  /\ capture = "off"
  /\ \/ camera' = TRUE /\ refreshes' = refreshes \cup {"due"} /\ UNCHANGED <<img, views>>
     \/ stopCameraPreview /\ UNCHANGED <<camera, refreshes>>
  /\ UNCHANGED <<api, job, puller, serving, capture>>

queuePullerCommand(action) ==
  rows' = Append(rows, [action |-> action, state |-> "queued", count |-> 0])

\* The state is asked for once, two seconds after the command was queued.
controlPuller(action) ==
  /\ camera
  /\ Len(rows) < MaxRows  \* bound
  /\ queuePullerCommand(action)
  /\ refreshes' = refreshes \cup {"due"}
  /\ UNCHANGED <<reported, job, puller, serving, views, capture, camera, img>>

\* The API answers.  A request that fails, like a state that is unknown, is
\* shown as such and nothing more.
pullerStateFor ==
  /\ "due" \in refreshes
  /\ \E answers \in {{}, {reported} \cap Status} : refreshes' = (refreshes \ {"due"}) \cup answers
  /\ UNCHANGED <<api, job, puller, serving, views, capture, camera, img>>

refreshPullerStatus == \E status \in refreshes \ {"due"} :
  /\ refreshes' = refreshes \ {status}
  /\ \/ status = "running" /\ startCameraPreview
     \/ status = "stopped" /\ stopCameraPreview
  /\ UNCHANGED <<api, job, puller, serving, capture, camera>>

\* The device has one reader, so the preview lets go of it first.
startSession ==
  /\ capture = "off"
  /\ capture' = "asked"
  /\ stopCameraPreview
  /\ UNCHANGED <<api, job, puller, serving, camera, refreshes>>

-----------------------------------------------------------------------------
\* The agent's poll loop

\* nextFor hands out the oldest command that is not leased and below the cap.
Deliverable == {i \in DOMAIN rows : rows[i].state = "queued" /\ rows[i].count < Cap}
nextFor(i) == i \in Deliverable /\ \A j \in Deliverable : i <= j
Leased(r) == [action |-> r.action, state |-> "leased", count |-> r.count + 1]

\* puller.start: one that is there, or is believed to be there, is enough.
Start ==
  /\ \/ child # None /\ UNCHANGED <<child, feed>>
     \/ /\ child = None
        /\ \E c \in Child : /\ feed[c] = "none"
                            /\ feed' = [feed EXCEPT ![c] = "runs"]
                            /\ child' = c
  /\ serving' = TRUE
  /\ UNCHANGED views

\* The child is told to end and forgotten, and so are the children of all viewers.
Stop ==
  /\ feed' = [c \in Child |-> IF c = child THEN tell(feed[c]) ELSE feed[c]]
  /\ child' = None
  /\ serving' = FALSE
  /\ views' = [v \in Viewer |-> [views[v] EXCEPT !.ffmpeg = tell(@)]]

\* Variant: whatever is recording.
Refused_never == FALSE
Refused == capture = "on"

Acts(action) ==
  \/ Refused /\ UNCHANGED <<child, feed, serving, views>>
  \/ ~Refused /\ action = "start" /\ Start
  \/ ~Refused /\ action = "stop" /\ Stop

\* Variant: the status is taken before the action.
Says_before(c) == IF child = None THEN "stopped" ELSE "running"
Says(c) == IF c = None THEN "stopped" ELSE "running"

pullerControl(i) ==
  /\ job.row = 0 /\ nextFor(i)
  /\ rows' = [rows EXCEPT ![i] = Leased(@)]
  /\ Acts(rows[i].action)
  /\ job' = [row |-> i, says |-> Says(child')]
  /\ changed' = FALSE
  /\ UNCHANGED <<reported, capture, page>>

\* A post that fails, or whose answer does, ends the handler with an error, and
\* the command is handed out again; otherwise it is applied and acknowledged.
recordPullerState ==
  /\ job.row # 0
  /\ job' = Idle
  /\ \/ reported' = job.says /\ rows' = [rows EXCEPT ![job.row].state = "done"]
     \/ reported' \in {reported, job.says} /\ UNCHANGED rows
  /\ UNCHANGED <<puller, serving, views, capture, page>>

LeaseExpires(i) ==
  /\ i \in DOMAIN rows /\ rows[i].state = "leased" /\ job.row # i
  /\ rows' = [rows EXCEPT ![i].state = "queued"]
  /\ UNCHANGED <<reported, job, puller, serving, views, capture, page>>

\* The commands of a session, which the same loop handles.  A camera that
\* somebody reads, or that nothing feeds, fails the probe of prepare.
Capture ==
  /\ job.row = 0
  /\ \/ /\ capture = "asked"
        /\ capture' = IF \E c \in Child : feed[c] \in {"runs", "told"}
                         /\ \A v \in Viewer : views[v].ffmpeg \notin {"runs", "told"}
                      THEN "on" ELSE "off"
     \/ capture = "on" /\ capture' = "off"
  /\ UNCHANGED <<api, job, puller, serving, views, page>>

-----------------------------------------------------------------------------
\* Processes, events and restarts

FeedEnds(c) ==
  /\ feed[c] \in {"runs", "told"}
  /\ feed' = [feed EXCEPT ![c] = "ended"]
  /\ UNCHANGED <<api, job, child, serving, views, capture, page, changed>>

\* The close event forgets the child, whichever that is by now.
FeedClose(c) ==
  /\ feed[c] = "ended"
  /\ feed' = [feed EXCEPT ![c] = "none"]
  /\ child' = None
  /\ changed' = TRUE
  /\ UNCHANGED <<api, job, serving, views, capture, page>>

ViewEnds(v) ==
  /\ views[v].ffmpeg \in {"runs", "told"}
  /\ views' = [views EXCEPT ![v].ffmpeg = "ended"]
  /\ UNCHANGED <<api, job, puller, serving, capture, page>>

\* child.on('close') ends the response.
ViewClose(v) ==
  /\ views[v].ffmpeg = "ended"
  /\ views' = [views EXCEPT ![v] = NoView]
  /\ UNCHANGED <<api, job, puller, serving, capture, page>>

\* Variant: the ffmpeg is left to find out by itself.
ResponseClose_leaves(v) ==
  /\ views[v].conn = "gone"
  /\ views' = [views EXCEPT ![v].conn = "none"]
  /\ UNCHANGED <<api, job, puller, serving, capture, page>>

\* res.on('close') ends the ffmpeg.
ResponseClose(v) ==
  /\ views[v].conn = "gone"
  /\ views' = [views EXCEPT ![v].conn = "none", ![v].ffmpeg = tell(@)]
  /\ UNCHANGED <<api, job, puller, serving, capture, page>>

\* The agent dies, its processes with it; the command it was in stays leased.
AgentRestarts ==
  /\ job' = Idle
  /\ child' = None
  /\ feed' = [c \in Child |-> "none"]
  /\ serving' = FALSE
  /\ views' = [v \in Viewer |-> NoView]
  /\ capture' = IF capture = "on" THEN "off" ELSE capture
  /\ changed' = TRUE
  /\ UNCHANGED <<api, page>>

ApiRestarts ==
  /\ reported' = "unknown"
  /\ UNCHANGED <<rows, job, puller, serving, views, capture, page>>

-----------------------------------------------------------------------------
Operate == \/ updateCameraCheck
           \/ \E action \in {"start", "stop"} : controlPuller(action)
           \/ startSession

Handle == \E i \in 1..MaxRows : pullerControl(i) \/ LeaseExpires(i)

Events == \/ \E c \in Child : FeedEnds(c) \/ FeedClose(c)
          \/ \E v \in Viewer : ViewEnds(v) \/ ViewClose(v) \/ ResponseClose(v)

Next == \/ Operate
        \/ pullerStateFor \/ refreshPullerStatus
        \/ Handle \/ recordPullerState \/ Capture
        \/ Events
        \/ AgentRestarts \/ ApiRestarts

Spec == Init /\ [][Next]_vars

\* Events are delivered; an ffmpeg that was told to end does.
Ends(v) == views[v].ffmpeg = "told" /\ ViewEnds(v)
Fairness == \A v \in Viewer : /\ WF_vars(ResponseClose(v))
                              /\ WF_vars(Ends(v))
                              /\ WF_vars(ViewClose(v))

FairSpec == Spec /\ Fairness
-----------------------------------------------------------------------------
\* While a recording runs, no command of the console ends the feed it reads or
\* adds another: the agent refuses (pullerControl).
KeepsFeed == capture = "on" /\ capture' = "on" =>
               \A c \in Child : /\ feed[c] = "runs" => feed'[c] # "told"
                               /\ feed'[c] = "runs" => feed[c] = "runs"
CaptureKeepsFeed == [][KeepsFeed]_vars

\* Once every command is done the API says what the supervisor believes, for as
\* long as nothing ended by itself: no answer of an earlier command is left over.
ReportIsCurrent ==
  /\ \A i \in DOMAIN rows : rows[i].state = "done"
  /\ job = Idle /\ ~changed /\ reported # "unknown"
  => (reported = "running") = (child # None)

\* An ffmpeg whose viewer is gone comes to an end (preview-server.ts: a closed
\* tab does not leave an ffmpeg decoding a camera nobody is watching).
NobodyIsWatched == \A v \in Viewer : views[v].conn = "gone" ~> views[v].ffmpeg = "none"

-----------------------------------------------------------------------------
\* What the comments say beyond this

\* puller.ts: two writers on one loopback device leave it unreadable.
OneWriter == \A c, d \in Child : feed[c] = "runs" /\ feed[d] = "runs" => c = d
=============================================================================
