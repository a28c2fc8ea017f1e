--------------------------- MODULE Camera_proofs ----------------------------
(***************************************************************************)
(* The camera check for any number of commands, processes, viewers and     *)
(* restarts: typing, that a recording keeps its feed, and that the API     *)
(* says what the agent believes once every command is done.                *)
(***************************************************************************)
EXTENDS Camera, TLAPS

TheStatus == Says(child)
AllDone == \A i \in DOMAIN rows : rows[i].state = "done"

\* The invariant says of the command in progress what ReportIsCurrent says of
\* the commands that are done; the row of the former is leased meanwhile.
JobOK == job.row # 0 => /\ job.row \in DOMAIN rows /\ rows[job.row].state = "leased"
                        /\ ~changed => job.says = TheStatus
ReportOK == job.row = 0 /\ AllDone /\ ~changed /\ reported # "unknown" => reported = TheStatus
RowsBound == Len(rows) <= MaxRows

Inv == TypeOK /\ RowsBound /\ JobOK /\ ReportOK

LEMMA StatusOK == Says(child) \in Status /\ (Says(child) = "running") = (child # None)
BY DEF Says, Status

LEMMA ReportIsCurrentFollows == Inv => ReportIsCurrent
BY StatusOK DEF Inv, ReportOK, ReportIsCurrent, AllDone, TheStatus, Idle

LEMMA RowsStep ==
  ASSUME TypeOK, NEW i \in DOMAIN rows, NEW r \in Row, rows' = [rows EXCEPT ![i] = r]
  PROVE  /\ rows' \in Seq(Row) /\ Len(rows') = Len(rows) /\ DOMAIN rows' = DOMAIN rows
         /\ rows'[i] = r
         /\ \A j \in DOMAIN rows : j # i => rows'[j] = rows[j]
BY DEF TypeOK

LEMMA RestOK == /\ Idle \in [row : 0..MaxRows, says : Status] /\ Idle.row = 0
                /\ NoView \in View
BY BoundsAssumption DEF Idle, Status, NoView, View, Process

LEMMA ViewsOK ==
  ASSUME TypeOK, NEW v \in Viewer
  PROVE  /\ [views[v] EXCEPT !.conn = "gone"] \in View
         /\ [views[v] EXCEPT !.conn = "none"] \in View
         /\ [views[v] EXCEPT !.ffmpeg = tell(@)] \in View
         /\ [views[v] EXCEPT !.ffmpeg = "ended"] \in View
BY DEF TypeOK, View, tell, Process

LEMMA PreviewOK ==
  ASSUME TypeOK, startCameraPreview \/ stopCameraPreview
  PROVE  img' \in Viewer \cup {None} /\ views' \in [Viewer -> View]
<1>1. CASE startCameraPreview
  BY <1>1 DEF startCameraPreview, TypeOK, View, Process
<1>2. CASE stopCameraPreview
  BY <1>2, ViewsOK DEF stopCameraPreview, TypeOK
<1> QED
  BY <1>1, <1>2

\* What the page does between two commands is no business of the report.
LEMMA PageOK ==
  Inv /\ (updateCameraCheck \/ pullerStateFor \/ refreshPullerStatus \/ startSession) => Inv'
<1> SUFFICES ASSUME Inv, updateCameraCheck \/ pullerStateFor \/ refreshPullerStatus \/ startSession
             PROVE  Inv'
  OBVIOUS
<1>1. UNCHANGED <<rows, reported, job, child, feed, serving, changed>>
  BY DEF updateCameraCheck, pullerStateFor, refreshPullerStatus, startSession, api, puller
<1>2. TypeOK'
  <2> USE DEF Inv, TypeOK, Status
  <2>1. CASE updateCameraCheck
    BY <2>1, <1>1, PreviewOK DEF updateCameraCheck
  <2>2. CASE pullerStateFor
    BY <2>2, <1>1 DEF pullerStateFor
  <2>3. CASE refreshPullerStatus
    BY <2>3, <1>1, PreviewOK DEF refreshPullerStatus
  <2>4. CASE startSession
    BY <2>4, <1>1, PreviewOK DEF startSession
  <2> QED
    BY <2>1, <2>2, <2>3, <2>4
<1> QED
  BY <1>1, <1>2 DEF Inv, RowsBound, JobOK, ReportOK, AllDone, TheStatus

LEMMA controlPullerOK ==
  ASSUME NEW action \in {"start", "stop"}
  PROVE  Inv /\ controlPuller(action) => Inv'
<1> SUFFICES ASSUME Inv, controlPuller(action)
             PROVE  Inv'
  OBVIOUS
<1> DEFINE r == [action |-> action, state |-> "queued", count |-> 0]
<1>1. r \in Row
  BY BoundsAssumption DEF Row
<1>2. /\ rows' = Append(rows, r) /\ rows' \in Seq(Row) /\ Len(rows') = Len(rows) + 1
      /\ rows'[Len(rows) + 1] = r
      /\ \A i \in DOMAIN rows : i \in DOMAIN rows' /\ rows'[i] = rows[i]
  BY <1>1 DEF controlPuller, queuePullerCommand, Inv, TypeOK
<1>3. ~AllDone'
  BY <1>2 DEF AllDone
<1> QED
  BY <1>2, <1>3, BoundsAssumption DEF controlPuller, Inv, TypeOK, RowsBound, JobOK, ReportOK, TheStatus, puller

LEMMA ActsOK ==
  ASSUME TypeOK, NEW action, Acts(action)
  PROVE  /\ child' \in Child \cup {None} /\ feed' \in [Child -> Process]
         /\ serving' \in BOOLEAN /\ views' \in [Viewer -> View]
<1>1. CASE Refused /\ UNCHANGED <<child, feed, serving, views>>
  BY <1>1 DEF TypeOK
<1>2. CASE Start
  BY <1>2 DEF Start, TypeOK, Process
<1>3. CASE Stop
  BY <1>3, ViewsOK DEF Stop, TypeOK, Process, tell
<1> QED
  BY <1>1, <1>2, <1>3 DEF Acts

LEMMA pullerControlOK == ASSUME NEW i PROVE Inv /\ pullerControl(i) => Inv'
<1> SUFFICES ASSUME Inv, pullerControl(i)
             PROVE  Inv'
  OBVIOUS
<1>1. /\ i \in DOMAIN rows /\ rows[i].count < Cap /\ i \in 1..MaxRows
      /\ Acts(rows[i].action)
      /\ job' = [row |-> i, says |-> Says(child')]
      /\ ~changed' /\ UNCHANGED <<reported, capture, camera, img, refreshes>>
  BY BoundsAssumption DEF pullerControl, nextFor, Deliverable, Inv, TypeOK, RowsBound, page
<1>2. /\ rows' \in Seq(Row) /\ Len(rows') = Len(rows) /\ DOMAIN rows' = DOMAIN rows
      /\ rows'[i].state = "leased"
  <2>1. rows[i] \in Row
    BY <1>1 DEF Inv, TypeOK
  <2>2. Leased(rows[i]) \in Row /\ Leased(rows[i]).state = "leased"
    BY <1>1, <2>1, BoundsAssumption DEF Row, Leased
  <2>3. rows' = [rows EXCEPT ![i] = Leased(rows[i])]
    BY DEF pullerControl
  <2> QED
    BY <1>1, <2>2, <2>3, RowsStep DEF Inv
<1>3. Says(child') \in Status
  BY DEF Says, Status
<1>4. /\ job'.row = i /\ job'.says = TheStatus' /\ job' \in [row : 0..MaxRows, says : Status]
      /\ job'.row # 0
  BY <1>1, <1>3, BoundsAssumption DEF TheStatus
<1>5. /\ child' \in Child \cup {None} /\ feed' \in [Child -> Process]
      /\ serving' \in BOOLEAN /\ views' \in [Viewer -> View]
  BY <1>1, ActsOK DEF Inv
<1>6. changed' = FALSE
  BY DEF pullerControl
<1>7. TypeOK' /\ RowsBound'
  BY <1>1, <1>2, <1>4, <1>5, <1>6 DEF Inv, TypeOK, RowsBound
<1> QED
  BY <1>1, <1>2, <1>4, <1>7 DEF Inv, JobOK, ReportOK

LEMMA recordPullerStateOK == Inv /\ recordPullerState => Inv'
<1> SUFFICES ASSUME Inv, recordPullerState
             PROVE  Inv'
  OBVIOUS
<1>1. /\ job.row \in DOMAIN rows /\ rows[job.row].state = "leased"
      /\ ~changed => job.says = TheStatus
      /\ job.says \in Status /\ rows[job.row] \in Row
  BY DEF Inv, JobOK, recordPullerState, TypeOK
<1>2. job' = Idle /\ job'.row = 0 /\ job' \in [row : 0..MaxRows, says : Status]
  BY BoundsAssumption DEF recordPullerState, Idle, Status
<1>3. UNCHANGED <<child, feed, changed, serving, views, capture, camera, img, refreshes>>
  BY DEF recordPullerState, puller, page
<1>4. CASE reported' = job.says /\ rows' = [rows EXCEPT ![job.row].state = "done"]
  <2>1. [rows[job.row] EXCEPT !.state = "done"] \in Row
    BY <1>1 DEF Row
  <2>2. rows' \in Seq(Row) /\ Len(rows') = Len(rows)
    BY <1>1, <1>4, <2>1 DEF Inv, TypeOK
  <2> QED
    BY <1>1, <1>2, <1>3, <1>4, <2>2 DEF Inv, TypeOK, RowsBound, JobOK, ReportOK, TheStatus
<1>5. CASE reported' \in {reported, job.says} /\ UNCHANGED rows
  <2>1. ~AllDone'
    BY <1>1, <1>5 DEF AllDone
  <2> QED
    BY <1>1, <1>2, <1>3, <1>5, <2>1 DEF Inv, TypeOK, RowsBound, JobOK, ReportOK
<1> QED
  BY <1>4, <1>5 DEF recordPullerState

LEMMA LeaseExpiresOK == ASSUME NEW i PROVE Inv /\ LeaseExpires(i) => Inv'
<1> SUFFICES ASSUME Inv, LeaseExpires(i)
             PROVE  Inv'
  OBVIOUS
<1>1. i \in DOMAIN rows /\ rows[i] \in Row /\ job.row # i
  BY DEF LeaseExpires, Inv, TypeOK
<1>2. [rows[i] EXCEPT !.state = "queued"] \in Row /\ [rows[i] EXCEPT !.state = "queued"].state = "queued"
  BY <1>1 DEF Row
<1>3. /\ rows' \in Seq(Row) /\ Len(rows') = Len(rows) /\ DOMAIN rows' = DOMAIN rows
      /\ rows'[i].state = "queued"
      /\ \A j \in DOMAIN rows : j # i => rows'[j] = rows[j]
  BY <1>1, <1>2, RowsStep DEF LeaseExpires, Inv
<1>4. ~AllDone'
  BY <1>1, <1>3 DEF AllDone
<1> QED
  BY <1>1, <1>3, <1>4 DEF LeaseExpires, Inv, TypeOK, RowsBound, JobOK, ReportOK, TheStatus,
     puller, page

\* Events leave the rows, the report and the job alone; one that takes the
\* child away is a change.
LEMMA EventsOK == Inv /\ (Capture \/ Events \/ AgentRestarts \/ ApiRestarts) => Inv'
<1> SUFFICES ASSUME Inv, Capture \/ Events \/ AgentRestarts \/ ApiRestarts
             PROVE  Inv'
  OBVIOUS
<1> USE DEF Inv, TypeOK, RowsBound, JobOK, ReportOK, AllDone, TheStatus, api, puller, page
<1>1. CASE Capture
  BY <1>1 DEF Capture
<1>2. ASSUME NEW c \in Child, FeedEnds(c)
      PROVE  Inv'
  BY <1>2 DEF FeedEnds, Process
<1>3. ASSUME NEW c \in Child, FeedClose(c)
      PROVE  Inv'
  BY <1>3 DEF FeedClose, Process
<1>4. ASSUME NEW v \in Viewer, ViewEnds(v)
      PROVE  Inv'
  <2>1. [views[v] EXCEPT !.ffmpeg = "ended"] \in View
    BY ViewsOK
  <2> QED
    BY <1>4, <2>1 DEF ViewEnds
<1>5. ASSUME NEW v \in Viewer, ViewClose(v)
      PROVE  Inv'
  BY <1>5 DEF ViewClose, NoView, View, Process
<1>6. ASSUME NEW v \in Viewer, ResponseClose(v)
      PROVE  Inv'
  <2>1. views[v] \in View
    OBVIOUS
  <2>2. [views[v] EXCEPT !.conn = "none", !.ffmpeg = tell(@)] \in View
    BY <2>1 DEF View, tell, Process
  <2> QED
    BY <1>6, <2>2 DEF ResponseClose
<1>7. CASE AgentRestarts
  BY <1>7, RestOK DEF AgentRestarts, Process
<1>8. CASE ApiRestarts
  BY <1>8 DEF ApiRestarts
<1> QED
  BY <1>1, <1>2, <1>3, <1>4, <1>5, <1>6, <1>7, <1>8 DEF Events

LEMMA InitOK == Init => Inv
<1> SUFFICES ASSUME Init
             PROVE  Inv
  OBVIOUS
<1>1. rows \in Seq(Row) /\ Len(rows) = 0
  BY DEF Init
<1>2. TypeOK
  BY <1>1, RestOK DEF Init, TypeOK, Process
<1> QED
  BY <1>1, <1>2, RestOK, BoundsAssumption DEF Init, Inv, RowsBound, JobOK, ReportOK

LEMMA Inductive == Inv /\ [Next]_vars => Inv'
<1>1. Inv /\ UNCHANGED vars => Inv'
  BY DEF vars, Inv, TypeOK, RowsBound, JobOK, ReportOK, AllDone, TheStatus
<1> QED
  BY <1>1, PageOK, controlPullerOK, pullerControlOK, recordPullerStateOK, LeaseExpiresOK,
     EventsOK DEF Next, Operate, Handle

-----------------------------------------------------------------------------
\* The commands, processes, connections and answers keep their types.
THEOREM TypeCorrect == Spec => []TypeOK
BY InitOK, Inductive, PTL DEF Spec, Inv

\* However the commands are repeated, their answers lost and the API
\* restarted: once every command is done, the state the console reads
\* (pullerStateFor) is what the supervisor believes.
THEOREM ReportIsCurrentHolds == Spec => []ReportIsCurrent
BY InitOK, Inductive, ReportIsCurrentFollows, PTL DEF Spec

-----------------------------------------------------------------------------
\* Only a command tells a feed to end or starts one, and it is refused.
LEMMA KeepsFeedStep == Inv /\ [Next]_vars => KeepsFeed
<1> SUFFICES ASSUME Inv, [Next]_vars, capture = "on", capture' = "on", NEW c \in Child
             PROVE  /\ feed[c] = "runs" => feed'[c] # "told"
                    /\ feed'[c] = "runs" => feed[c] = "runs"
  BY DEF KeepsFeed
<1>1. CASE UNCHANGED feed
  BY <1>1
<1>2. ASSUME NEW i, pullerControl(i)
      PROVE  UNCHANGED feed
  BY <1>2 DEF pullerControl, Acts, Refused
<1>3. ASSUME NEW d \in Child, FeedEnds(d) \/ FeedClose(d)
      PROVE  feed'[c] \in {feed[c], "ended", "none"}
  BY <1>3 DEF FeedEnds, FeedClose, Inv, TypeOK
<1>4. AgentRestarts => FALSE
  BY DEF AgentRestarts
<1>5. \/ UNCHANGED feed
      \/ \E i \in 1..MaxRows : pullerControl(i)
      \/ \E d \in Child : FeedEnds(d) \/ FeedClose(d)
  BY <1>4 DEF Next, Operate, Handle, Events, vars, updateCameraCheck, controlPuller, startSession,
     pullerStateFor, refreshPullerStatus, recordPullerState, LeaseExpires, Capture, ViewEnds,
     ViewClose, ResponseClose, ApiRestarts, puller
<1> QED
  BY <1>1, <1>2, <1>3, <1>5

\* agent.ts refuses to start or stop the feed while a capture runs, and
\* nothing else starts it or tells it to end: whatever the console asks for,
\* and however late it arrives, a recording keeps the feed it reads.
THEOREM CaptureKeepsFeedHolds == Spec => CaptureKeepsFeed
<1>1. Inv /\ [Next]_vars => [KeepsFeed]_vars
  BY KeepsFeedStep
<1> QED
  BY <1>1, InitOK, Inductive, PTL DEF Spec, CaptureKeepsFeed
=============================================================================
