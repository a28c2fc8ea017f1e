----------------------------- MODULE HostMedia -----------------------------
(***************************************************************************)
(* What one agent does to the media of one session: the ffmpeg children    *)
(* that write it, the two ways a capture is stopped, the sweep that backs  *)
(* segments up while they record, the upload and readback after a Save,    *)
(* and the purge after a Discard.                                          *)
(*                                                                         *)
(* The poll loop carries out commands, the tick loop sweeps and watches    *)
(* the disk; both await, and meet in the supervisor and in the bucket.     *)
(* What makes the API send a command is RecordingSystem's subject, and so  *)
(* is the death of the agent process: here one process lives on.           *)
(***************************************************************************)
EXTENDS Naturals, Sequences

CONSTANTS Track,       \* the media tracks of the session
          MaxSegments, \* bound: segments of a track
          MaxSize,     \* bound: the size of a segment
          Runner,      \* the runners of an upload's pool
          Retries,     \* puts tried for one file
          Faults       \* what may go wrong in this instance

FaultKinds == {"nodisplay", \* a display is gone when the capture starts
               "dies",      \* ffmpeg exits with an error
               "ends",      \* ffmpeg exits with code 0, its input at an end
               "disk",      \* free space falls below the floor
               "head",      \* a HEAD fails
               "put",       \* a PUT fails, whether or not it stored
               "short",     \* a PUT that succeeded landed short
               "remove"}    \* a DELETE fails

ASSUME BoundsAssumption ==
  MaxSegments \in Nat \ {0} /\ MaxSize \in Nat \ {0} /\ Retries \in Nat \ {0}
ASSUME FaultsAssumption == Faults \subseteq FaultKinds
ASSUME RunnerAssumption == "sweep" \notin Runner

VARIABLES
  child,    \* child[t]: the ffmpeg of track t
  signal,   \* the last signal stopAll sent to the children still running
  degraded, \* the tracks marked degraded
  torn,     \* history: tracks whose last segment ffmpeg did not finalise
  files,    \* files[t]: the sizes of t's segments on disk
  held,     \* whether the adapter holds the CaptureSession
  manifest, \* the segments the manifest lists
  listed,   \* whether the manifest is written
  live,     \* whether the agent still has the session's id and prefix
  asked,    \* the commands the poll loop has taken up
  pc,       \* pc[l]: where loop l stands
  todo,     \* todo[l]: the files loop l still has before it
  left,     \* the tracks the sweep has not listed yet
  work,     \* work[w]: the file an uploadFile call is about
  done,     \* the segments the sweep will not upload again
  walked,   \* the files the upload found, with the sizes it found
  missing,  \* whether the readback has missed a file
  result,   \* how the upload ended
  late,     \* history: files the sweep put after the upload's walk
  objects   \* objects[f]: the size of f in the bucket, 0 if it is not there

capture == <<child, signal, degraded, torn, files>>
session == <<held, manifest, listed>>
agent == <<live, asked, pc, todo, left>>
upload == <<work, done, walked, missing, result, late>>
vars == <<capture, session, agent, upload, objects>>

File == Track \X (1..MaxSegments)
OnDisk == {f \in File : f[2] \in DOMAIN files[f[1]]}
SizeOf(f) == files[f[1]][f[2]]

Loop == {"poll", "tick"}
Resting == [at |-> "idle"]
Dead == [at |-> "dead"]
Work == [at : {"head", "put"}, file : File, bytes : 1..MaxSize, tries : 1..Retries]

TypeOK == /\ child \in [Track -> {"none", "running", "exited"}]
          /\ signal \in {"none", "SIGINT", "SIGKILL"}
          /\ degraded \subseteq Track /\ torn \subseteq Track
          /\ files \in [Track -> Seq(1..MaxSize)]
          /\ manifest \in [Track -> Seq(1..MaxSize)]
          /\ held \in BOOLEAN /\ listed \in BOOLEAN /\ live \in BOOLEAN
          /\ asked \subseteq {"start", "stop", "upload", "abort"}
          /\ pc \in [Loop -> {"idle", "wait", "collect", "post", "sweep",
                              "pool", "verify", "purge", "purging"}]
          /\ todo \in [Loop -> SUBSET File]
          /\ left \subseteq Track
          /\ work \in [Runner \cup {"sweep"} -> Work \cup {Resting, Dead}]
          /\ done \subseteq File /\ late \subseteq File
          /\ DOMAIN walked \subseteq File
          /\ \A f \in DOMAIN walked : walked[f] \in 1..MaxSize
          /\ missing \in BOOLEAN
          /\ result \in {"none", "failed", "unverified", "verified"}
          /\ objects \in [File -> 0..MaxSize]

Init == /\ child = [t \in Track |-> "none"]
        /\ signal = "none"
        /\ degraded = {} /\ torn = {}
        /\ files = [t \in Track |-> <<>>]
        /\ held = FALSE /\ listed = FALSE /\ live = FALSE
        /\ manifest = [t \in Track |-> <<>>]
        /\ asked = {}
        /\ pc = [l \in Loop |-> "idle"]
        /\ todo = [l \in Loop |-> {}]
        /\ left = {}
        /\ work = [w \in Runner \cup {"sweep"} |-> Resting]
        /\ done = {} /\ late = {}
        /\ walked = [f \in {} |-> 0]
        /\ missing = FALSE
        /\ result = "none"
        /\ objects = [f \in File |-> 0]

isRunning == \E t \in Track : child[t] = "running"

-----------------------------------------------------------------------------
\* The children and the supervisor

\* ffmpeg writes to its newest segment or begins the next one.
Write(t) ==
  /\ child[t] = "running"
  /\ \/ /\ files[t] # <<>> /\ files[t][Len(files[t])] < MaxSize
        /\ files' = [files EXCEPT ![t][Len(files[t])] = @ + 1]
     \/ /\ Len(files[t]) < MaxSegments
        /\ files' = [files EXCEPT ![t] = Append(@, 1)]
  /\ UNCHANGED <<child, signal, degraded, torn, session, agent, upload, objects>>

\* Variant: whatever happens during a stop is part of the stop.
cleanExit_stopping(how) == how = "zero" \/ signal # "none"
\* An interrupted ffmpeg says 255; that is clean during a stop only.
cleanExit(how) == how = "zero" \/ (signal # "none" /\ how = "interrupted")

handleExit(t, how) ==
  /\ child[t] = "running"
  /\ child' = [child EXCEPT ![t] = "exited"]
  /\ degraded' = IF cleanExit(how) THEN degraded ELSE degraded \cup {t}
  /\ torn' = IF how \in {"error", "killed"} THEN torn \cup {t} ELSE torn
  /\ UNCHANGED <<signal, files, session, agent, upload, objects>>

\* All children of a session are spawned at once.
Spawned == [t \in Track |-> "running"]

\* By itself, or told to.  SIGINT may be ignored: an encoder can be wedged.
Exits(t) == \/ "dies" \in Faults /\ handleExit(t, "error")
            \/ "ends" \in Faults /\ handleExit(t, "zero")
            \/ signal # "none" /\ handleExit(t, "interrupted")
Killed(t) == signal = "SIGKILL" /\ handleExit(t, "killed")

Goto(l, at) == pc' = [pc EXCEPT ![l] = at]

\* capture.stop(): nothing without a session; else SIGINT to whoever runs.
StopBegins(l) ==
  IF held
  THEN /\ Goto(l, "wait")
       /\ signal' = IF isRunning /\ signal = "none" THEN "SIGINT" ELSE signal
  ELSE UNCHANGED <<pc, signal>>

\* Variant: no last resort, only another SIGINT.
Escalate_politely(l) ==
  /\ pc[l] = "wait" /\ isRunning /\ signal # "SIGKILL"
  /\ UNCHANGED vars
\* The grace period is over.
Escalate(l) ==
  /\ pc[l] = "wait" /\ isRunning /\ signal # "SIGKILL"
  /\ signal' = "SIGKILL"
  /\ UNCHANGED <<child, degraded, torn, files, session, agent, upload, objects>>

\* Variant: a child that was sent SIGKILL is taken for gone.
StopAllEnds_killed(l) ==
  /\ pc[l] = "wait" /\ (~isRunning \/ signal = "SIGKILL")
  /\ Goto(l, "collect")
  /\ UNCHANGED <<capture, session, live, asked, todo, left, upload, objects>>
StopAllEnds(l) ==
  /\ pc[l] = "wait" /\ ~isRunning
  /\ Goto(l, "collect")
  /\ UNCHANGED <<capture, session, live, asked, todo, left, upload, objects>>

\* Every segment there is, with its size.
collectSegments(t) == files[t]

Collect(l) ==
  /\ pc[l] = "collect"
  /\ manifest' = [t \in Track |-> collectSegments(t)] /\ listed' = TRUE
  /\ Goto(l, "post")
  /\ UNCHANGED <<capture, held, live, asked, todo, left, upload, objects>>

\* The manifest has been posted, or not; either way the session is let go.
\* An abort goes on with its purge.
StopReturns(l) ==
  /\ pc[l] = "post"
  /\ held' = FALSE
  /\ Goto(l, IF l = "poll" /\ "abort" \in asked THEN "purge" ELSE "idle")
  /\ UNCHANGED <<capture, manifest, listed, live, asked, todo, left, upload, objects>>

StopStep(l) == Escalate(l) \/ StopAllEnds(l) \/ Collect(l) \/ StopReturns(l)

-----------------------------------------------------------------------------
\* Commands.  After a stop, if it was not given up on, comes an upload or an
\* abort; an abort may come before the start as well.

TakesUp(command) == /\ pc["poll"] = "idle"
                    /\ asked \cap {command, "upload", "abort"} = {}
                    /\ asked' = asked \cup {command}

\* The session object is there before a missing display is noticed; then no
\* child is spawned, not even those of the tracks before it.
start ==
  /\ TakesUp("start") /\ "stop" \notin asked
  /\ held' = TRUE /\ live' = TRUE
  /\ \/ child' = Spawned
     \/ "nodisplay" \in Faults /\ UNCHANGED child
  /\ UNCHANGED <<signal, degraded, torn, files, manifest, listed, pc, todo, left, upload,
                 objects>>

stop ==
  /\ TakesUp("stop")
  /\ StopBegins("poll")
  /\ UNCHANGED <<child, degraded, torn, files, session, live, todo, left, upload, objects>>

abort ==
  /\ TakesUp("abort")
  /\ IF isRunning THEN StopBegins("poll") ELSE Goto("poll", "purge") /\ UNCHANGED signal
  /\ UNCHANGED <<child, degraded, torn, files, session, live, todo, left, upload, objects>>

\* capture.upload: the walk.  A capture whose stop was given up on writes on.
Walk ==
  /\ "start" \in asked /\ TakesUp("upload")
  /\ walked' = [f \in OnDisk |-> SizeOf(f)]
  /\ todo' = [todo EXCEPT !["poll"] = OnDisk]
  /\ Goto("poll", "pool")
  /\ UNCHANGED <<capture, session, live, left, work, done, missing, result, late, objects>>

-----------------------------------------------------------------------------
\* uploadFile, for the sweep and for the runners of a pool

\* The call ends.  The first runner to fail fails the upload, while the other
\* runners go on with what is left in the queue.
Return(w, ok) ==
  IF w = "sweep"
  THEN /\ work' = [work EXCEPT ![w] = Resting]
       /\ done' = IF ok THEN done \cup {work[w].file} ELSE done
       /\ UNCHANGED <<pc, result>>
  ELSE /\ work' = [work EXCEPT ![w] = IF ok THEN Resting ELSE Dead]
       /\ IF ok THEN UNCHANGED <<pc, result>> ELSE Goto("poll", "idle") /\ result' = "failed"
       /\ UNCHANGED done

\* An object of the right size is not sent again.
HeadObject(w) ==
  /\ work[w].at = "head"
  /\ \/ /\ objects[work[w].file] = work[w].bytes
        /\ Return(w, TRUE)
     \/ /\ objects[work[w].file] # work[w].bytes \/ "head" \in Faults
        /\ work' = [work EXCEPT ![w].at = "put"]
        /\ UNCHANGED <<pc, result, done>>
  /\ UNCHANGED <<capture, session, live, asked, todo, left, walked, missing, late, objects>>

\* What a put that succeeds leaves: the file as it is now, or less of it.
Landed(f) == {SizeOf(f)} \cup (IF "short" \in Faults THEN 1..(SizeOf(f) - 1) ELSE {})

\* Variant: after the last attempt they start again.
PutFails_forever(w) ==
  work' = [work EXCEPT ![w].tries = (@ % Retries) + 1] /\ UNCHANGED <<pc, result, done>>
PutFails(w) ==
  IF work[w].tries < Retries
  THEN work' = [work EXCEPT ![w].tries = @ + 1] /\ UNCHANGED <<pc, result, done>>
  ELSE Return(w, FALSE)

\* A put that fails may have stored the file all the same.
PutObject(w) ==
  /\ work[w].at = "put"
  /\ LET f == work[w].file
         stores(n) ==
           /\ objects' = [objects EXCEPT ![f] = n]
           /\ late' = IF w = "sweep" /\ "upload" \in asked /\ n # objects[f]
                       THEN late \cup {f} ELSE late
     IN \/ \E n \in Landed(f) : stores(n) /\ Return(w, TRUE)
        \/ "put" \in Faults /\ \E n \in {objects[f], SizeOf(f)} : stores(n) /\ PutFails(w)
  /\ UNCHANGED <<capture, session, live, asked, todo, left, walked, missing>>

Begin(w, f, bytes) ==
  work' = [work EXCEPT ![w] = [at |-> "head", file |-> f, bytes |-> bytes, tries |-> 1]]

-----------------------------------------------------------------------------
\* The pool and the readback

Take(r) ==
  /\ "upload" \in asked /\ pc["poll"] \in {"pool", "idle"}
  /\ work[r] = Resting
  /\ \E f \in todo["poll"] : /\ Begin(r, f, walked[f])
                             /\ todo' = [todo EXCEPT !["poll"] = @ \ {f}]
  /\ UNCHANGED <<capture, session, live, asked, pc, left, done, walked, missing, result,
                 late, objects>>

PoolEnds ==
  /\ pc["poll"] = "pool" /\ todo["poll"] = {}
  /\ \A r \in Runner : work[r] = Resting
  /\ Goto("poll", "verify")
  /\ todo' = [todo EXCEPT !["poll"] = DOMAIN walked]
  /\ UNCHANGED <<capture, session, live, asked, left, upload, objects>>

\* Variant: an object that is there is taken for whole.
ReadBack_present(f) == objects[f] # 0
ReadBack(f) == objects[f] = walked[f]

VerifyOne ==
  /\ pc["poll"] = "verify"
  /\ \E f \in todo["poll"] :
       /\ todo' = [todo EXCEPT !["poll"] = @ \ {f}]
       /\ \/ missing' = (missing \/ ~ReadBack(f))
          \/ "head" \in Faults /\ missing' = TRUE
  /\ UNCHANGED <<capture, session, live, asked, pc, left, work, done, walked, result, late,
                 objects>>

VerifyEnds ==
  /\ pc["poll"] = "verify" /\ todo["poll"] = {}
  /\ result' = IF missing THEN "unverified" ELSE "verified"
  /\ Goto("poll", "idle")
  /\ UNCHANGED <<capture, session, live, asked, todo, left, work, done, walked, missing, late,
                 objects>>

UploadStep == PoolEnds \/ VerifyOne \/ VerifyEnds

-----------------------------------------------------------------------------
\* The purge: list, delete one by one, then forget the session.  The prefix is
\* missing from an abort only if there was no start, and then so is the media.

PurgeList ==
  /\ pc["poll"] = "purge"
  /\ todo' = [todo EXCEPT !["poll"] = {f \in File : objects[f] # 0}]
  /\ Goto("poll", "purging")
  /\ UNCHANGED <<capture, session, live, asked, left, upload, objects>>

Remove ==
  /\ pc["poll"] = "purging"
  /\ \E f \in todo["poll"] : /\ objects' = [objects EXCEPT ![f] = 0]
                             /\ todo' = [todo EXCEPT !["poll"] = @ \ {f}]
  /\ UNCHANGED <<capture, session, live, asked, pc, left, upload>>

\* A purge that fails is logged, and the rest of it is not done.
PurgeEnds ==
  /\ pc["poll"] = "purging"
  /\ todo["poll"] = {} \/ "remove" \in Faults
  /\ live' = FALSE
  /\ todo' = [todo EXCEPT !["poll"] = {}]
  /\ Goto("poll", "idle")
  /\ UNCHANGED <<capture, session, asked, left, upload, objects>>

PurgeStep == PurgeList \/ Remove \/ PurgeEnds

-----------------------------------------------------------------------------
\* The tick loop: the disk floor and the sweep

tickDiskFloor ==
  /\ "disk" \in Faults
  /\ pc["tick"] = "idle" /\ isRunning /\ live
  /\ StopBegins("tick")
  /\ UNCHANGED <<child, degraded, torn, files, session, live, asked, todo, left, upload, objects>>

sweep ==
  /\ pc["tick"] = "idle" /\ isRunning /\ live
  /\ Goto("tick", "sweep")
  /\ left' = Track
  /\ UNCHANGED <<capture, session, live, asked, todo, upload, objects>>

\* Variant: the segment ffmpeg has open is one of them.
closedSegments_all(t) == {<<t, k>> : k \in 1..Len(files[t])}
closedSegments(t) == {<<t, k>> : k \in 1..(Len(files[t]) - 1)}

\* One track's directory is listed when the track before it is through.
SweepList(t) ==
  /\ pc["tick"] = "sweep" /\ t \in left
  /\ todo["tick"] = {} /\ work["sweep"] = Resting
  /\ left' = left \ {t}
  /\ todo' = [todo EXCEPT !["tick"] = closedSegments(t) \ done]
  /\ UNCHANGED <<capture, session, live, asked, pc, upload, objects>>

SweepFile ==
  /\ pc["tick"] = "sweep" /\ work["sweep"] = Resting
  /\ \E f \in todo["tick"] :
       /\ \A g \in todo["tick"] : f[2] <= g[2]
       /\ Begin("sweep", f, SizeOf(f))
       /\ todo' = [todo EXCEPT !["tick"] = @ \ {f}]
  /\ UNCHANGED <<capture, session, live, asked, pc, left, done, walked, missing, result, late,
                 objects>>

SweepEnds ==
  /\ pc["tick"] = "sweep" /\ left = {}
  /\ todo["tick"] = {} /\ work["sweep"] = Resting
  /\ Goto("tick", "idle")
  /\ UNCHANGED <<capture, session, live, asked, todo, left, upload, objects>>

SweepStep == (\E t \in Track : SweepList(t)) \/ SweepFile \/ SweepEnds

-----------------------------------------------------------------------------
Next == \/ \E t \in Track : Write(t) \/ Exits(t) \/ Killed(t)
        \/ start \/ stop \/ abort \/ Walk
        \/ \E l \in Loop : StopStep(l)
        \/ \E w \in Runner \cup {"sweep"} : HeadObject(w) \/ PutObject(w)
        \/ \E r \in Runner : Take(r)
        \/ UploadStep \/ PurgeStep
        \/ tickDiskFloor \/ sweep \/ SweepStep

Spec == Init /\ [][Next]_vars

(***************************************************************************)
(* What is awaited goes on, and a process that was sent SIGKILL ends.      *)
(* Nothing is assumed of SIGINT, of the operator or of any fault.          *)
(***************************************************************************)
FairSpec == /\ Spec
            /\ \A t \in Track : WF_vars(Killed(t))
            /\ \A l \in Loop : WF_vars(StopStep(l))
            /\ \A w \in Runner \cup {"sweep"} : WF_vars(HeadObject(w) \/ PutObject(w))
            /\ \A r \in Runner : WF_vars(Take(r))
            /\ WF_vars(UploadStep) /\ WF_vars(PurgeStep) /\ WF_vars(SweepStep)

-----------------------------------------------------------------------------
\* Properties

\* A track that is not marked degraded can be played to its end: a child that
\* broke off, or had to be killed during a stop, is not taken for a clean exit.
HealthyIsPlayable == torn \subseteq degraded

\* The manifest lists every segment at the size it will keep, whichever loop
\* stopped the capture and whatever had to be killed for it.
ManifestIsFinal == listed => manifest = files

\* Nothing ffmpeg still writes to is backed up: such an object would be short.
Open(f) == f[2] = Len(files[f[1]]) /\ child[f[1]] = "running"
BackupIsClosed ==
  "upload" \notin asked => \A f \in File : objects[f] # 0 => ~Open(f)

\* An upload of a stopped capture that reads back as verified has every file
\* in the bucket at its size: retries, failures, short puts and the HEAD that
\* skips a file have left no gap.  But for files an old sweep put meanwhile.
VerifiedIsWhole ==
  [][result # "verified" /\ result' = "verified" /\ "stop" \in asked
     => \A f \in OnDisk : objects[f] = SizeOf(f) \/ f \in late]_vars

\* A wedged encoder does not hold the session open for ever: a loop that stops
\* the capture comes back.
StopComesBack == \A l \in Loop : pc[l] = "wait" ~> pc[l] = "idle"

\* An upload ends, verified, unverified or failed.
UploadEnds == "upload" \in asked ~> result # "none"
=============================================================================
