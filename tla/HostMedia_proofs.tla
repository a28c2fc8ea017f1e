-------------------------- MODULE HostMedia_proofs --------------------------
(***************************************************************************)
(* The media of one session for any number of tracks, segments, runners,   *)
(* retries and faults: typing, what the manifest and the backup hold, that *)
(* a verified upload is whole, and that a torn track is marked.            *)
(***************************************************************************)
EXTENDS HostMedia, SequenceTheorems, TLAPS

-----------------------------------------------------------------------------
\* Typing.  A size is read of files that are there only: what a loop or an
\* uploadFile call still has before it is on disk, and was found by the walk.

CaptureOK == /\ child \in [Track -> {"none", "running", "exited"}]
             /\ signal \in {"none", "SIGINT", "SIGKILL"}
             /\ degraded \subseteq Track /\ torn \subseteq Track
             /\ files \in [Track -> Seq(1..MaxSize)]
             /\ \A t \in Track : Len(files[t]) <= MaxSegments
SessionOK == /\ manifest \in [Track -> Seq(1..MaxSize)]
             /\ held \in BOOLEAN /\ listed \in BOOLEAN /\ live \in BOOLEAN
             /\ asked \subseteq {"start", "stop", "upload", "abort"}
             /\ missing \in BOOLEAN
             /\ result \in {"none", "failed", "unverified", "verified"}
LoopsOK == /\ pc \in [Loop -> {"idle", "wait", "collect", "post", "sweep",
                               "pool", "verify", "purge", "purging"}]
           /\ todo \in [Loop -> SUBSET File]
           /\ left \subseteq Track
           /\ "upload" \in asked => "abort" \notin asked
           /\ pc["poll"] \in {"purge", "purging"} => "abort" \in asked
BucketOK == /\ work \in [Runner \cup {"sweep"} -> Work \cup {Resting, Dead}]
            /\ done \subseteq File /\ late \subseteq File
            /\ objects \in [File -> 0..MaxSize]

\* The segment has a successor; ffmpeg does not come back to it.
Closed(f) == f[2] < Len(files[f[1]])
DiskOK == /\ \A f \in todo["tick"] : Closed(f)
          /\ \A w \in Runner \cup {"sweep"} : work[w] \in Work => work[w].file \in OnDisk
          /\ DOMAIN walked \subseteq OnDisk
          /\ \A f \in DOMAIN walked : walked[f] \in 1..MaxSize
          /\ "upload" \in asked => todo["poll"] \subseteq DOMAIN walked

TypeInv == CaptureOK /\ SessionOK /\ LoopsOK /\ BucketOK /\ DiskOK

LEMMA TypeInvTypes == TypeInv => TypeOK
BY DEF TypeInv, CaptureOK, SessionOK, LoopsOK, BucketOK, DiskOK, OnDisk, TypeOK

LEMMA FilesAreSequences ==
  ASSUME CaptureOK, NEW t \in Track
  PROVE  /\ files[t] \in Seq(1..MaxSize)
         /\ Len(files[t]) \in Nat
         /\ DOMAIN files[t] = 1..Len(files[t])
         /\ \A k \in 1..Len(files[t]) : files[t][k] \in 1..MaxSize
<1>1. files[t] \in Seq(1..MaxSize)
  BY DEF CaptureOK
<1> QED
  BY <1>1, LenProperties, ElementOfSeq

LEMMA SizesOK ==
  ASSUME CaptureOK, NEW f \in OnDisk
  PROVE  SizeOf(f) \in 1..MaxSize
<1>1. f[1] \in Track /\ f[2] \in DOMAIN files[f[1]]
  BY DEF OnDisk, File
<1> QED
  BY <1>1, FilesAreSequences DEF SizeOf

LEMMA ClosedOnDisk ==
  ASSUME CaptureOK, NEW f \in File, Closed(f)
  PROVE  f \in OnDisk
<1>1. f[1] \in Track /\ f[2] \in Nat /\ f[2] >= 1
  BY BoundsAssumption DEF File
<1>2. Len(files[f[1]]) \in Nat /\ DOMAIN files[f[1]] = 1..Len(files[f[1]])
  BY <1>1, FilesAreSequences
<1> QED
  BY <1>1, <1>2 DEF OnDisk, Closed

\* Segments are added and grow; none goes away.
LEMMA FilesGrow ==
  ASSUME CaptureOK, NEW t \in Track, Write(t)
  PROVE  /\ files' \in [Track -> Seq(1..MaxSize)]
         /\ \A u \in Track : Len(files'[u]) <= MaxSegments
         /\ \A f \in File : f \in OnDisk => f \in OnDisk'
         /\ \A f \in File : Closed(f) => Closed(f)'
<1> DEFINE s == files'[t]
<1>1. files' = [files EXCEPT ![t] = s] /\ s \in Seq(1..MaxSize) /\ Len(s) >= Len(files[t])
      /\ Len(s) <= MaxSegments
  <2>1. CASE /\ files[t] # <<>> /\ files[t][Len(files[t])] < MaxSize
             /\ files' = [files EXCEPT ![t][Len(files[t])] = @ + 1]
    <3>1. Len(files[t]) \in 1..Len(files[t])
      BY <2>1, FilesAreSequences, EmptySeq
    <3>2. files[t][Len(files[t])] + 1 \in 1..MaxSize
      BY <2>1, <3>1, FilesAreSequences, BoundsAssumption
    <3>3. s = [files[t] EXCEPT ![Len(files[t])] = files[t][Len(files[t])] + 1]
      BY <2>1 DEF CaptureOK
    <3>4. s \in Seq(1..MaxSize) /\ Len(s) = Len(files[t])
      BY <3>1, <3>2, <3>3, FilesAreSequences, ExceptSeq
    <3> QED
      BY <2>1, <3>1, <3>3, <3>4 DEF CaptureOK
  <2>2. CASE Len(files[t]) < MaxSegments /\ files' = [files EXCEPT ![t] = Append(@, 1)]
    <3>1. s = Append(files[t], 1)
      BY <2>2 DEF CaptureOK
    <3>2. 1 \in 1..MaxSize
      BY BoundsAssumption
    <3>3. s \in Seq(1..MaxSize) /\ Len(s) = Len(files[t]) + 1
      BY <3>1, <3>2, FilesAreSequences, AppendProperties
    <3>4. Len(files[t]) \in Nat
      BY FilesAreSequences
    <3> QED
      BY <2>2, <3>1, <3>3, <3>4, BoundsAssumption DEF CaptureOK
  <2> QED
    BY <2>1, <2>2 DEF Write
<1> HIDE DEF s
<1>2. \A u \in Track : files'[u] = IF u = t THEN s ELSE files[u]
  BY <1>1 DEF CaptureOK
<1>3. Len(s) \in Nat /\ DOMAIN s = 1..Len(s)
  BY <1>1, LenProperties
<1>4. files' \in [Track -> Seq(1..MaxSize)] /\ \A u \in Track : Len(files'[u]) <= MaxSegments
  BY <1>1, <1>2 DEF CaptureOK
<1>5. ASSUME NEW f \in File
      PROVE  (f \in OnDisk => f \in OnDisk') /\ (Closed(f) => Closed(f)')
  <2>1. f[1] \in Track /\ f[2] \in Nat
    BY BoundsAssumption DEF File
  <2>2. Len(files[f[1]]) \in Nat /\ DOMAIN files[f[1]] = 1..Len(files[f[1]])
    BY <2>1, FilesAreSequences
  <2>3. CASE f[1] = t
    BY <1>1, <1>2, <1>3, <2>1, <2>2, <2>3 DEF OnDisk, Closed
  <2>4. CASE f[1] # t
    BY <1>2, <2>1, <2>4 DEF OnDisk, Closed
  <2> QED
    BY <2>3, <2>4
<1> QED
  BY <1>4, <1>5

LEMMA StatesDiffer == \A r \in Work : r # Resting /\ r # Dead /\ r.at # "idle" /\ r.at # "dead"
BY DEF Work, Resting, Dead

\* What a step of uploadFile does beside the bucket.
CallOK == /\ work' \in [Runner \cup {"sweep"} -> Work \cup {Resting, Dead}]
          /\ \A v \in Runner \cup {"sweep"} :
               work'[v] \in Work => work[v] \in Work /\ work'[v].file = work[v].file
          /\ done' \subseteq File
          /\ pc' = pc \/ pc' = [pc EXCEPT !["poll"] = "idle"]
          /\ result' \in {"none", "failed", "unverified", "verified"}

LEMMA ReturnOK ==
  ASSUME TypeInv, NEW w \in Runner \cup {"sweep"}, work[w] \in Work,
         NEW ok \in BOOLEAN, Return(w, ok)
  PROVE  CallOK
<1>1. work[w].file \in File
  BY DEF Work
<1>2. \E x \in {Resting, Dead} : work' = [work EXCEPT ![w] = x]
  BY DEF Return
<1>3. /\ work' \in [Runner \cup {"sweep"} -> Work \cup {Resting, Dead}]
      /\ \A v \in Runner \cup {"sweep"} : work'[v] \in Work => work'[v] = work[v]
  BY <1>2, StatesDiffer DEF TypeInv, BucketOK
<1>4. done' \subseteq File /\ result' \in {"none", "failed", "unverified", "verified"}
  BY <1>1 DEF Return, TypeInv, BucketOK, SessionOK
<1>5. pc' = pc \/ pc' = [pc EXCEPT !["poll"] = "idle"]
  BY DEF Return, Goto
<1> QED
  BY <1>3, <1>4, <1>5 DEF CallOK

LEMMA PutFailsOK ==
  ASSUME TypeInv, NEW w \in Runner \cup {"sweep"}, work[w] \in Work, PutFails(w)
  PROVE  CallOK
<1>1. CASE work[w].tries < Retries
  <2>1. [work[w] EXCEPT !.tries = @ + 1] \in Work
    BY <1>1, BoundsAssumption DEF Work
  <2>2. work' = [work EXCEPT ![w] = [work[w] EXCEPT !.tries = @ + 1]] /\ UNCHANGED <<pc, result, done>>
    BY <1>1 DEF PutFails
  <2>3. [work[w] EXCEPT !.tries = @ + 1].file = work[w].file
    BY DEF Work
  <2> QED
    BY <2>1, <2>2, <2>3 DEF CallOK, TypeInv, BucketOK, SessionOK
<1>2. CASE ~(work[w].tries < Retries)
  BY <1>2, ReturnOK DEF PutFails
<1> QED
  BY <1>1, <1>2

\* The part of the types such a step cannot disturb.
LEMMA CallKeepsTypes ==
  ASSUME TypeInv, CallOK, objects' \in [File -> 0..MaxSize], late' \subseteq File,
         UNCHANGED <<capture, session, live, asked, todo, left, walked, missing>>
  PROVE  TypeInv'
<1>1. CaptureOK' /\ SessionOK' /\ BucketOK'
  BY DEF TypeInv, CaptureOK, SessionOK, BucketOK, CallOK, capture, session
<1>2. LoopsOK'
  BY DEF TypeInv, LoopsOK, CallOK, Loop
<1>3. DiskOK'
  BY DEF TypeInv, DiskOK, CallOK, capture, OnDisk, Closed
<1> QED
  BY <1>1, <1>2, <1>3 DEF TypeInv

LEMMA CallIsBusy ==
  ASSUME TypeInv, NEW w \in Runner \cup {"sweep"}, HeadObject(w) \/ PutObject(w)
  PROVE  work[w] \in Work
<1>1. work[w].at = "head" \/ work[w].at = "put"
  BY DEF HeadObject, PutObject
<1>2. work[w] \in Work \cup {Resting, Dead}
  BY DEF TypeInv, BucketOK
<1> QED
  BY <1>1, <1>2 DEF Resting, Dead

LEMMA CallIsOK ==
  ASSUME TypeInv, NEW w \in Runner \cup {"sweep"}, HeadObject(w) \/ PutObject(w)
  PROVE  CallOK
<1>1. work[w] \in Work
  BY CallIsBusy
<1>2. CASE HeadObject(w)
  <2>1. CASE Return(w, TRUE)
    BY <1>1, <2>1, ReturnOK
  <2>2. CASE work' = [work EXCEPT ![w].at = "put"] /\ UNCHANGED <<pc, result, done>>
    <3>1. [work[w] EXCEPT !.at = "put"] \in Work /\ [work[w] EXCEPT !.at = "put"].file = work[w].file
      BY <1>1 DEF Work
    <3> QED
      BY <1>1, <2>2, <3>1 DEF CallOK, TypeInv, BucketOK, SessionOK
  <2> QED
    BY <1>2, <2>1, <2>2 DEF HeadObject
<1>3. CASE PutObject(w)
  BY <1>1, <1>3, ReturnOK, PutFailsOK DEF PutObject
<1> QED
  BY <1>2, <1>3

LEMMA CallTypes ==
  ASSUME TypeInv, NEW w \in Runner \cup {"sweep"}, HeadObject(w) \/ PutObject(w)
  PROVE  TypeInv'
<1> DEFINE f == work[w].file
<1>1. CASE HeadObject(w)
  BY <1>1, CallIsOK, CallKeepsTypes DEF HeadObject, TypeInv, BucketOK
<1>2. CASE PutObject(w)
  <2>1. f \in File /\ SizeOf(f) \in 1..MaxSize
    BY <1>2, CallIsBusy, SizesOK DEF Work, TypeInv, DiskOK
  <2>2. objects[f] \in 0..MaxSize /\ Landed(f) \subseteq 0..MaxSize
    BY <2>1, BoundsAssumption DEF Landed, TypeInv, BucketOK
  <2>3. PICK n \in Landed(f) \cup {objects[f], SizeOf(f)} :
          /\ objects' = [objects EXCEPT ![f] = n]
          /\ late' = late \cup {f} \/ late' = late
    BY <1>2 DEF PutObject
  <2>4. n \in 0..MaxSize
    BY <2>1, <2>2, <2>3
  <2>5. objects' \in [File -> 0..MaxSize] /\ late' \subseteq File
    BY <2>1, <2>3, <2>4 DEF TypeInv, BucketOK
  <2> QED
    BY <1>2, <2>5, CallIsOK, CallKeepsTypes DEF PutObject
<1> QED
  BY <1>1, <1>2

LEMMA BeginOK ==
  ASSUME TypeInv, NEW w \in Runner \cup {"sweep"}, NEW f \in OnDisk, NEW n \in 1..MaxSize,
         Begin(w, f, n)
  PROVE  /\ work' \in [Runner \cup {"sweep"} -> Work \cup {Resting, Dead}]
         /\ \A v \in Runner \cup {"sweep"} :
              work'[v] \in Work => work'[v].file = f \/ (work[v] \in Work /\ work'[v] = work[v])
<1>1. [at |-> "head", file |-> f, bytes |-> n, tries |-> 1] \in Work
  BY BoundsAssumption DEF Work, OnDisk
<1> QED
  BY <1>1 DEF Begin, TypeInv, BucketOK

LEMMA TypeInit == Init => TypeInv
<1> SUFFICES ASSUME Init PROVE TypeInv
  OBVIOUS
<1>1. CaptureOK /\ SessionOK
  <2>1. << >> \in Seq(1..MaxSize) /\ Len(<< >>) = 0
    BY EmptySeq
  <2>2. ASSUME NEW t \in Track PROVE Len(files[t]) <= MaxSegments
    <3>1. files[t] = << >>
      BY DEF Init
    <3>2. Len(files[t]) = 0
      BY <2>1, <3>1, Zenon
    <3> QED
      BY <3>2, BoundsAssumption
  <2>3. /\ files \in [Track -> Seq(1..MaxSize)]
        /\ manifest \in [Track -> Seq(1..MaxSize)]
    BY <2>1 DEF Init
  <2> QED
    BY <2>2, <2>3 DEF Init, CaptureOK, SessionOK
<1>2. LoopsOK
  BY DEF Init, LoopsOK, Loop
<1>3. BucketOK
  BY BoundsAssumption DEF Init, BucketOK
<1>4. DiskOK
  BY StatesDiffer DEF Init, DiskOK, Loop
<1> QED
  BY <1>1, <1>2, <1>3, <1>4 DEF TypeInv

\* A step that leaves files, bucket and calls alone keeps what is said of them.
Elsewhere == UNCHANGED <<files, todo, work, walked>> /\ ("upload" \in asked' => "upload" \in asked)

LEMMA ElsewhereOK ==
  ASSUME DiskOK, Elsewhere
  PROVE  DiskOK'
BY DEF DiskOK, Elsewhere, OnDisk, Closed

LEMMA TypeStep == TypeInv /\ [Next]_vars => TypeInv'
<1> SUFFICES ASSUME TypeInv, [Next]_vars PROVE TypeInv'
  OBVIOUS
<1> USE DEF TypeInv
<1>1. ASSUME NEW t \in Track, Write(t) PROVE TypeInv'
  <2>1. CaptureOK'
    BY <1>1, FilesGrow DEF Write, CaptureOK
  <2>2. \A f \in todo["tick"] : f \in File
    BY DEF LoopsOK, Loop
  <2>3. \A w \in Runner \cup {"sweep"} : work[w] \in Work => work[w].file \in File
    BY DEF Work
  <2>4. DiskOK'
    BY <1>1, <2>2, <2>3, FilesGrow DEF Write, DiskOK, OnDisk, agent, upload
  <2> QED
    BY <1>1, <2>1, <2>4 DEF Write, SessionOK, LoopsOK, BucketOK, session, agent, upload
<1>2. ASSUME NEW t \in Track, Exits(t) \/ Killed(t) PROVE TypeInv'
  <2>1. PICK how \in {"error", "zero", "interrupted", "killed"} : handleExit(t, how)
    BY <1>2 DEF Exits, Killed
  <2> QED
    BY <2>1, ElsewhereOK DEF handleExit, CaptureOK, SessionOK, LoopsOK, BucketOK, Elsewhere,
       session, agent, upload
<1>3. CASE start
  BY <1>3, ElsewhereOK DEF start, TakesUp, Spawned, CaptureOK, SessionOK, LoopsOK, BucketOK,
     Elsewhere, upload
<1>4. CASE stop
  BY <1>4, ElsewhereOK DEF stop, TakesUp, StopBegins, Goto, CaptureOK, SessionOK, LoopsOK,
     BucketOK, Elsewhere, Loop, session, upload
<1>5. CASE abort
  BY <1>5, ElsewhereOK DEF abort, TakesUp, StopBegins, Goto, CaptureOK, SessionOK, LoopsOK,
     BucketOK, Elsewhere, Loop, session, upload
<1>6. CASE Walk
  <2>1. walked' = [f \in OnDisk |-> SizeOf(f)] /\ UNCHANGED <<files, work>>
    BY <1>6 DEF Walk, capture
  <2>2. todo' = [todo EXCEPT !["poll"] = OnDisk]
    BY <1>6 DEF Walk
  <2>3. OnDisk' = OnDisk /\ DOMAIN walked' = OnDisk /\ OnDisk \subseteq File
    BY <2>1 DEF OnDisk
  <2>4. DiskOK'
    <3>1. \A f \in DOMAIN walked' : walked'[f] \in 1..MaxSize
      BY <2>1, SizesOK
    <3> QED
      BY <2>1, <2>2, <2>3, <3>1 DEF DiskOK, LoopsOK, Loop, Closed
  <2>5. LoopsOK'
    BY <1>6, <2>2, <2>3 DEF Walk, TakesUp, Goto, LoopsOK, Loop
  <2> QED
    BY <1>6, <2>4, <2>5 DEF Walk, TakesUp, CaptureOK, SessionOK, BucketOK, capture, session
<1>7. ASSUME NEW l \in Loop, StopStep(l) PROVE TypeInv'
  <2>1. CASE Escalate(l)
    BY <2>1, ElsewhereOK DEF Escalate, CaptureOK, SessionOK, LoopsOK, BucketOK, Elsewhere,
       session, agent, upload
  <2>2. CASE StopAllEnds(l)
    BY <2>2, ElsewhereOK DEF StopAllEnds, Goto, CaptureOK, SessionOK, LoopsOK, BucketOK,
       Elsewhere, Loop, capture, session, upload
  <2>3. CASE Collect(l)
    BY <2>3, ElsewhereOK DEF Collect, collectSegments, Goto, CaptureOK, SessionOK, LoopsOK,
       BucketOK, Elsewhere, Loop, capture, upload
  <2>4. CASE StopReturns(l)
    BY <2>4, ElsewhereOK DEF StopReturns, Goto, CaptureOK, SessionOK, LoopsOK, BucketOK,
       Elsewhere, Loop, capture, upload
  <2> QED
    BY <1>7, <2>1, <2>2, <2>3, <2>4 DEF StopStep
<1>8. ASSUME NEW w \in Runner \cup {"sweep"}, HeadObject(w) \/ PutObject(w) PROVE TypeInv'
  BY <1>8, CallTypes
<1>9. ASSUME NEW r \in Runner, Take(r) PROVE TypeInv'
  <2>1. PICK f \in todo["poll"] : /\ Begin(r, f, walked[f])
                                  /\ todo' = [todo EXCEPT !["poll"] = @ \ {f}]
    BY <1>9 DEF Take
  <2>2. f \in OnDisk /\ walked[f] \in 1..MaxSize
    BY <1>9, <2>1 DEF Take, DiskOK
  <2>3. /\ work' \in [Runner \cup {"sweep"} -> Work \cup {Resting, Dead}]
        /\ \A v \in Runner \cup {"sweep"} : work'[v] \in Work => work'[v].file \in OnDisk
    BY <2>1, <2>2, BeginOK DEF DiskOK
  <2>4. DiskOK'
    BY <1>9, <2>1, <2>3 DEF Take, DiskOK, LoopsOK, Loop, OnDisk, Closed, capture
  <2> QED
    BY <1>9, <2>1, <2>3, <2>4 DEF Take, CaptureOK, SessionOK, LoopsOK, BucketOK, Loop, capture,
       session
<1>10. CASE PoolEnds
  <2>1. todo' = [todo EXCEPT !["poll"] = DOMAIN walked] /\ DOMAIN walked \subseteq File
    BY <1>10 DEF PoolEnds, DiskOK, OnDisk
  <2>2. LoopsOK'
    BY <1>10, <2>1 DEF PoolEnds, Goto, LoopsOK, Loop
  <2>3. DiskOK'
    BY <1>10, <2>1 DEF PoolEnds, LoopsOK, Loop, DiskOK, OnDisk, Closed, capture, upload
  <2> QED
    BY <1>10, <2>2, <2>3 DEF PoolEnds, CaptureOK, SessionOK, BucketOK, capture, session, upload
<1>11. CASE VerifyOne
  <2>1. missing' \in BOOLEAN
    BY <1>11, ZenonT(20) DEF VerifyOne, SessionOK
  <2>2. \E f \in File : todo' = [todo EXCEPT !["poll"] = @ \ {f}]
    BY <1>11 DEF VerifyOne, LoopsOK, Loop
  <2> QED
    BY <1>11, <2>1, <2>2 DEF VerifyOne, CaptureOK, SessionOK, LoopsOK, BucketOK, DiskOK, Loop,
       OnDisk, Closed, capture, session
<1>12. CASE VerifyEnds
  BY <1>12, ElsewhereOK DEF VerifyEnds, Goto, CaptureOK, SessionOK, LoopsOK, BucketOK, Elsewhere,
     Loop, capture, session
<1>13. CASE PurgeList
  BY <1>13 DEF PurgeList, Goto, CaptureOK, SessionOK, LoopsOK, BucketOK, DiskOK, Loop, OnDisk,
     Closed, capture, session, upload
<1>14. CASE Remove
  <2>1. PICK f \in todo["poll"] : /\ objects' = [objects EXCEPT ![f] = 0]
                                  /\ todo' = [todo EXCEPT !["poll"] = @ \ {f}]
    BY <1>14 DEF Remove
  <2>2. 0 \in 0..MaxSize
    BY BoundsAssumption
  <2> QED
    BY <1>14, <2>1, <2>2 DEF Remove, CaptureOK, SessionOK, LoopsOK, BucketOK, DiskOK, Loop,
       OnDisk, Closed, capture, session, upload
<1>15. CASE PurgeEnds
  BY <1>15 DEF PurgeEnds, Goto, CaptureOK, SessionOK, LoopsOK, BucketOK, DiskOK, Loop, OnDisk,
     Closed, capture, session, upload
<1>16. CASE tickDiskFloor
  BY <1>16, ElsewhereOK DEF tickDiskFloor, StopBegins, Goto, CaptureOK, SessionOK, LoopsOK,
     BucketOK, Elsewhere, Loop, session, upload
<1>17. CASE sweep
  BY <1>17, ElsewhereOK DEF sweep, Goto, CaptureOK, SessionOK, LoopsOK, BucketOK, Elsewhere,
     Loop, capture, session, upload
<1>18. ASSUME NEW t \in Track, SweepList(t) PROVE TypeInv'
  <2>1. Len(files[t]) \in Nat /\ Len(files[t]) <= MaxSegments
    BY FilesAreSequences DEF CaptureOK
  <2>2. \A f \in closedSegments(t) : f \in File /\ Closed(f)
    BY <2>1, BoundsAssumption DEF closedSegments, File, Closed
  <2> QED
    BY <1>18, <2>2 DEF SweepList, CaptureOK, SessionOK, LoopsOK, BucketOK, DiskOK, Loop, OnDisk,
       Closed, capture, session, upload
<1>19. CASE SweepFile
  <2>1. PICK f \in todo["tick"] : /\ Begin("sweep", f, SizeOf(f))
                                  /\ todo' = [todo EXCEPT !["tick"] = @ \ {f}]
    BY <1>19 DEF SweepFile
  <2>2. f \in OnDisk /\ SizeOf(f) \in 1..MaxSize
    BY <2>1, ClosedOnDisk, SizesOK DEF DiskOK, LoopsOK, Loop
  <2>3. /\ work' \in [Runner \cup {"sweep"} -> Work \cup {Resting, Dead}]
        /\ \A v \in Runner \cup {"sweep"} : work'[v] \in Work => work'[v].file \in OnDisk
    BY <2>1, <2>2, BeginOK DEF DiskOK
  <2>4. DiskOK'
    BY <1>19, <2>1, <2>3 DEF SweepFile, DiskOK, LoopsOK, Loop, OnDisk, Closed, capture
  <2> QED
    BY <1>19, <2>1, <2>3, <2>4 DEF SweepFile, CaptureOK, SessionOK, LoopsOK, BucketOK, Loop,
       capture, session
<1>20. CASE SweepEnds
  BY <1>20, ElsewhereOK DEF SweepEnds, Goto, CaptureOK, SessionOK, LoopsOK, BucketOK, Elsewhere,
     Loop, capture, session, upload
<1>21. CASE UNCHANGED vars
  BY <1>21, ElsewhereOK DEF vars, capture, session, agent, upload, CaptureOK, SessionOK, LoopsOK,
     BucketOK, Elsewhere
<1> QED
  BY <1>1, <1>2, <1>3, <1>4, <1>5, <1>6, <1>7, <1>8, <1>9, <1>10, <1>11, <1>12, <1>13, <1>14,
     <1>15, <1>16, <1>17, <1>18, <1>19, <1>20, <1>21 DEF Next, UploadStep, PurgeStep, SweepStep

\* The state of captures, loops, calls and bucket keeps its types, whatever
\* fails: no size is read of a file that is not there.
THEOREM TypeCorrect == Spec => []TypeOK
<1>1. Spec => []TypeInv
  BY TypeInit, TypeStep, PTL DEF Spec
<1> QED
  BY <1>1, TypeInvTypes, PTL

-----------------------------------------------------------------------------
\* Stopping.  Once a loop is past its wait nothing runs any more, and nothing
\* is started again; so what a manifest lists does not change behind it.

StopInv ==
  /\ isRunning => held
  /\ held => "start" \in asked
  /\ \A l \in Loop : pc[l] \in {"wait", "collect", "post"} => "start" \in asked
  /\ \A l \in Loop : pc[l] \in {"collect", "post"} => ~isRunning
  /\ listed => "start" \in asked /\ ~isRunning /\ manifest = files
  /\ "stop" \in asked /\ pc["poll"] # "wait" => ~isRunning

\* The upload is the last command of a session, and the runners are its own.
PoolInv ==
  /\ "upload" \in asked => pc["poll"] \in {"idle", "pool", "verify"}
  /\ pc["poll"] \in {"pool", "verify"} => "upload" \in asked
  /\ \A r \in Runner : work[r] \in Work => "upload" \in asked
  /\ pc["poll"] = "verify" => \A r \in Runner : work[r] = Resting

\* The sweep's file is closed when it is listed, and so it stays.
BackupInv ==
  /\ work["sweep"] \in Work => Closed(work["sweep"].file)
  /\ "upload" \notin asked => \A f \in File : objects[f] # 0 => Closed(f)

\* After a stop the walk's sizes are final.  What the readback is through with
\* it has missed, or it is whole, or the sweep has put it since.
VerifyInv ==
  /\ {"stop", "upload"} \subseteq asked => walked = [f \in OnDisk |-> SizeOf(f)]
  /\ pc["poll"] = "verify" =>
       \A f \in DOMAIN walked \ todo["poll"] :
         missing \/ objects[f] = walked[f] \/ f \in late

\* A step that stops nothing: no child, no segment, no manifest, no command.
Aside == /\ UNCHANGED <<child, files, held, asked, manifest, listed>>
         /\ \E l \in Loop, at \in {"idle", "sweep", "pool", "verify", "purge", "purging"} :
              /\ pc' = pc \/ pc' = [pc EXCEPT ![l] = at]
              /\ pc' # pc => pc[l] # "wait"

LEMMA StopAside ==
  ASSUME TypeInv, StopInv, Aside
  PROVE  StopInv'
<1>1. PICK l \in Loop, at \in {"idle", "sweep", "pool", "verify", "purge", "purging"} :
        /\ pc' = pc \/ pc' = [pc EXCEPT ![l] = at]
        /\ pc' # pc => pc[l] # "wait"
  BY DEF Aside
<1>2. \A m \in Loop : pc'[m] = pc[m] \/ (pc'[m] = at /\ pc[m] # "wait")
  BY <1>1 DEF TypeInv, LoopsOK
<1>3. "poll" \in Loop
  BY DEF Loop
<1> QED
  BY <1>2, <1>3 DEF Aside, StopInv, isRunning

LEMMA CallAside ==
  ASSUME TypeInv, PoolInv, NEW w \in Runner \cup {"sweep"}, HeadObject(w) \/ PutObject(w)
  PROVE  /\ Aside
         /\ pc["poll"] = "verify" => w = "sweep" /\ pc' = pc
         /\ "upload" \notin asked => w = "sweep"
<1>1. work[w] \in Work
  BY CallIsBusy
<1>2. w \in Runner => "upload" \in asked /\ pc["poll"] \in {"idle", "pool"}
  BY <1>1, StatesDiffer DEF PoolInv
<1>3. pc' = pc \/ (w \in Runner /\ pc' = [pc EXCEPT !["poll"] = "idle"])
  BY RunnerAssumption DEF HeadObject, PutObject, PutFails, Return, Goto
<1>4. UNCHANGED <<child, files, held, asked, manifest, listed>>
  BY DEF HeadObject, PutObject, capture, session
<1>5. Aside
  BY <1>2, <1>3, <1>4 DEF Aside, Loop
<1> QED
  BY <1>2, <1>3, <1>5, RunnerAssumption

LEMMA StopStepKeeps == TypeInv /\ StopInv /\ PoolInv /\ [Next]_vars => StopInv'
<1> SUFFICES ASSUME TypeInv, StopInv, PoolInv, [Next]_vars PROVE StopInv'
  OBVIOUS
<1> USE DEF Loop
<1>1. ASSUME NEW t \in Track, Write(t) PROVE StopInv'
  BY <1>1 DEF Write, StopInv, isRunning, session, agent
<1>2. ASSUME NEW t \in Track, Exits(t) \/ Killed(t) PROVE StopInv'
  <2>1. PICK how \in {"error", "zero", "interrupted", "killed"} : handleExit(t, how)
    BY <1>2 DEF Exits, Killed
  <2>2. isRunning' => isRunning
    BY <2>1 DEF handleExit, isRunning, TypeInv, CaptureOK
  <2> QED
    BY <2>1, <2>2 DEF handleExit, StopInv, session, agent
<1>3. CASE start
  BY <1>3 DEF start, TakesUp, StopInv, isRunning
<1>4. CASE stop
  BY <1>4 DEF stop, TakesUp, StopBegins, Goto, StopInv, isRunning, session, TypeInv, LoopsOK
<1>5. CASE abort
  BY <1>5 DEF abort, TakesUp, StopBegins, Goto, StopInv, isRunning, session, TypeInv, LoopsOK
<1>6. CASE Walk
  BY <1>6 DEF Walk, TakesUp, Goto, StopInv, isRunning, capture, session, TypeInv, LoopsOK
<1>7. ASSUME NEW l \in Loop, StopStep(l) PROVE StopInv'
  <2>1. CASE Escalate(l)
    BY <2>1 DEF Escalate, StopInv, isRunning, session, agent
  <2>2. CASE StopAllEnds(l)
    BY <2>2 DEF StopAllEnds, Goto, StopInv, isRunning, capture, session, TypeInv, LoopsOK
  <2>3. CASE Collect(l)
    <3>1. manifest' = files
      BY <2>3 DEF Collect, collectSegments, TypeInv, CaptureOK
    <3> QED
      BY <2>3, <3>1 DEF Collect, Goto, StopInv, isRunning, capture, TypeInv, LoopsOK
  <2>4. CASE StopReturns(l)
    BY <2>4 DEF StopReturns, Goto, StopInv, isRunning, capture, TypeInv, LoopsOK
  <2> QED
    BY <1>7, <2>1, <2>2, <2>3, <2>4 DEF StopStep
<1>8. ASSUME NEW w \in Runner \cup {"sweep"}, HeadObject(w) \/ PutObject(w) PROVE StopInv'
  BY <1>8, CallAside, StopAside
<1>9. ASSUME NEW r \in Runner, Take(r) PROVE StopInv'
  BY <1>9, StopAside DEF Take, Aside, capture, session
<1>10. CASE UploadStep
  <2>1. Aside
    BY <1>10 DEF UploadStep, PoolEnds, VerifyOne, VerifyEnds, Goto, Aside, capture, session
  <2> QED
    BY <2>1, StopAside
<1>11. CASE PurgeStep
  <2>1. Aside
    BY <1>11 DEF PurgeStep, PurgeList, Remove, PurgeEnds, Goto, Aside, capture, session
  <2> QED
    BY <2>1, StopAside
<1>12. CASE tickDiskFloor
  BY <1>12 DEF tickDiskFloor, StopBegins, Goto, StopInv, isRunning, session, TypeInv, LoopsOK
<1>13. CASE sweep \/ SweepStep
  <2>1. Aside
    BY <1>13 DEF sweep, SweepStep, SweepList, SweepFile, SweepEnds, Goto, Aside, capture, session
  <2> QED
    BY <2>1, StopAside
<1>14. CASE UNCHANGED vars
  BY <1>14 DEF vars, capture, session, agent, StopInv, isRunning
<1> QED
  BY <1>1, <1>2, <1>3, <1>4, <1>5, <1>6, <1>7, <1>8, <1>9, <1>10, <1>11, <1>12, <1>13, <1>14
     DEF Next

LEMMA PoolStepKeeps == TypeInv /\ StopInv /\ PoolInv /\ [Next]_vars => PoolInv'
<1> SUFFICES ASSUME TypeInv, StopInv, PoolInv, [Next]_vars PROVE PoolInv'
  OBVIOUS
<1> USE DEF Loop
<1>1. ASSUME NEW t \in Track, Write(t) \/ Exits(t) \/ Killed(t) PROVE PoolInv'
  BY <1>1 DEF Write, Exits, Killed, handleExit, PoolInv, agent, upload
<1>2. CASE start \/ stop \/ abort
  BY <1>2 DEF start, stop, abort, TakesUp, StopBegins, Goto, PoolInv, upload, TypeInv, LoopsOK
<1>3. CASE Walk
  BY <1>3 DEF Walk, TakesUp, Goto, PoolInv, TypeInv, LoopsOK
<1>4. ASSUME NEW l \in Loop, StopStep(l) PROVE PoolInv'
  BY <1>4 DEF StopStep, Escalate, StopAllEnds, Collect, StopReturns, Goto, PoolInv, agent, upload,
     TypeInv, LoopsOK
<1>5. ASSUME NEW w \in Runner \cup {"sweep"}, HeadObject(w) \/ PutObject(w) PROVE PoolInv'
  <2>1. CallOK
    BY <1>5, CallIsOK
  <2>2. asked' = asked /\ (pc["poll"] = "verify" => w = "sweep" /\ pc' = pc)
    BY <1>5, CallAside DEF HeadObject, PutObject
  <2>3. w = "sweep" => \A r \in Runner : work'[r] = work[r]
    BY <1>5, RunnerAssumption DEF HeadObject, PutObject, PutFails, Return, TypeInv, BucketOK
  <2>4. pc'["poll"] = pc["poll"] \/ (pc'["poll"] = "idle" /\ pc["poll"] # "verify")
    BY <2>1, <2>2 DEF CallOK, TypeInv, LoopsOK
  <2> QED
    BY <2>1, <2>2, <2>3, <2>4 DEF CallOK, PoolInv
<1>6. ASSUME NEW r \in Runner, Take(r) PROVE PoolInv'
  BY <1>6 DEF Take, Begin, PoolInv, capture, session, TypeInv, BucketOK
<1>7. CASE UploadStep
  BY <1>7 DEF UploadStep, PoolEnds, VerifyOne, VerifyEnds, Goto, PoolInv, upload, TypeInv, LoopsOK
<1>8. CASE PurgeStep
  BY <1>8 DEF PurgeStep, PurgeList, Remove, PurgeEnds, Goto, PoolInv, upload, TypeInv, LoopsOK
<1>9. CASE tickDiskFloor \/ sweep
  BY <1>9 DEF tickDiskFloor, sweep, StopBegins, Goto, PoolInv, upload, TypeInv, LoopsOK
<1>10. CASE SweepStep
  BY <1>10, RunnerAssumption DEF SweepStep, SweepList, SweepFile, SweepEnds, Begin, Goto, PoolInv,
     upload, TypeInv, LoopsOK, BucketOK
<1>11. CASE UNCHANGED vars
  BY <1>11 DEF vars, agent, upload, PoolInv
<1> QED
  BY <1>1, <1>2, <1>3, <1>4, <1>5, <1>6, <1>7, <1>8, <1>9, <1>10, <1>11 DEF Next

LEMMA BackupStepKeeps ==
  TypeInv /\ PoolInv /\ BackupInv /\ [Next]_vars => BackupInv'
<1> SUFFICES ASSUME TypeInv, PoolInv, BackupInv, [Next]_vars PROVE BackupInv'
  OBVIOUS
<1>1. ASSUME NEW t \in Track, Write(t) PROVE BackupInv'
  <2>1. \A f \in File : Closed(f) => Closed(f)'
    BY <1>1, FilesGrow DEF TypeInv
  <2>2. work["sweep"] \in Work => work["sweep"].file \in File
    BY DEF Work
  <2> QED
    BY <1>1, <2>1, <2>2 DEF Write, BackupInv, agent, upload
<1>2. ASSUME NEW t \in Track, Exits(t) \/ Killed(t) PROVE BackupInv'
  BY <1>2 DEF Exits, Killed, handleExit, BackupInv, Closed, agent, upload
<1>3. CASE start \/ stop \/ abort
  BY <1>3 DEF start, stop, abort, TakesUp, BackupInv, Closed, upload
<1>4. CASE Walk
  BY <1>4 DEF Walk, TakesUp, BackupInv, Closed, capture
<1>5. ASSUME NEW l \in Loop, StopStep(l) PROVE BackupInv'
  BY <1>5 DEF StopStep, Escalate, StopAllEnds, Collect, StopReturns, BackupInv, Closed, capture,
     agent, upload
<1>6. ASSUME NEW w \in Runner \cup {"sweep"}, HeadObject(w) \/ PutObject(w) PROVE BackupInv'
  <2>1. CallOK /\ files' = files /\ asked' = asked
    BY <1>6, CallIsOK DEF HeadObject, PutObject, capture
  <2>2. work'["sweep"] \in Work => Closed(work["sweep"].file) /\ work'["sweep"].file = work["sweep"].file
    BY <2>1 DEF CallOK, BackupInv
  <2>3. ASSUME "upload" \notin asked, NEW f \in File, objects'[f] # 0 PROVE Closed(f)
    <3>1. w = "sweep" /\ work[w] \in Work
      BY <1>6, <2>3, CallAside, CallIsBusy
    <3>2. objects'[f] = objects[f] \/ f = work[w].file
      BY <1>6 DEF HeadObject, PutObject, TypeInv, BucketOK
    <3> QED
      BY <2>3, <3>1, <3>2 DEF BackupInv
  <2> QED
    BY <2>1, <2>2, <2>3 DEF BackupInv, Closed
<1>7. ASSUME NEW r \in Runner, Take(r) PROVE BackupInv'
  BY <1>7, RunnerAssumption DEF Take, Begin, BackupInv, Closed, capture, TypeInv, BucketOK
<1>8. CASE UploadStep
  BY <1>8 DEF UploadStep, PoolEnds, VerifyOne, VerifyEnds, BackupInv, Closed, capture, upload
<1>9. CASE PurgeStep
  <2>1. \A f \in File : objects'[f] # 0 => objects[f] # 0
    BY <1>9 DEF PurgeStep, PurgeList, Remove, PurgeEnds, TypeInv, BucketOK
  <2> QED
    BY <1>9, <2>1 DEF PurgeStep, PurgeList, Remove, PurgeEnds, BackupInv, Closed, capture, upload
<1>10. CASE tickDiskFloor \/ sweep
  BY <1>10 DEF tickDiskFloor, sweep, BackupInv, Closed, capture, upload
<1>11. CASE SweepStep
  <2>1. CASE SweepFile
    BY <2>1 DEF SweepFile, Begin, BackupInv, Closed, capture, TypeInv, BucketOK, DiskOK
  <2>2. CASE (\E t \in Track : SweepList(t)) \/ SweepEnds
    BY <2>2 DEF SweepList, SweepEnds, BackupInv, Closed, capture, upload
  <2> QED
    BY <1>11, <2>1, <2>2 DEF SweepStep
<1>12. CASE UNCHANGED vars
  BY <1>12 DEF vars, capture, agent, upload, BackupInv, Closed
<1> QED
  BY <1>1, <1>2, <1>3, <1>4, <1>5, <1>6, <1>7, <1>8, <1>9, <1>10, <1>11, <1>12 DEF Next

\* A step of a loop that leaves the files, the walk and its readback alone.
Unread == /\ UNCHANGED <<files, asked, walked, missing, objects, late>>
          /\ pc'["poll"] = "verify" => pc["poll"] = "verify" /\ todo'["poll"] = todo["poll"]

LEMMA VerifyUnread ==
  ASSUME VerifyInv, Unread
  PROVE  VerifyInv'
BY DEF VerifyInv, Unread, OnDisk, SizeOf

LEMMA VerifyStepKeeps == TypeInv /\ StopInv /\ PoolInv /\ VerifyInv /\ [Next]_vars => VerifyInv'
<1> SUFFICES ASSUME TypeInv, StopInv, PoolInv, VerifyInv, [Next]_vars PROVE VerifyInv'
  OBVIOUS
<1> USE DEF Loop
<1>1. ASSUME NEW t \in Track, Write(t) PROVE VerifyInv'
  <2>1. ~({"stop", "upload"} \subseteq asked)
    BY <1>1 DEF Write, isRunning, StopInv, PoolInv
  <2> QED
    BY <1>1, <2>1 DEF Write, VerifyInv, agent, upload
<1>2. ASSUME NEW t \in Track, Exits(t) \/ Killed(t) PROVE VerifyInv'
  BY <1>2, VerifyUnread DEF Exits, Killed, handleExit, Unread, agent, upload
<1>3. CASE start \/ stop \/ abort
  <2>1. "upload" \notin asked' /\ pc'["poll"] # "verify"
    BY <1>3 DEF start, stop, abort, TakesUp, StopBegins, Goto, TypeInv, LoopsOK
  <2> QED
    BY <2>1 DEF VerifyInv
<1>4. CASE Walk
  <2>1. walked' = [f \in OnDisk |-> SizeOf(f)] /\ files' = files /\ pc'["poll"] = "pool"
    BY <1>4 DEF Walk, Goto, capture, TypeInv, LoopsOK
  <2> QED
    BY <2>1 DEF VerifyInv, OnDisk, SizeOf
<1>5. ASSUME NEW l \in Loop, StopStep(l) PROVE VerifyInv'
  <2>1. Unread
    BY <1>5 DEF StopStep, Escalate, StopAllEnds, Collect, StopReturns, Goto, Unread, capture,
       agent, upload, TypeInv, LoopsOK
  <2> QED
    BY <2>1, VerifyUnread
<1>6. ASSUME NEW w \in Runner \cup {"sweep"}, HeadObject(w) \/ PutObject(w) PROVE VerifyInv'
  <2>1. UNCHANGED <<files, asked, todo, walked, missing>>
    BY <1>6 DEF HeadObject, PutObject, capture
  <2>2. pc'["poll"] = "verify" => w = "sweep" /\ pc["poll"] = "verify" /\ "upload" \in asked
    BY <1>6, CallAside, CallIsOK DEF CallOK, PoolInv, TypeInv, LoopsOK
  <2>3. ASSUME w = "sweep", "upload" \in asked, NEW f \in File
        PROVE  (f \in late => f \in late') /\ (objects'[f] # objects[f] => f \in late')
    <3>1. CASE HeadObject(w)
      BY <3>1 DEF HeadObject
    <3>2. CASE PutObject(w)
      <4>1. PICK n \in Landed(work[w].file) \cup {objects[work[w].file], SizeOf(work[w].file)} :
              /\ objects' = [objects EXCEPT ![work[w].file] = n]
              /\ late' = IF w = "sweep" /\ "upload" \in asked /\ n # objects[work[w].file]
                         THEN late \cup {work[w].file} ELSE late
        BY <3>2 DEF PutObject
      <4> QED
        BY <2>3, <4>1 DEF TypeInv, BucketOK
    <3> QED
      BY <1>6, <3>1, <3>2
  <2>4. DOMAIN walked \subseteq File
    BY DEF TypeInv, DiskOK, OnDisk
  <2> QED
    BY <2>1, <2>2, <2>3, <2>4 DEF VerifyInv, OnDisk, SizeOf
<1>7. ASSUME NEW r \in Runner, Take(r) PROVE VerifyInv'
  BY <1>7, VerifyUnread DEF Take, Unread, capture, session
<1>8. CASE PoolEnds
  BY <1>8 DEF PoolEnds, VerifyInv, OnDisk, SizeOf, capture, upload, TypeInv, LoopsOK
<1>9. CASE VerifyOne
  <2>1. PICK f \in todo["poll"] :
          /\ todo' = [todo EXCEPT !["poll"] = @ \ {f}]
          /\ missing' = (missing \/ ~ReadBack(f)) \/ missing' = TRUE
    BY <1>9 DEF VerifyOne
  <2>2. UNCHANGED <<files, asked, pc, walked, objects, late>>
    BY <1>9 DEF VerifyOne, capture
  <2>3. missing => missing'
    BY <2>1
  <2>4. missing' \/ objects[f] = walked[f]
    BY <2>1 DEF ReadBack
  <2>5. todo'["poll"] = todo["poll"] \ {f}
    BY <2>1 DEF TypeInv, LoopsOK
  <2> QED
    BY <2>2, <2>3, <2>4, <2>5 DEF VerifyInv, OnDisk, SizeOf
<1>10. CASE VerifyEnds
  BY <1>10 DEF VerifyEnds, Goto, VerifyInv, OnDisk, SizeOf, capture, TypeInv, LoopsOK
<1>11. CASE PurgeStep
  <2>1. "upload" \notin asked /\ asked' = asked /\ pc'["poll"] # "verify"
    BY <1>11 DEF PurgeStep, PurgeList, Remove, PurgeEnds, Goto, PoolInv, TypeInv, LoopsOK
  <2> QED
    BY <2>1 DEF VerifyInv
<1>12. CASE tickDiskFloor \/ sweep
  <2>1. Unread
    BY <1>12 DEF tickDiskFloor, sweep, StopBegins, Goto, Unread, capture, upload, TypeInv, LoopsOK
  <2> QED
    BY <2>1, VerifyUnread
<1>13. CASE SweepStep
  <2>1. Unread
    BY <1>13 DEF SweepStep, SweepList, SweepFile, SweepEnds, Goto, Unread, capture, upload,
       TypeInv, LoopsOK
  <2> QED
    BY <2>1, VerifyUnread
<1>14. CASE UNCHANGED vars
  BY <1>14, VerifyUnread DEF vars, capture, agent, upload, Unread
<1> QED
  BY <1>1, <1>2, <1>3, <1>4, <1>5, <1>6, <1>7, <1>8, <1>9, <1>10, <1>11, <1>12, <1>13, <1>14
     DEF Next, UploadStep

-----------------------------------------------------------------------------
\* What follows for every behaviour

HostInv == TypeInv /\ StopInv /\ PoolInv /\ BackupInv /\ VerifyInv

LEMMA HostInit == Init => HostInv
<1> SUFFICES ASSUME Init PROVE HostInv
  OBVIOUS
<1>1. TypeInv
  BY TypeInit
<1>2. StopInv
  BY DEF Init, StopInv, isRunning, Loop
<1>3. PoolInv /\ BackupInv /\ VerifyInv
  BY StatesDiffer DEF Init, PoolInv, BackupInv, VerifyInv, Loop
<1> QED
  BY <1>1, <1>2, <1>3 DEF HostInv

LEMMA HostStep == HostInv /\ [Next]_vars => HostInv'
BY TypeStep, StopStepKeeps, PoolStepKeeps, BackupStepKeeps, VerifyStepKeeps DEF HostInv

LEMMA HostHolds == Spec => []HostInv
BY HostInit, HostStep, PTL DEF Spec

\* Whichever loop stopped the capture, and whatever was killed for it, the
\* manifest lists every segment at the size it will keep.
THEOREM ManifestListsFinalSizes == Spec => []ManifestIsFinal
<1>1. HostInv => ManifestIsFinal
  BY DEF HostInv, StopInv, ManifestIsFinal
<1> QED
  BY <1>1, HostHolds, PTL

\* Before an upload, nothing in the bucket is a segment ffmpeg still writes to.
THEOREM NothingOpenIsBackedUp == Spec => []BackupIsClosed
<1>1. HostInv => BackupIsClosed
  <2> SUFFICES ASSUME HostInv, "upload" \notin asked, NEW f \in File, objects[f] # 0
               PROVE  ~Open(f)
    BY DEF BackupIsClosed
  <2>1. f[1] \in Track /\ f[2] \in Nat
    BY BoundsAssumption DEF File
  <2>2. Closed(f) /\ Len(files[f[1]]) \in Nat
    BY <2>1, FilesAreSequences DEF HostInv, BackupInv, TypeInv
  <2> QED
    BY <2>1, <2>2 DEF Closed, Open
<1> QED
  BY <1>1, HostHolds, PTL

\* An upload of a stopped capture that is reported verified is whole: whatever
\* failed or landed short on the way was put right or is reported missing.
THEOREM VerifiedUploadsAreWhole == Spec => VerifiedIsWhole
<1>1. HostInv /\ [Next]_vars =>
        [result # "verified" /\ result' = "verified" /\ "stop" \in asked
         => \A f \in OnDisk : objects[f] = SizeOf(f) \/ f \in late]_vars
  <2> SUFFICES ASSUME HostInv, [Next]_vars, result # "verified", result' = "verified",
                      "stop" \in asked, NEW f \in OnDisk
               PROVE  objects[f] = SizeOf(f) \/ f \in late
    OBVIOUS
  <2>1. VerifyEnds
    BY DEF Next, Write, Exits, Killed, handleExit, start, stop, abort, Walk, StopStep, Escalate,
       StopAllEnds, Collect, StopReturns, HeadObject, PutObject, PutFails, Return, Take,
       UploadStep, PoolEnds, VerifyOne, PurgeStep, PurgeList, Remove, PurgeEnds, tickDiskFloor,
       sweep, SweepStep, SweepList, SweepFile, SweepEnds, vars, upload
  <2>2. todo["poll"] = {} /\ ~missing /\ pc["poll"] = "verify"
    BY <2>1 DEF VerifyEnds
  <2>3. walked = [g \in OnDisk |-> SizeOf(g)]
    BY <2>2 DEF HostInv, PoolInv, VerifyInv
  <2> QED
    BY <2>2, <2>3 DEF HostInv, VerifyInv
<1> QED
  BY <1>1, HostHolds, PTL DEF Spec, VerifiedIsWhole


-----------------------------------------------------------------------------
\* Marks.  Only the supervisor tears a track or marks one, in one step: what
\* can go wrong is an exit it takes for clean, during a stop or after a kill.

LEMMA ExitIsMarked ==
  ASSUME HealthyIsPlayable, NEW t \in Track, NEW how \in {"error", "zero", "interrupted", "killed"},
         handleExit(t, how)
  PROVE  HealthyIsPlayable'
<1>1. how \in {"error", "killed"} => ~cleanExit(how)
  BY DEF cleanExit
<1> QED
  BY <1>1 DEF handleExit, HealthyIsPlayable

\* A track that is not marked degraded can be played to its end, whichever
\* loop stopped the capture and however its ffmpeg went.
THEOREM HealthyTracksPlay == Spec => []HealthyIsPlayable
<1>1. Init => HealthyIsPlayable
  BY DEF Init, HealthyIsPlayable
<1>2. HealthyIsPlayable /\ [Next]_vars => HealthyIsPlayable'
  <2> SUFFICES ASSUME HealthyIsPlayable, [Next]_vars
               PROVE  HealthyIsPlayable'
    OBVIOUS
  <2>1. ASSUME NEW t \in Track, Exits(t) \/ Killed(t)
        PROVE  HealthyIsPlayable'
    BY <2>1, ExitIsMarked DEF Exits, Killed
  <2>2. CASE UNCHANGED <<degraded, torn>>
    BY <2>2 DEF HealthyIsPlayable
  <2>3. ASSUME NEW t \in Track, Write(t)
        PROVE  UNCHANGED <<degraded, torn>>
    BY <2>3 DEF Write
  <2>4. ASSUME NEW l \in Loop, StopStep(l)
        PROVE  UNCHANGED <<degraded, torn>>
    BY <2>4 DEF StopStep, Escalate, StopAllEnds, Collect, StopReturns, capture
  <2>5. ASSUME start \/ stop \/ abort \/ Walk \/ tickDiskFloor \/ sweep
        PROVE  UNCHANGED <<degraded, torn>>
    BY <2>5 DEF start, stop, abort, Walk, tickDiskFloor, sweep, capture
  <2>6. ASSUME NEW w \in Runner \cup {"sweep"}, HeadObject(w) \/ PutObject(w)
        PROVE  UNCHANGED <<degraded, torn>>
    BY <2>6 DEF HeadObject, PutObject, capture
  <2>7. ASSUME NEW r \in Runner, Take(r)
        PROVE  UNCHANGED <<degraded, torn>>
    BY <2>7 DEF Take, capture
  <2>8. ASSUME UploadStep \/ PurgeStep \/ SweepStep
        PROVE  UNCHANGED <<degraded, torn>>
    BY <2>8 DEF UploadStep, PoolEnds, VerifyOne, VerifyEnds, PurgeStep, PurgeList, Remove,
                PurgeEnds, SweepStep, SweepList, SweepFile, SweepEnds, capture
  <2>9. CASE UNCHANGED vars
    BY <2>2, <2>9 DEF vars, capture
  <2> QED
    BY <2>1, <2>2, <2>3, <2>4, <2>5, <2>6, <2>7, <2>8, <2>9 DEF Next
<1> QED
  BY <1>1, <1>2, PTL DEF Spec
=============================================================================
