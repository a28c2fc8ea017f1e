------------------------------ MODULE Console ------------------------------
(***************************************************************************)
(* The operator's console, public/app.js: one page over the session API.   *)
(*                                                                         *)
(* Every function of the page that awaits a request is cut there: the      *)
(* request is a member of `calls', the API serves it or an outage eats it  *)
(* or its answer, and the rest of the function runs when the answer comes, *)
(* whatever has happened to the page in between.  Timers are the page's    *)
(* intervals, including those whose handle it has lost.  Other pages and   *)
(* the agents move sessions too.                                           *)
(***************************************************************************)
EXTENDS SessionStates, Naturals, FiniteSets

CONSTANTS Session, None,
          Outages,   \* whether requests and answers may be lost
          MaxCalls,  \* bound: requests in flight when the operator acts
          MaxEach,   \* bound: requests in flight of one interval
          MaxPolls   \* bound: polls of a session the operator can start at once

ASSUME BoundsAssumption == MaxCalls \in Nat /\ MaxEach \in Nat /\ MaxPolls \in Nat
ASSUME NoneAssumption == None \notin Session

VARIABLES
  server,        \* server[s]: the state of the session's row
  \* the fields of `state' and what the page shows
  sessionId,     \* the session the page works on
  screen,        \* the screen that is not hidden
  tabs,          \* navigation buttons that appear only when they are needed
  stuck,         \* whether Abandon stands where Stop does otherwise
  shown,         \* the session the review screen describes
  saveOff,       \* whether the Save button is disabled
  discardOff,    \* whether the Discard button is
  polls,         \* intervals of pollSession, and pollTimer
  follows,       \* intervals of followUpload, and uploadTimer
  stalled,       \* whether the followed upload stood still for stallMs
  calls          \* requests in flight, and answers not yet seen

buttons == <<saveOff, discardOff>>
timers == <<polls, follows, stalled>>
screens == <<screen, tabs, stuck, shown>>
vars == <<server, sessionId, screens, buttons, timers, calls>>

\* Intervals of one kind: how many run, and whether the handle is one of them.
Timer == [live : Nat, tracked : BOOLEAN]
NoTimer == [live |-> 0, tracked |-> FALSE]
clearInterval(t) == [live |-> IF t.tracked THEN t.live - 1 ELSE t.live, tracked |-> FALSE]
setInterval(t) == [live |-> t.live + 1, tracked |-> TRUE]

State == SessionState \cup {Absent}
Over == {"review", "uploading"} \cup Terminal  \* nothing is captured any more
NoRows == [s \in Session |-> Absent]

\* The requests that change a session, and the state each asks for.
Changes == {"startSession", "abandonSession", "stopSession", "saveSession", "discardSession"}
Asked == [fn \in Changes |->
            CASE fn = "startSession" -> "preparing"
              [] fn = "stopSession" -> "stopping"
              [] fn = "saveSession" -> "uploading"
              [] OTHER -> "discarded"]

\* loadThenShow is loadSessions awaited by a function that then shows its
\* table; resumeReview and resumeUpload are the second half of a resume.
Reads == {"pollSession", "followUpload", "resumeReview", "resumeUpload"}
Lists == {"loadThenShow", "resumeActiveSession"}
Function == Changes \cup Reads \cup Lists

\* The states a function tells apart in its answer; any other is as good as Absent.
Sees == [fn \in Reads \cup Lists |->
           CASE fn = "pollSession" -> {"preparing", "stopping", "review"}
             [] fn = "followUpload" -> {"uploading", "stored", "failed"}
             [] fn = "resumeActiveSession" -> {"recording", "stopping", "review", "uploading"}
             [] OTHER -> {}]

\* late: the interval that made the request has been replaced since.
Call == [fn : Function, s : Session \cup {None}, pc : {"sent", "answered", "failed"},
         rows : [Session -> State], late : BOOLEAN]
Request(fn, s) == [fn |-> fn, s |-> s, pc |-> "sent", rows |-> NoRows, late |-> FALSE]

Screen == {"new", "recording", "review", "sessions"}

TypeOK == /\ server \in [Session -> State]
          /\ sessionId \in Session \cup {None}
          /\ screen \in Screen
          /\ tabs \subseteq {"recording", "review"}
          /\ stuck \in BOOLEAN
          /\ shown \in Session \cup {None}
          /\ saveOff \in BOOLEAN
          /\ discardOff \in BOOLEAN
          /\ polls \in Timer
          /\ follows \in Timer
          /\ stalled \in BOOLEAN
          /\ calls \subseteq Call

\* The markup, and boot: the page looks for a session to reattach to.
Init == /\ server = NoRows
        /\ sessionId = None
        /\ screen = "new"
        /\ tabs = {}
        /\ stuck = FALSE
        /\ shown = None
        /\ saveOff = FALSE
        /\ discardOff = FALSE
        /\ polls = NoTimer
        /\ follows = NoTimer
        /\ stalled = FALSE
        /\ calls = {Request("resumeActiveSession", None)}

Room == Cardinality({c \in calls : c.fn \notin {"pollSession", "followUpload"}}) < MaxCalls
RoomFor(fn) == Cardinality({c \in calls : c.fn = fn}) < MaxEach
Pending(fn) == \E c \in calls : c.fn = fn

\* An answered or failed call of fn is taken up.
Back(c, fn, pc) == c \in calls /\ c.fn = fn /\ c.pc = pc
Rest(c) == calls \ {c}

-----------------------------------------------------------------------------
\* The API, seen from the page, and everybody else who uses it

\* The transition table decides on a change; a session is read if it exists.
Accepts(c) ==
  \/ c.fn \in Lists
  \/ c.fn = "startSession"
  \/ c.fn \in Reads /\ c.s # None
  \/ c.fn \in Changes /\ c.s # None /\ isLegalTransition(server[c.s], Asked[c.fn])

Carry(c) ==
  server' = IF c.fn \in Changes THEN [server EXCEPT ![c.s] = Asked[c.fn]] ELSE server

Seen(c) == [s \in Session |->
              IF (c.fn \in Lists \/ c.s = s) /\ server[s] \in Sees[c.fn] THEN server[s] ELSE Absent]

Answer(c) ==
  \/ /\ c.fn \in Reads \cup Lists
     /\ calls' = Rest(c) \cup {[c EXCEPT !.pc = "answered", !.rows = Seen(c)]}
  \/ /\ c.fn \in Changes \ {"stopSession"}
     /\ calls' = Rest(c) \cup {[c EXCEPT !.pc = "answered"]}
  \/ c.fn = "stopSession" /\ calls' = Rest(c)

\* Only saveSession does something about a failure, beyond saying so.
Fail(c) == calls' = IF c.fn = "saveSession" THEN Rest(c) \cup {[c EXCEPT !.pc = "failed"]}
                                            ELSE Rest(c)

Serve(fn) == \E c \in calls :
  /\ Back(c, fn, "sent")
  /\ Accepts(c)
  /\ Carry(c)
  /\ Answer(c)
  /\ UNCHANGED <<sessionId, screens, buttons, timers>>

\* Refused, or lost on the way there, or on the way back.
ServeInVain(fn) == \E c \in calls :
  /\ Back(c, fn, "sent")
  /\ \/ (Outages \/ ~Accepts(c)) /\ UNCHANGED server
     \/ Outages /\ Accepts(c) /\ Carry(c)
  /\ Fail(c)
  /\ UNCHANGED <<sessionId, screens, buttons, timers>>

\* Agents, the abandoned-command sweep, and the consoles of others.
Elsewhere(s) ==
  /\ \E q \in LEGAL[server[s]] \cup (IF server[s] = Absent THEN {"preparing"} ELSE {}) :
       server' = [server EXCEPT ![s] = q]
  /\ ~\E c \in calls : c.fn = "startSession" /\ c.s = s
  /\ UNCHANGED <<sessionId, screens, buttons, timers, calls>>

-----------------------------------------------------------------------------
\* Starting and recording

\* The button stays enabled while the request is out.
startSession(s) ==
  /\ screen = "new"
  /\ server[s] = Absent
  /\ Room
  /\ polls.live < MaxPolls  \* bound
  /\ calls' = calls \cup {Request("startSession", s)}
  /\ UNCHANGED <<server, sessionId, screens, buttons, timers>>

\* Both intervals start anew, and the session is read at once.
enterRecording(c, s) ==
  /\ sessionId' = s
  /\ screen' = "recording"
  /\ tabs' = tabs \cup {"recording"}
  /\ polls' = setInterval(polls)
  /\ calls' = Rest(c) \cup {Request("pollSession", s)}
  /\ UNCHANGED <<server, stuck, shown, buttons, follows, stalled>>

startSessionEnds == \E c \in calls : Back(c, "startSession", "answered") /\ enterRecording(c, c.s)

\* Variant: the interval gives up on an unreachable controller.
PollTick_once ==
  /\ polls.live > 0
  /\ sessionId # None
  /\ RoomFor("pollSession")
  /\ calls' = calls \cup {Request("pollSession", sessionId)}
  /\ polls' = clearInterval(polls)
  /\ UNCHANGED <<server, sessionId, screens, buttons, follows, stalled>>

PollTick ==
  /\ polls.live > 0
  /\ sessionId # None
  /\ RoomFor("pollSession")
  /\ calls' = calls \cup {Request("pollSession", sessionId)}
  /\ UNCHANGED <<server, sessionId, screens, buttons, timers>>

enterReview(s) ==
  /\ polls' = clearInterval(polls)
  /\ tabs' = tabs \cup {"review"}
  /\ screen' = "review"
  /\ shown' = s

\* Variant: a session that is being stopped counts as finished.
pollSessionEnds_early == \E c \in calls :
  /\ Back(c, "pollSession", "answered")
  /\ calls' = Rest(c)
  /\ stuck' = (c.rows[c.s] = "preparing")
  /\ IF c.rows[c.s] \in {"stopping", "review"} THEN enterReview(c.s)
                                               ELSE UNCHANGED <<polls, tabs, screen, shown>>
  /\ UNCHANGED <<server, sessionId, buttons, follows, stalled>>

\* Whatever session the page has turned to since, the answer is rendered.
pollSessionEnds == \E c \in calls :
  /\ Back(c, "pollSession", "answered")
  /\ calls' = Rest(c)
  /\ stuck' = (c.rows[c.s] = "preparing")
  /\ IF c.rows[c.s] = "review" THEN enterReview(c.s)
                               ELSE UNCHANGED <<polls, tabs, screen, shown>>
  /\ UNCHANGED <<server, sessionId, buttons, follows, stalled>>

abandonSession ==
  /\ screen = "recording" /\ stuck
  /\ sessionId # None
  /\ ~Pending("abandonSession") /\ Room
  /\ calls' = calls \cup {Request("abandonSession", sessionId)}
  /\ UNCHANGED <<server, sessionId, screens, buttons, timers>>

abandonSessionEnds == \E c \in calls :
  /\ Back(c, "abandonSession", "answered")
  /\ calls' = Rest(c)
  /\ polls' = clearInterval(polls)
  /\ sessionId' = None
  /\ screen' = "new"
  /\ UNCHANGED <<server, tabs, stuck, shown, buttons, follows, stalled>>

\* The button is disabled while the request is out; that is all its end does.
stopSession ==
  /\ screen = "recording" /\ ~stuck
  /\ ~Pending("stopSession") /\ Room
  /\ calls' = calls \cup {Request("stopSession", sessionId)}
  /\ UNCHANGED <<server, sessionId, screens, buttons, timers>>

-----------------------------------------------------------------------------
\* The review: Save, Discard, and following the upload

Disable == saveOff' = TRUE /\ discardOff' = TRUE

saveSession ==
  /\ screen = "review" /\ ~saveOff /\ Room
  /\ Disable
  /\ calls' = calls \cup {Request("saveSession", sessionId)}
  /\ UNCHANGED <<server, sessionId, screens, timers>>

\* Calls of the interval that is replaced keep its clock.
Replaced(cs) == {IF c.fn = "followUpload" THEN [c EXCEPT !.late = TRUE] ELSE c : c \in cs}

\* Variant: the interval of an earlier follow is not cleared.
followUpload_again(cs) ==
  /\ follows' = setInterval(follows)
  /\ stalled' = FALSE
  /\ calls' = Replaced(cs)

followUpload(cs) ==
  /\ follows' = setInterval(clearInterval(follows))
  /\ stalled' = FALSE
  /\ calls' = Replaced(cs)

saveSessionEnds == \E c \in calls :
  \/ /\ Back(c, "saveSession", "answered")
     /\ followUpload(Rest(c))
     /\ UNCHANGED <<server, sessionId, screens, buttons, polls>>
  \/ /\ Back(c, "saveSession", "failed")
     /\ calls' = Rest(c)
     /\ saveOff' = FALSE /\ discardOff' = FALSE
     /\ UNCHANGED <<server, sessionId, screens, timers>>

FollowTick ==
  /\ follows.live > 0
  /\ RoomFor("followUpload")
  /\ calls' = calls \cup {Request("followUpload", sessionId)}
  /\ UNCHANGED <<server, sessionId, screens, buttons, timers>>

\* stallMs pass without another track being verified.
StallPasses ==
  /\ follows.live > 0 /\ ~stalled
  /\ stalled' = TRUE
  /\ UNCHANGED <<server, sessionId, screens, buttons, polls, follows, calls>>

\* Variant: a failed upload gives Save back and is read on.
Followed_failed(q, late) == q = "failed" \/ (q = "uploading" /\ ~late)

\* Whether the interval goes on after reading the state q.
Followed(q, late) == q = "uploading" /\ ~late

\* An upload that is stored opens the table of sessions; one that stalled or
\* failed gives Save back.
FollowUp(c, q, late) ==
  /\ follows' = IF Followed(q, late) THEN follows ELSE clearInterval(follows)
  /\ saveOff' = (saveOff /\ ~(q = "failed" \/ (q = "uploading" /\ late)))
  /\ calls' = Rest(c) \cup (IF q = "stored" THEN {Request("loadThenShow", None)} ELSE {})

followUploadEnds == \E c \in calls :
  /\ Back(c, "followUpload", "answered")
  /\ \E late \in IF c.late THEN BOOLEAN ELSE {stalled} : FollowUp(c, c.rows[c.s], late)
  /\ UNCHANGED <<server, sessionId, screens, discardOff, polls, stalled>>

\* After the confirmation.
discardSession ==
  /\ screen = "review" /\ ~discardOff /\ Room
  /\ Disable
  /\ calls' = calls \cup {Request("discardSession", sessionId)}
  /\ UNCHANGED <<server, sessionId, screens, timers>>

\* A refusal is not caught: both buttons stay as they are.
discardSessionEnds == \E c \in calls :
  /\ Back(c, "discardSession", "answered")
  /\ calls' = Rest(c) \cup {Request("loadThenShow", None)}
  /\ UNCHANGED <<server, sessionId, screens, buttons, timers>>

\* loadSessions returns to the function that awaited it.
loadThenShowEnds == \E c \in calls :
  /\ Back(c, "loadThenShow", "answered")
  /\ calls' = Rest(c)
  /\ screen' = "sessions"
  /\ UNCHANGED <<server, sessionId, tabs, stuck, shown, buttons, timers>>

-----------------------------------------------------------------------------
\* Navigation and reattaching to a session

\* Every navigation button looks for a session to reattach to.
Navigate(to) ==
  /\ to \in {"new", "sessions"} \cup tabs
  /\ Room
  /\ polls.live < MaxPolls  \* bound
  /\ screen' = to
  /\ calls' = calls \cup {Request("resumeActiveSession", None)}
  /\ UNCHANGED <<server, sessionId, tabs, stuck, shown, buttons, timers>>

\* What a resume looks for, in the order in which it prefers it.
Reattachable(rows) ==
  LET In(qs) == {s \in Session : rows[s] \in qs}
      live == In({"recording", "stopping"})
  IN IF live # {} THEN live ELSE IF In({"review"}) # {} THEN In({"review"}) ELSE In({"uploading"})

resumeActiveSession == \E c \in calls :
  \/ /\ Back(c, "resumeActiveSession", "answered")
     /\ \E s \in Reattachable(c.rows) :
          \/ c.rows[s] \in {"recording", "stopping"} /\ enterRecording(c, s)
          \/ /\ c.rows[s] \in {"review", "uploading"}
             /\ sessionId' = s
             /\ tabs' = tabs \cup {"review"}
             /\ calls' = Rest(c) \cup
                  {Request(IF c.rows[s] = "review" THEN "resumeReview" ELSE "resumeUpload", s)}
             /\ UNCHANGED <<server, screen, stuck, shown, buttons, timers>>
  \/ /\ Back(c, "resumeActiveSession", "answered") /\ Reattachable(c.rows) = {}
     /\ calls' = Rest(c)
     /\ UNCHANGED <<server, sessionId, screens, buttons, timers>>

resumeReview == \E c \in calls :
  \/ /\ Back(c, "resumeReview", "answered")
     /\ enterReview(c.s)
     /\ calls' = Rest(c)
     /\ UNCHANGED <<server, sessionId, stuck, buttons, follows, stalled>>
  \/ /\ Back(c, "resumeUpload", "answered")
     /\ enterReview(c.s)
     /\ Disable
     /\ followUpload(Rest(c))
     /\ UNCHANGED <<server, sessionId, stuck>>

\* The page is loaded again, by the operator or after signing in.
Reload ==
  /\ sessionId' = None
  /\ screen' = "new"
  /\ tabs' = {}
  /\ stuck' = FALSE
  /\ shown' = None
  /\ saveOff' = FALSE
  /\ discardOff' = FALSE
  /\ polls' = NoTimer
  /\ follows' = NoTimer
  /\ stalled' = FALSE
  /\ calls' = {Request("resumeActiveSession", None)}
  /\ UNCHANGED server

-----------------------------------------------------------------------------
Operate == \/ \E s \in Session : startSession(s)
           \/ abandonSession
           \/ stopSession
           \/ saveSession
           \/ discardSession
           \/ \E to \in Screen : Navigate(to)
           \/ Reload

Tick == PollTick \/ FollowTick \/ StallPasses

Resume == \/ startSessionEnds
          \/ pollSessionEnds
          \/ abandonSessionEnds
          \/ saveSessionEnds
          \/ followUploadEnds
          \/ discardSessionEnds
          \/ loadThenShowEnds
          \/ resumeActiveSession
          \/ resumeReview

Next == \/ Operate
        \/ Tick
        \/ Resume
        \/ \E fn \in Function : Serve(fn) \/ ServeInVain(fn)
        \/ \E s \in Session : Elsewhere(s)

Spec == Init /\ [][Next]_vars

\* Intervals fire, answers arrive or fail, and their functions go on.  One of
\* infinitely many requests of a poll gets through.
Fairness ==
  /\ WF_vars(PollTick) /\ WF_vars(FollowTick) /\ WF_vars(StallPasses)
  /\ WF_vars(pollSessionEnds) /\ WF_vars(followUploadEnds)
  /\ \A fn \in {"pollSession", "followUpload"} :
       WF_vars(Serve(fn) \/ ServeInVain(fn)) /\ SF_vars(Serve(fn))

FairSpec == Spec /\ Fairness
-----------------------------------------------------------------------------
\* The review screen never describes a session that may still be captured,
\* however late the answer is that opens it.
ReviewIsOver ==
  shown # None => server[shown] \in Over

\* At most one upload is followed, by the interval clearInterval can reach.
OneFollow == follows.live <= 1 /\ (follows.live = 1 => follows.tracked)

\* A page that polls a session shows its review once it is in review.
ReviewIsShown ==
  \A s \in Session : sessionId = s /\ polls.live > 0 /\ server[s] = "review"
                     ~> shown = s \/ sessionId # s \/ server[s] # "review"

\* The poll of an upload does not outlive the session it is watching.
FollowEnds ==
  \A s \in Session : sessionId = s /\ follows.live > 0 /\ server[s] \in Terminal
                     ~> follows.live = 0 \/ sessionId # s

-----------------------------------------------------------------------------
\* What the documentation says beyond this

\* README.md: a session ends in an explicit Save or Discard.
ReviewOffersDecision ==
  \A s \in Session :
    /\ screen = "review" /\ shown = s /\ sessionId = s /\ server[s] = "review"
    /\ ~\E c \in calls : c.fn # "pollSession"
    => ~saveOff /\ ~discardOff

\* What the confirmation of Discard asks: about this recording.
DecisionIsShown ==
  \A c \in calls : c.fn \in {"saveSession", "discardSession"} /\ c.pc = "sent" => c.s = shown
=============================================================================
