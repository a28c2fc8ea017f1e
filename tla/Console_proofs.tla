--------------------------- MODULE Console_proofs ---------------------------
(***************************************************************************)
(* The console for any number of sessions, requests in flight and outages: *)
(* typing, the one upload that is followed, and that the review screen     *)
(* describes no session that may still be captured.                        *)
(***************************************************************************)
EXTENDS Console, TLAPS

-----------------------------------------------------------------------------
\* The requests

LEMMA RequestOK ==
  ASSUME NEW fn \in Function, NEW s \in Session \cup {None}
  PROVE  Request(fn, s) \in Call
BY DEF Request, Call, NoRows, State

LEMMA AskedOK == \A fn \in Changes : Asked[fn] \in SessionState
BY DEF Changes, Asked, SessionState

\* A session that is over stays over, and no change leads from no row.
LEMMA OverStays ==
  ASSUME NEW from \in State, NEW to \in SessionState, isLegalTransition(from, to)
  PROVE  from # Absent /\ (from \in Over => to \in Over)
<1>1. to \in LEGAL[from]
  BY DEF isLegalTransition
<1>2. from # Absent
  BY <1>1 DEF LEGAL, SessionState, Absent
<1>3. from \notin Terminal
  BY <1>1 DEF Terminal
<1>4. from = "review" => to \in {"uploading", "discarded"}
  BY <1>1 DEF LEGAL, SessionState, Absent
<1>5. from = "uploading" => to \in {"stored", "failed"}
  BY <1>1 DEF LEGAL, SessionState, Absent
<1>6. {"stored", "discarded", "failed"} \subseteq Terminal
  BY DEF Terminal, LEGAL, SessionState, Absent
<1> QED
  BY <1>2, <1>3, <1>4, <1>5, <1>6 DEF Over

LEMMA AnsweredOK ==
  ASSUME TypeOK, NEW c \in calls
  PROVE  /\ [c EXCEPT !.pc = "answered", !.rows = Seen(c)] \in Call
         /\ [c EXCEPT !.pc = "answered"] \in Call
         /\ [c EXCEPT !.pc = "failed"] \in Call
         /\ [c EXCEPT !.late = TRUE] \in Call
<1>1. c \in Call
  BY DEF TypeOK
<1>2. Seen(c) \in [Session -> State]
  BY DEF Seen, TypeOK, State
<1> QED
  BY <1>1, <1>2 DEF Call

LEMMA CarryOK ==
  ASSUME TypeOK, NEW c \in calls, Accepts(c), Carry(c),
         c.fn = "startSession" => c.s \in Session /\ server[c.s] = Absent
  PROVE  /\ server' \in [Session -> State]
         /\ \A s \in Session : server[s] \in Over => server'[s] \in Over
<1>1. c \in Call
  BY DEF TypeOK
<1>2. CASE c.fn \notin Changes
  BY <1>2 DEF Carry, TypeOK
<1>3. CASE c.fn \in Changes
  <2>1. server' = [server EXCEPT ![c.s] = Asked[c.fn]]
    BY <1>3 DEF Carry
  <2>2. Asked[c.fn] \in SessionState
    BY <1>3, AskedOK
  <2>3. server' \in [Session -> State]
    BY <2>1, <2>2 DEF TypeOK, State
  <2>4. ASSUME NEW s \in Session, server[s] \in Over
        PROVE  server'[s] \in Over
    <3>1. CASE s # c.s
      BY <3>1, <2>1, <2>4 DEF TypeOK
    <3>2. CASE s = c.s
      <4>1. server'[s] = Asked[c.fn]
        BY <3>2, <2>1 DEF TypeOK
      <4>2. server[s] # Absent
        BY <2>4 DEF Over, Terminal, SessionState, Absent
      <4>3. isLegalTransition(server[c.s], Asked[c.fn])
        BY <4>2, <3>2, <1>3 DEF Accepts, Changes, Reads, Lists
      <4>4. server[s] \in State
        BY DEF TypeOK
      <4> QED
        BY <4>1, <4>3, <4>4, <2>2, <2>4, <3>2, OverStays
    <3> QED
      BY <3>1, <3>2
  <2> QED
    BY <2>3, <2>4
<1> QED
  BY <1>2, <1>3

-----------------------------------------------------------------------------
\* The inductive invariant.  The review screen is opened by answers, so what
\* it needs is said of the calls: a session is started while it has no row;
\* the second half of a resume reads a session that is over; and what an
\* answer says of a session that is over stays true of it.

CallOK(c, rows) ==
  /\ c.fn = "startSession" => c.s \in Session
  /\ c.fn = "startSession" /\ c.pc = "sent" =>
       rows[c.s] = Absent /\ c = Request("startSession", c.s)
  /\ c.fn \in {"resumeReview", "resumeUpload"} => c.s \in Session /\ rows[c.s] \in Over
  /\ c.fn = "pollSession" => c.s \in Session
  /\ c.fn \in {"pollSession", "resumeActiveSession"} =>
       \A s \in Session : c.rows[s] \in {"review", "uploading"} => rows[s] \in Over

CallsOK == \A c \in calls : CallOK(c, server)

\* The handle is lost only when the interval is cleared.
OneTimer == follows \in {[live |-> 0, tracked |-> FALSE], [live |-> 1, tracked |-> TRUE]}
PollsOK == polls.tracked => polls.live > 0

Inv == TypeOK /\ CallsOK /\ OneTimer /\ PollsOK /\ ReviewIsOver

LEMMA FreshOK ==
  ASSUME NEW fn \in Function, NEW s \in Session \cup {None}, NEW rows,
         fn = "pollSession" => s \in Session,
         fn = "startSession" => s \in Session /\ rows[s] = Absent,
         fn \in {"resumeReview", "resumeUpload"} => s \in Session /\ rows[s] \in Over
  PROVE  CallOK(Request(fn, s), rows)
BY DEF CallOK, Request, NoRows, Absent

LEMMA StillOK ==
  ASSUME NEW c, NEW rows, NEW later, CallOK(c, rows),
         \A s \in Session : rows[s] \in Over => later[s] \in Over,
         c.fn = "startSession" /\ c.pc = "sent" => later[c.s] = rows[c.s]
  PROVE  CallOK(c, later)
BY DEF CallOK

LEMMA TimersClear ==
  ASSUME NEW t \in Timer, t.tracked => t.live > 0
  PROVE  /\ clearInterval(t) \in Timer /\ ~clearInterval(t).tracked
         /\ setInterval(t) \in Timer /\ setInterval(t).live > 0
BY DEF Timer, clearInterval, setInterval

\* The one timer of an upload, cleared and set.
LEMMA OneTimerStep ==
  ASSUME OneTimer
  PROVE  /\ clearInterval(follows) = NoTimer
         /\ setInterval(clearInterval(follows)) = [live |-> 1, tracked |-> TRUE]
<1>1. clearInterval(follows) = NoTimer
  <2>1. CASE follows = [live |-> 0, tracked |-> FALSE]
    BY <2>1 DEF clearInterval, NoTimer
  <2>2. CASE follows = [live |-> 1, tracked |-> TRUE]
    BY <2>2 DEF clearInterval, NoTimer
  <2> QED
    BY <2>1, <2>2 DEF OneTimer
<1> QED
  BY <1>1 DEF setInterval, NoTimer

LEMMA InitOK == Init => Inv
<1> SUFFICES ASSUME Init
             PROVE  Inv
  OBVIOUS
<1> USE DEF Init
<1>1. "resumeActiveSession" \in Function
  BY DEF Function, Lists
<1>2. TypeOK
  BY <1>1, RequestOK DEF TypeOK, NoRows, State, Screen, NoTimer, Timer
<1>3. CallsOK
  BY <1>1, FreshOK DEF CallsOK
<1> QED
  BY <1>2, <1>3 DEF Inv, OneTimer, PollsOK, NoTimer, ReviewIsOver

\* A step leaves some of the calls, and makes one or none.
LEMMA AskStep ==
  ASSUME Inv, NEW fn \in Function, NEW s \in Session \cup {None},
         fn = "pollSession" => s \in Session,
         fn = "startSession" => s \in Session /\ server[s] = Absent,
         fn \in {"resumeReview", "resumeUpload"} => s \in Session /\ server[s] \in Over,
         server' = server, calls' \subseteq calls \cup {Request(fn, s)}
  PROVE  calls' \subseteq Call /\ CallsOK'
<1>1. Request(fn, s) \in Call /\ CallOK(Request(fn, s), server)
  BY RequestOK, FreshOK
<1> QED
  BY <1>1 DEF Inv, TypeOK, CallsOK

LEMMA FewerStep ==
  ASSUME Inv, server' = server, calls' \subseteq calls
  PROVE  calls' \subseteq Call /\ CallsOK'
BY DEF Inv, TypeOK, CallsOK

LEMMA FunctionNames ==
  {"startSession", "abandonSession", "stopSession", "saveSession", "discardSession",
   "pollSession", "followUpload", "resumeReview", "resumeUpload", "loadThenShow",
   "resumeActiveSession"} \subseteq Function
BY DEF Function, Changes, Reads, Lists

LEMMA OperateOK == Inv /\ Operate => Inv'
<1> SUFFICES ASSUME Inv, Operate
             PROVE  Inv'
  OBVIOUS
<1> USE DEF Inv, TypeOK, OneTimer, PollsOK, ReviewIsOver
<1>1. ASSUME NEW s \in Session, startSession(s)
      PROVE  Inv'
  BY <1>1, AskStep, FunctionNames DEF startSession, screens, buttons, timers
<1>2. CASE abandonSession
  BY <1>2, AskStep, FunctionNames DEF abandonSession, screens, buttons, timers
<1>3. CASE stopSession
  BY <1>3, AskStep, FunctionNames DEF stopSession, screens, buttons, timers
<1>4. CASE saveSession
  BY <1>4, AskStep, FunctionNames DEF saveSession, Disable, screens, timers
<1>5. CASE discardSession
  BY <1>5, AskStep, FunctionNames DEF discardSession, Disable, screens, timers
<1>6. ASSUME NEW to \in Screen, Navigate(to)
      PROVE  Inv'
  BY <1>6, AskStep, FunctionNames DEF Navigate, buttons, timers
<1>7. CASE Reload
  <2>1. calls' \subseteq Call /\ CallsOK'
    <3>1. LET c == Request("resumeActiveSession", None) IN c \in Call /\ CallOK(c, server)
      BY RequestOK, FreshOK, FunctionNames
    <3> QED
      BY <3>1, <1>7 DEF Reload, CallsOK
  <2> QED
    BY <2>1, <1>7 DEF Reload, NoTimer, Timer, Screen
<1> QED
  BY <1>1, <1>2, <1>3, <1>4, <1>5, <1>6, <1>7 DEF Operate

LEMMA TickOK == Inv /\ Tick => Inv'
<1> SUFFICES ASSUME Inv, Tick
             PROVE  Inv'
  OBVIOUS
<1> USE DEF Inv, TypeOK, OneTimer, PollsOK, ReviewIsOver
<1>1. CASE PollTick
  BY <1>1, AskStep, FunctionNames DEF PollTick, screens, buttons, timers
<1>2. CASE FollowTick
  BY <1>2, AskStep, FunctionNames DEF FollowTick, screens, buttons, timers
<1>3. CASE StallPasses
  BY <1>3, FewerStep DEF StallPasses, screens, buttons
<1> QED
  BY <1>1, <1>2, <1>3 DEF Tick

-----------------------------------------------------------------------------
\* The functions of the page that go on

LEMMA FollowStep ==
  ASSUME Inv, NEW cs \in SUBSET calls, followUpload(cs), server' = server
  PROVE  /\ follows' = [live |-> 1, tracked |-> TRUE]
         /\ stalled' = FALSE
         /\ calls' \subseteq Call /\ CallsOK'
<1>1. follows' = [live |-> 1, tracked |-> TRUE]
  BY OneTimerStep DEF Inv, followUpload
<1>2. ASSUME NEW c \in calls, c.fn = "followUpload"
      PROVE  [c EXCEPT !.late = TRUE] \in Call /\ CallOK([c EXCEPT !.late = TRUE], server)
  <2>1. c \in Call /\ [c EXCEPT !.late = TRUE] \in Call
    BY <1>2, AnsweredOK DEF Inv, TypeOK
  <2> QED
    BY <2>1, <1>2 DEF Call, CallOK
<1>3. \A c \in calls' : c \in Call /\ CallOK(c, server)
  BY <1>2 DEF followUpload, Replaced, Inv, TypeOK, CallsOK
<1> QED
  BY <1>1, <1>3 DEF followUpload, CallsOK

LEMMA EnterRecordingOK ==
  ASSUME Inv, NEW c \in calls, NEW s \in Session, enterRecording(c, s)
  PROVE  Inv'
<1>1. calls' \subseteq Call /\ CallsOK'
  BY AskStep, FunctionNames DEF enterRecording, Rest
<1>2. polls' \in Timer /\ polls'.live > 0
  BY TimersClear DEF enterRecording, Inv, TypeOK, PollsOK
<1> QED
  BY <1>1, <1>2 DEF enterRecording, Inv, TypeOK, OneTimer, PollsOK, ReviewIsOver,
       buttons, Screen

\* The review screen opens for a session that is over.
LEMMA EnterReviewOK ==
  ASSUME Inv, NEW s \in Session, server[s] \in Over, enterReview(s), server' = server
  PROVE  /\ polls' \in Timer /\ PollsOK'
         /\ tabs' \subseteq {"recording", "review"} /\ screen' \in Screen
         /\ shown' \in Session \cup {None} /\ ReviewIsOver'
BY TimersClear DEF enterReview, Inv, TypeOK, PollsOK, Screen, ReviewIsOver

LEMMA pollSessionEndsOK == Inv /\ pollSessionEnds => Inv'
<1> SUFFICES ASSUME Inv, NEW c \in calls, Back(c, "pollSession", "answered"),
                    calls' = Rest(c),
                    stuck' = (c.rows[c.s] = "preparing"),
                    IF c.rows[c.s] = "review" THEN enterReview(c.s)
                                              ELSE UNCHANGED <<polls, tabs, screen, shown>>,
                    UNCHANGED <<server, sessionId, buttons, follows, stalled>>
             PROVE  Inv'
  BY DEF pollSessionEnds, Back
<1>1. c.s \in Session /\ (c.rows[c.s] = "review" => server[c.s] \in Over)
  BY DEF Inv, CallsOK, CallOK, Back
<1>2. calls' \subseteq Call /\ CallsOK'
  BY FewerStep DEF Rest
<1>3. CASE c.rows[c.s] = "review"
  BY <1>1, <1>2, <1>3, EnterReviewOK DEF Inv, TypeOK, OneTimer, buttons
<1>4. CASE c.rows[c.s] # "review"
  BY <1>2, <1>4 DEF Inv, TypeOK, OneTimer, PollsOK, ReviewIsOver, buttons
<1> QED
  BY <1>3, <1>4

LEMMA saveSessionEndsOK == Inv /\ saveSessionEnds => Inv'
<1> SUFFICES ASSUME Inv, saveSessionEnds
             PROVE  Inv'
  OBVIOUS
<1>1. PICK c \in calls :
        \/ /\ followUpload(Rest(c))
           /\ UNCHANGED <<server, sessionId, screens, buttons, polls>>
        \/ /\ calls' = Rest(c)
           /\ saveOff' = FALSE /\ discardOff' = FALSE
           /\ UNCHANGED <<server, sessionId, screens, timers>>
  BY DEF saveSessionEnds, Back
<1>2. CASE followUpload(Rest(c)) /\ UNCHANGED <<server, sessionId, screens, buttons, polls>>
  <2>1. Rest(c) \in SUBSET calls
    BY DEF Rest
  <2>2. /\ follows' = [live |-> 1, tracked |-> TRUE]
        /\ stalled' = FALSE
        /\ calls' \subseteq Call /\ CallsOK'
    BY <1>2, <2>1, FollowStep
  <2> QED
    BY <1>2, <2>2 DEF Inv, TypeOK, OneTimer, PollsOK, ReviewIsOver, Timer, screens, buttons
<1>3. CASE /\ calls' = Rest(c)
           /\ saveOff' = FALSE /\ discardOff' = FALSE
           /\ UNCHANGED <<server, sessionId, screens, timers>>
  BY <1>3, FewerStep DEF Rest, Inv, TypeOK, OneTimer, PollsOK, ReviewIsOver, screens, timers
<1> QED
  BY <1>1, <1>2, <1>3

LEMMA followUploadEndsOK == Inv /\ followUploadEnds => Inv'
<1> SUFFICES ASSUME Inv, NEW c \in calls, NEW q, NEW late, FollowUp(c, q, late),
                    UNCHANGED <<server, sessionId, screens, discardOff, polls, stalled>>
             PROVE  Inv'
  BY DEF followUploadEnds, Back
<1>1. calls' \subseteq Call /\ CallsOK'
  <2>1. calls' \subseteq calls \cup {Request("loadThenShow", None)}
    BY DEF FollowUp, Rest
  <2> QED
    BY <2>1, AskStep, FunctionNames
<1>2. follows' \in Timer /\ OneTimer'
  <2>1. CASE follows' = follows
    BY <2>1 DEF Inv, TypeOK, OneTimer
  <2>2. CASE follows' = NoTimer
    BY <2>2 DEF OneTimer, NoTimer, Timer
  <2> QED
    BY <2>1, <2>2, OneTimerStep DEF FollowUp, Inv
<1>3. saveOff' \in BOOLEAN
  BY DEF FollowUp, Inv, TypeOK
<1> QED
  BY <1>1, <1>2, <1>3 DEF Inv, TypeOK, PollsOK, ReviewIsOver, screens

LEMMA resumeActiveSessionOK == Inv /\ resumeActiveSession => Inv'
<1> SUFFICES ASSUME Inv, resumeActiveSession
             PROVE  Inv'
  OBVIOUS
<1>1. CASE \E c \in calls : \E s \in Session : enterRecording(c, s)
  BY <1>1, EnterRecordingOK
<1>2. CASE \E c \in calls : /\ calls' = Rest(c)
                           /\ UNCHANGED <<server, sessionId, screens, buttons, timers>>
  BY <1>2, FewerStep DEF Rest, Inv, TypeOK, OneTimer, PollsOK, ReviewIsOver, screens,
       buttons, timers
<1>3. ASSUME NEW c \in calls, NEW s \in Session, Back(c, "resumeActiveSession", "answered"),
             c.rows[s] \in {"review", "uploading"},
             sessionId' = s, tabs' = tabs \cup {"review"},
             calls' = Rest(c) \cup
               {Request(IF c.rows[s] = "review" THEN "resumeReview" ELSE "resumeUpload", s)},
             UNCHANGED <<server, screen, stuck, shown, buttons, timers>>
      PROVE  Inv'
  <2>1. server[s] \in Over
    BY <1>3 DEF Inv, CallsOK, CallOK, Back
  <2>2. calls' \subseteq Call /\ CallsOK'
    <3>1. CASE c.rows[s] = "review"
      BY <3>1, <2>1, <1>3, AskStep, FunctionNames DEF Rest
    <3>2. CASE c.rows[s] # "review"
      BY <3>2, <2>1, <1>3, AskStep, FunctionNames DEF Rest
    <3> QED
      BY <3>1, <3>2
  <2> QED
    BY <2>2, <1>3 DEF Inv, TypeOK, OneTimer, PollsOK, ReviewIsOver, buttons, timers
<1> QED
  <2>1. \A c : Reattachable(c.rows) \subseteq Session
    BY DEF Reattachable
  <2> QED
    BY <1>1, <1>2, <1>3, <2>1 DEF resumeActiveSession, Back

LEMMA resumeReviewOK == Inv /\ resumeReview => Inv'
<1> SUFFICES ASSUME Inv, resumeReview
             PROVE  Inv'
  OBVIOUS
<1>1. PICK c \in calls :
        /\ c.fn \in {"resumeReview", "resumeUpload"}
        /\ enterReview(c.s)
        /\ \/ /\ calls' = Rest(c)
              /\ UNCHANGED <<server, sessionId, stuck, buttons, follows, stalled>>
           \/ /\ Disable
              /\ followUpload(Rest(c))
              /\ UNCHANGED <<server, sessionId, stuck>>
  BY DEF resumeReview, Back
<1>2. c.s \in Session /\ server[c.s] \in Over /\ server' = server
  BY <1>1 DEF Inv, CallsOK, CallOK
<1>3. /\ polls' \in Timer /\ PollsOK'
      /\ tabs' \subseteq {"recording", "review"} /\ screen' \in Screen
      /\ shown' \in Session \cup {None} /\ ReviewIsOver'
  BY <1>1, <1>2, EnterReviewOK
<1>4. Rest(c) \in SUBSET calls
  BY DEF Rest
<1>5. CASE /\ calls' = Rest(c)
           /\ UNCHANGED <<server, sessionId, stuck, buttons, follows, stalled>>
  BY <1>3, <1>4, <1>5, FewerStep DEF Inv, TypeOK, OneTimer, buttons
<1>6. CASE /\ Disable
           /\ followUpload(Rest(c))
           /\ UNCHANGED <<server, sessionId, stuck>>
  <2>1. /\ follows' = [live |-> 1, tracked |-> TRUE]
        /\ stalled' = FALSE
        /\ calls' \subseteq Call /\ CallsOK'
    BY <1>4, <1>6, FollowStep
  <2> QED
    BY <1>3, <1>6, <2>1 DEF Inv, TypeOK, OneTimer, Timer, Disable
<1> QED
  BY <1>1, <1>5, <1>6

LEMMA ResumeOK == Inv /\ Resume => Inv'
<1> SUFFICES ASSUME Inv, Resume
             PROVE  Inv'
  OBVIOUS
<1>1. CASE startSessionEnds
  <2>1. PICK c \in calls : c.fn = "startSession" /\ enterRecording(c, c.s)
    BY <1>1 DEF startSessionEnds, Back
  <2>2. c.s \in Session
    BY <2>1 DEF Inv, CallsOK, CallOK
  <2> QED
    BY <2>1, <2>2, EnterRecordingOK
<1>2. CASE abandonSessionEnds
  <2>1. calls' \subseteq Call /\ CallsOK'
    BY <1>2, FewerStep DEF abandonSessionEnds, Rest
  <2>2. polls' \in Timer /\ PollsOK'
    BY <1>2, TimersClear DEF abandonSessionEnds, Inv, TypeOK, PollsOK
  <2> QED
    BY <1>2, <2>1, <2>2 DEF abandonSessionEnds, Inv, TypeOK, OneTimer, ReviewIsOver,
         Screen, buttons
<1>3. CASE discardSessionEnds
  <2>1. calls' \subseteq Call /\ CallsOK'
    BY <1>3, AskStep, FunctionNames DEF discardSessionEnds, Rest
  <2> QED
    BY <1>3, <2>1 DEF discardSessionEnds, Inv, TypeOK, OneTimer, PollsOK, ReviewIsOver,
         screens, buttons, timers
<1>4. CASE loadThenShowEnds
  <2>1. calls' \subseteq Call /\ CallsOK'
    BY <1>4, FewerStep DEF loadThenShowEnds, Rest
  <2> QED
    BY <1>4, <2>1 DEF loadThenShowEnds, Inv, TypeOK, OneTimer, PollsOK, ReviewIsOver,
         Screen, buttons, timers
<1> QED
  BY <1>1, <1>2, <1>3, <1>4, pollSessionEndsOK, saveSessionEndsOK, followUploadEndsOK,
     resumeActiveSessionOK, resumeReviewOK DEF Resume

-----------------------------------------------------------------------------
\* The API and everybody else

\* The row of a session that is being started changes by that call alone.
LEMMA OthersSurvive ==
  ASSUME Inv, NEW c \in calls, c.pc = "sent", Accepts(c), Carry(c)
  PROVE  /\ server' \in [Session -> State]
         /\ \A s \in Session : server[s] \in Over => server'[s] \in Over
         /\ \A d \in Rest(c) : CallOK(d, server')
<1>1. CallOK(c, server) /\ c \in Call
  BY DEF Inv, CallsOK, TypeOK
<1>2. /\ server' \in [Session -> State]
      /\ \A s \in Session : server[s] \in Over => server'[s] \in Over
  BY <1>1, CarryOK DEF Inv, CallOK
<1>3. ASSUME NEW d \in Rest(c)
      PROVE  CallOK(d, server')
  <2>1. d \in calls /\ d # c /\ CallOK(d, server)
    BY <1>3 DEF Rest, Inv, CallsOK
  <2>2. ASSUME d.fn = "startSession", d.pc = "sent", c.fn \in Changes, c.s = d.s
        PROVE  FALSE
    <3>1. d.s \in Session /\ server[d.s] = Absent /\ d = Request("startSession", d.s)
      BY <2>1, <2>2 DEF CallOK
    <3>2. c.fn # "startSession"
      BY <1>1, <2>1, <2>2, <3>1 DEF CallOK
    <3>3. isLegalTransition(server[c.s], Asked[c.fn])
      BY <2>2, <3>2 DEF Accepts, Changes, Reads, Lists
    <3> QED
      BY <3>1, <3>3, <2>2, AskedOK, OverStays DEF Inv, TypeOK
  <2>3. d.fn = "startSession" /\ d.pc = "sent" => server'[d.s] = server[d.s]
    <3>1. SUFFICES ASSUME d.fn = "startSession", d.pc = "sent"
                   PROVE  server'[d.s] = server[d.s]
      OBVIOUS
    <3>2. d.s \in Session
      BY <2>1, <3>1 DEF CallOK
    <3> QED
      BY <2>2, <3>1, <3>2 DEF Carry, Inv, TypeOK
  <2> QED
    BY <1>2, <2>1, <2>3, StillOK
<1> QED
  BY <1>2, <1>3 DEF Inv

LEMMA ServeOK == ASSUME NEW fn \in Function PROVE Inv /\ Serve(fn) => Inv'
<1> SUFFICES ASSUME Inv, NEW c \in calls, c.pc = "sent", Accepts(c), Carry(c), Answer(c),
                    UNCHANGED <<sessionId, screens, buttons, timers>>
             PROVE  Inv'
  BY DEF Serve, Back
<1>1. /\ server' \in [Session -> State]
      /\ \A s \in Session : server[s] \in Over => server'[s] \in Over
      /\ \A d \in Rest(c) : CallOK(d, server')
  BY OthersSurvive
<1>2. c \in Call /\ CallOK(c, server)
  BY DEF Inv, CallsOK, TypeOK
<1>3. CASE calls' = Rest(c)
  BY <1>1, <1>3 DEF Inv, TypeOK, CallsOK, Rest, OneTimer, PollsOK, ReviewIsOver, screens,
       buttons, timers
<1>4. CASE /\ c.fn \in Changes
           /\ calls' = Rest(c) \cup {[c EXCEPT !.pc = "answered"]}
  <2> DEFINE d == [c EXCEPT !.pc = "answered"]
  <2>1. d \in Call
    BY AnsweredOK DEF Inv
  <2>2. CallOK(d, server')
    BY <1>2, <1>4 DEF CallOK, Call, Changes
  <2>3. calls' \subseteq Call /\ CallsOK'
    BY <1>1, <1>4, <2>1, <2>2 DEF CallsOK, Inv, TypeOK, Rest
  <2> QED
    BY <1>1, <2>3 DEF Inv, TypeOK, OneTimer, PollsOK, ReviewIsOver, screens, buttons, timers
<1>5. CASE /\ c.fn \in Reads \cup Lists
           /\ calls' = Rest(c) \cup {[c EXCEPT !.pc = "answered", !.rows = Seen(c)]}
  <2> DEFINE d == [c EXCEPT !.pc = "answered", !.rows = Seen(c)]
  <2>1. d \in Call
    BY AnsweredOK DEF Inv
  <2>2. server' = server
    BY <1>5 DEF Carry, Changes, Reads, Lists
  <2>3. d.fn = c.fn /\ d.s = c.s /\ d.rows = Seen(c)
    BY <1>2 DEF Call
  <2>4. \A s \in Session : Seen(c)[s] \in {"review", "uploading"} => server[s] \in Over
    BY DEF Seen, Over, Absent
  <2>5. CallOK(d, server')
    BY <1>2, <1>5, <2>2, <2>3, <2>4 DEF CallOK, Reads, Lists
  <2>6. calls' \subseteq Call /\ CallsOK'
    BY <1>1, <1>5, <2>1, <2>5 DEF CallsOK, Inv, TypeOK, Rest
  <2> QED
    BY <1>1, <2>6 DEF Inv, TypeOK, OneTimer, PollsOK, ReviewIsOver, screens, buttons, timers
<1> QED
  BY <1>3, <1>4, <1>5 DEF Answer

LEMMA ServeInVainOK == ASSUME NEW fn \in Function PROVE Inv /\ ServeInVain(fn) => Inv'
<1> SUFFICES ASSUME Inv, NEW c \in calls, c.pc = "sent", Fail(c),
                    UNCHANGED server \/ (Accepts(c) /\ Carry(c)),
                    UNCHANGED <<sessionId, screens, buttons, timers>>
             PROVE  Inv'
  BY DEF ServeInVain, Back
<1>1. /\ server' \in [Session -> State]
      /\ \A s \in Session : server[s] \in Over => server'[s] \in Over
      /\ \A d \in Rest(c) : CallOK(d, server')
  <2>1. CASE UNCHANGED server
    BY <2>1 DEF Inv, TypeOK, CallsOK, Rest
  <2>2. CASE Accepts(c) /\ Carry(c)
    BY <2>2, OthersSurvive
  <2> QED
    BY <2>1, <2>2
<1>2. calls' \subseteq Call /\ CallsOK'
  <2>1. CASE calls' = Rest(c)
    BY <1>1, <2>1 DEF Inv, TypeOK, CallsOK, Rest
  <2>2. CASE /\ c.fn = "saveSession"
             /\ calls' = Rest(c) \cup {[c EXCEPT !.pc = "failed"]}
    <3> DEFINE d == [c EXCEPT !.pc = "failed"]
    <3>1. d \in Call /\ d.fn = "saveSession"
      BY <2>2, AnsweredOK DEF Inv, TypeOK, Call
    <3>2. CallOK(d, server')
      BY <3>1 DEF CallOK
    <3> QED
      BY <1>1, <2>2, <3>1, <3>2 DEF CallsOK, Inv, TypeOK, Rest
  <2> QED
    BY <2>1, <2>2 DEF Fail
<1> QED
  BY <1>1, <1>2 DEF Inv, TypeOK, OneTimer, PollsOK, ReviewIsOver, screens, buttons, timers

LEMMA MovesOK == \A q \in State : LEGAL[q] \subseteq SessionState
BY DEF LEGAL, State, SessionState, Absent

LEMMA ElsewhereOK == ASSUME NEW s \in Session PROVE Inv /\ Elsewhere(s) => Inv'
<1> SUFFICES ASSUME Inv, Elsewhere(s)
             PROVE  Inv'
  OBVIOUS
<1>0. PICK q \in SessionState : /\ server' = [server EXCEPT ![s] = q]
                                /\ isLegalTransition(server[s], q) \/ server[s] = Absent
  <2>1. LEGAL[server[s]] \subseteq SessionState /\ "preparing" \in SessionState
    BY MovesOK DEF Inv, TypeOK, SessionState
  <2>2. CASE server[s] = Absent
    BY <2>1, <2>2 DEF Elsewhere
  <2>3. CASE server[s] # Absent
    BY <2>1, <2>3 DEF Elsewhere, isLegalTransition
  <2> QED
    BY <2>2, <2>3
<1> USE <1>0 DEF Elsewhere
<1>1. server' \in [Session -> State]
  BY DEF Inv, TypeOK, State
<1>2. \A t \in Session : server[t] \in Over => server'[t] \in Over
  <2>1. Absent \notin Over
    BY DEF Over, Terminal, SessionState, Absent
  <2> QED
    BY <2>1, OverStays DEF Inv, TypeOK
<1>3. CallsOK'
  BY <1>2, StillOK DEF Inv, CallsOK, CallOK, TypeOK
<1> QED
  BY <1>1, <1>2, <1>3 DEF Inv, TypeOK, OneTimer, PollsOK, ReviewIsOver, screens, buttons,
     timers

LEMMA Inductive == Inv /\ [Next]_vars => Inv'
<1> SUFFICES ASSUME Inv, [Next]_vars
             PROVE  Inv'
  OBVIOUS
<1>1. CASE UNCHANGED vars
  BY <1>1 DEF vars, screens, buttons, timers, Inv, TypeOK, CallsOK, OneTimer, PollsOK,
       ReviewIsOver
<1> QED
  BY <1>1, OperateOK, TickOK, ResumeOK, ServeOK, ServeInVainOK, ElsewhereOK DEF Next

\* The fields of the page and the requests in flight keep their types.
THEOREM TypeCorrect == Spec => []TypeOK
BY InitOK, Inductive, PTL DEF Spec, Inv

\* public/app.js clears the interval it can reach before it sets another
\* (followUpload): however often an operator saves, navigates or reloads, one
\* upload is followed, and by the interval that clearInterval will reach.
THEOREM OneFollowHolds == Spec => []OneFollow
<1>1. Inv => OneFollow
  BY DEF Inv, OneTimer, OneFollow
<1> QED
  BY <1>1, InitOK, Inductive, PTL DEF Spec

\* However many polls, resumes and other consoles there are, and whatever
\* answer comes late, the review screen describes no session that may still
\* be captured.
THEOREM ReviewIsOverHolds == Spec => []ReviewIsOver
BY InitOK, Inductive, PTL DEF Spec, Inv
=============================================================================
