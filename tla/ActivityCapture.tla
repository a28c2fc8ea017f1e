-------------------------- MODULE ActivityCapture --------------------------
(***************************************************************************)
(* The metadata track of one session on one host: xinput prints what the   *)
(* user does, InputListener counts it, and ActivityTracker writes the      *)
(* counts to events.jsonl, one line per sample.                            *)
(*                                                                         *)
(* Three callbacks interleave: a line of xinput's output, the timer of the *)
(* tracker, and the answer of the xdotool a sample waits for.  A sample    *)
(* may outlast the timer's interval, so several can be under way.          *)
(*                                                                         *)
(* xinput prints an event twice, raw and cooked, and each time as a header *)
(* and a detail line; the other lines it prints are skipped.               *)
(***************************************************************************)
EXTENDS Naturals, Sequences, FiniteSets, SequencesExt

CONSTANTS Code,        \* the keys of the keyboard
          Modifier,    \* MODIFIER_KEYCODES: the names of the modifiers among them
          Window,      \* window titles
          NoWindow,    \* the title of a sample that could not be read
          MaxInput,    \* bound: what the user does in the session
          MaxSamples,  \* bound: the samples the timer begins
          MaxTime      \* bound: the clock reads 0..MaxTime

ASSUME ModifierAssumption == DOMAIN Modifier \subseteq Code
ASSUME BoundsAssumption == /\ MaxInput \in Nat
                           /\ MaxSamples \in Nat
                           /\ MaxTime \in Nat

VARIABLES
  \* the user and xinput
  input,      \* all the user does in this session
  read,       \* how many of the lines about it the listener has read
  xinput,     \* whether the listener hears it
  \* InputListener
  pending,    \* the header that waits for its detail line, or "none"
  held,       \* heldModifiers
  \* ActivityTracker
  keys, clicks, hotkeys, \* what was counted since the last sample
  lastWindow,
  timer,      \* whether the interval timer runs
  begun,      \* how many samples it has begun
  asking,     \* how many of them wait for xdotool
  stream,     \* "null", "open", or "ending"
  \* the rest
  lines,      \* what was written to the stream
  onDisk,     \* how many of these lines have reached the file
  torn,       \* whether the file ends with a piece of the next one
  agent       \* "up", "killed", or "threw"

listener == <<xinput, pending, held>>
counters == <<keys, clicks, hotkeys>>
tracker == <<lastWindow, timer, begun, asking, stream, lines>>
file == <<onDisk, torn>>
vars == <<input, read, listener, counters, tracker, file, agent>>

-----------------------------------------------------------------------------
\* What the user does, and what xinput prints of it

Event == [act : {"press", "release"}, code : Code] \cup {[act |-> "click"]}

\* A key that is down is not pressed again before it is released.  A release
\* may come first: its key was down before the listener began.
Legal(events) ==
  \A i, j \in DOMAIN events :
    /\ i < j
    /\ events[i].act # "click"
    /\ events[j] = events[i]
    => \E k \in i..j : /\ events[k].act \notin {"click", events[i].act}
                       /\ events[k].code = events[i].code

Inputs == {events \in UNION {[1..n -> Event] : n \in 0..MaxInput} : Legal(events)}

\* Of the cooked events only the detail is told apart: it is unclaimed.  What
\* follows the press of a button is the release of it, unclaimed as well.
PrintedLines(event) ==
  LET raw == CASE event.act = "press"   -> "key"
               [] event.act = "release" -> "release"
               [] event.act = "click"   -> "button"
      detail == IF event.act = "click" THEN [kind |-> "detail"]
                ELSE [kind |-> "detail", code |-> event.code]
  IN  <<[kind |-> raw], detail, detail>>

PerEvent == 3
Line(n) == PrintedLines(input[((n - 1) \div PerEvent) + 1])[((n - 1) % PerEvent) + 1]

-----------------------------------------------------------------------------

\* A modifier combination: the names of the modifiers, without the key.
Combo == (SUBSET {Modifier[c] : c \in DOMAIN Modifier}) \ {{}}

Sample == [ts : 0..MaxTime, window : Window \cup {NoWindow},
           keys : Nat, clicks : Nat, hotkeys : Seq(Combo)]

TypeOK == /\ input \in Inputs
          /\ read \in 0..(PerEvent * Len(input))
          /\ xinput \in BOOLEAN
          /\ pending \in {"none", "key", "button", "release"}
          /\ held \subseteq DOMAIN Modifier
          /\ keys \in Nat
          /\ clicks \in Nat
          /\ hotkeys \in Seq(Combo)
          /\ lastWindow \in Window \cup {NoWindow}
          /\ timer \in BOOLEAN
          /\ begun \in 0..MaxSamples
          /\ asking \in 0..begun
          /\ stream \in {"null", "open", "ending"}
          /\ lines \in Seq(Sample)
          /\ onDisk \in 0..Len(lines)
          /\ torn \in BOOLEAN
          /\ agent \in {"up", "killed", "threw"}

\* The end of CaptureSession.start: the tracker's stream and timer are there,
\* and xinput could be spawned or not.
Init == /\ input \in Inputs
        /\ read = 0
        /\ xinput \in BOOLEAN
        /\ pending = "none"
        /\ held = {}
        /\ keys = 0
        /\ clicks = 0
        /\ hotkeys = <<>>
        /\ lastWindow = NoWindow
        /\ timer = TRUE
        /\ begun = 0
        /\ asking = 0
        /\ stream = "open"
        /\ lines = <<>>
        /\ onDisk = 0
        /\ torn = FALSE
        /\ agent = "up"

-----------------------------------------------------------------------------
\* InputListener

\* Variant: a key without modifiers is recorded as a hotkey, too.
countKey_always(combo) == /\ keys' = keys + 1
                          /\ hotkeys' = Append(hotkeys, combo)
                          /\ UNCHANGED clicks

countKey(combo) ==
  /\ keys' = keys + 1
  /\ hotkeys' = IF combo = {} THEN hotkeys ELSE Append(hotkeys, combo)
  /\ UNCHANGED clicks

countClick == /\ clicks' = clicks + 1
              /\ UNCHANGED <<keys, hotkeys>>

currentHotkey == {Modifier[c] : c \in held}

\* Codes are held, not names: the release of one Ctrl key leaves the other.
ReleaseKey(code) == held' = held \ {code}

\* The detail line that follows a header.
Claimed(line) ==
  /\ pending' = "none"
  /\ \/ /\ pending = "release"
        /\ ReleaseKey(line.code)
        /\ UNCHANGED counters
     \/ /\ pending = "button"
        /\ countClick
        /\ UNCHANGED held
     \/ /\ pending = "key"
        /\ line.code \in DOMAIN Modifier
        /\ held' = held \cup {line.code}
        /\ countKey({})
     \/ /\ pending = "key"
        /\ line.code \notin DOMAIN Modifier
        /\ countKey(currentHotkey)
        /\ UNCHANGED held

\* Variant: a detail line without a header counts as a release.
Unclaimed_releases(line) ==
  /\ held' = IF "code" \in DOMAIN line THEN held \ {line.code} ELSE held
  /\ UNCHANGED <<pending, counters>>

\* The detail line of an event that was already handled.
Unclaimed(line) == UNCHANGED <<pending, held, counters>>

\* What is left in the pipe when the listener stops is read as well, but adds
\* to counters no line will carry: the tracker's stream has ended by then.
handleLine ==
  /\ agent = "up"
  /\ xinput
  /\ read < PerEvent * Len(input)
  /\ read' = read + 1
  /\ LET line == Line(read + 1)
     IN  \/ /\ line.kind # "detail"
            /\ pending' = line.kind
            /\ UNCHANGED <<held, counters>>
         \/ /\ line.kind = "detail"
            /\ pending # "none"
            /\ Claimed(line)
         \/ /\ line.kind = "detail"
            /\ pending = "none"
            /\ Unclaimed(line)
  /\ UNCHANGED <<input, xinput, tracker, file, agent>>

\* xinput exits, or could not be run after all: nothing more is printed, and
\* it is not started again.
xinputExits == /\ agent = "up"
               /\ xinput
               /\ xinput' = FALSE
               /\ UNCHANGED <<input, read, pending, held, counters, tracker, file, agent>>

StopListening == /\ xinput' = FALSE
                 /\ pending' = "none"
                 /\ held' = {}

-----------------------------------------------------------------------------
\* ActivityTracker

\* The timer fires: a sample asks xdotool for the window.
sampleBegins == /\ agent = "up"
                /\ timer
                /\ begun < MaxSamples
                /\ begun' = begun + 1
                /\ asking' = asking + 1
                /\ UNCHANGED <<input, read, listener, counters, lastWindow, timer, stream,
                               lines, file, agent>>

filterHotkeys(pressed) ==
  FoldLeft(LAMBDA kept, combo : IF combo \in Combo THEN Append(kept, combo) ELSE kept,
           <<>>, pressed)

buildEvent(ts, window) == [ts |-> ts, window |-> window, keys |-> keys, clicks |-> clicks,
                           hotkeys |-> filterHotkeys(hotkeys)]

\* Variant: the hotkeys of a sample are reset, the counts go on.
ResetCounters_hotkeysOnly == /\ hotkeys' = <<>>
                             /\ UNCHANGED <<keys, clicks>>

ResetCounters == /\ keys' = 0
                 /\ clicks' = 0
                 /\ hotkeys' = <<>>

\* The process ends with all it remembers, and lines the stream has not
\* written yet.
ProcessEnds(how) ==
  /\ agent' = how
  /\ lines' = SubSeq(lines, 1, onDisk)
  /\ xinput' = FALSE
  /\ pending' = "none"
  /\ held' = {}
  /\ ResetCounters
  /\ lastWindow' = NoWindow
  /\ timer' = FALSE
  /\ begun' = 0
  /\ asking' = 0
  /\ stream' = "null"
  /\ UNCHANGED <<input, read, onDisk>>

\* xdotool has answered, with a title or nothing: the rest of sample(), which
\* nothing interrupts.
sampleEnds ==
  /\ agent = "up"
  /\ asking > 0
  /\ stream # "ending"
  /\ asking' = asking - 1
  /\ \E ts \in 0..MaxTime, out \in Window \cup {NoWindow} :
       LET window == IF out = NoWindow THEN lastWindow ELSE out
       IN  /\ lastWindow' = window
           /\ lines' = IF stream = "open" THEN Append(lines, buildEvent(ts, window))
                       ELSE lines
  /\ ResetCounters
  /\ UNCHANGED <<input, read, listener, timer, begun, stream, file, agent>>

\* The same while the stream ends: a write after end() is an error event that
\* nobody handles.  (With nothing left to write, the stream finishes before
\* another callback runs.)
sampleThrows == /\ agent = "up"
                /\ asking > 0
                /\ stream = "ending"
                /\ onDisk < Len(lines)
                /\ ProcessEnds("threw")
                /\ UNCHANGED torn

\* The stream writes a line to the file.
flush == /\ agent = "up"
         /\ onDisk < Len(lines)
         /\ onDisk' = onDisk + 1
         /\ UNCHANGED <<input, read, listener, counters, tracker, torn, agent>>

\* CaptureSession.stop: the listener, then the tracker up to the end of its
\* stream, without a pause.
stop == /\ agent = "up"
        /\ stream = "open"
        /\ timer' = FALSE
        /\ stream' = "ending"
        /\ StopListening
        /\ UNCHANGED <<input, read, counters, lastWindow, begun, asking, lines, file, agent>>

\* The stream has finished: stop() lets go of it.
stopEnds == /\ agent = "up"
            /\ stream = "ending"
            /\ onDisk = Len(lines)
            /\ stream' = "null"
            /\ UNCHANGED <<input, read, listener, counters, lastWindow, timer, begun, asking,
                           lines, file, agent>>

\* The agent is killed, perhaps in the middle of a line.
crash == /\ agent = "up"
         /\ ProcessEnds("killed")
         /\ torn' \in IF onDisk < Len(lines) THEN BOOLEAN ELSE {FALSE}

Next == \/ handleLine
        \/ xinputExits
        \/ sampleBegins
        \/ sampleEnds
        \/ sampleThrows
        \/ flush
        \/ stop
        \/ stopEnds
        \/ crash

Spec == Init /\ [][Next]_vars
=============================================================================
