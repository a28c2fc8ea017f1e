------------------------------ MODULE Activity ------------------------------
(***************************************************************************)
(* From the keyboard to the console: what ActivityCapture leaves in        *)
(* events.jsonl at any moment, a crash included, is what ActivityTimeline  *)
(* draws.  A second host takes part in the session: it has no file, or one *)
(* of an older agent, which counts nothing.                                *)
(***************************************************************************)
EXTENDS ActivityCapture

CONSTANTS Torn,         \* a line that is not JSON
          Missing,      \* the value of a field a line does not have
          Absent,       \* a host's file that is not in the bucket
          BucketCount   \* how many buckets the console asks for

Console == INSTANCE ActivityTimeline

ASSUME BucketsAssumption == BucketCount \in Nat \ {0}
ASSUME MissingAssumption == Missing \notin Nat
ASSUME AbsentAssumption == Absent \notin Seq(Sample \cup {Torn})

-----------------------------------------------------------------------------
\* What the user did, as far as the listener has been told

\* Events whose detail line was read.
Heard == {i \in DOMAIN input : PerEvent * (i - 1) + 2 <= read}
HeardPresses == {i \in Heard : input[i].act = "press"}
HeardClicks == {i \in Heard : input[i].act = "click"}

\* Modifier c was pressed before event i, and has not been released since.
DownAt(i, c) == \E j \in 1..(i - 1) :
                  /\ input[j] = [act |-> "press", code |-> c]
                  /\ \A k \in (j + 1)..(i - 1) :
                       input[k] # [act |-> "release", code |-> c]

\* The combination that event i completes.
ComboAt(i) == IF /\ i \in HeardPresses
                 /\ input[i].code \notin DOMAIN Modifier
              THEN {Modifier[c] : c \in {d \in DOMAIN Modifier : DownAt(i, d)}}
              ELSE {}

\* The combinations among what the events completed.
TypedOf(combos) ==
  FoldLeft(LAMBDA all, combo : IF combo = {} THEN all ELSE Append(all, combo), <<>>, combos)

Typed == TypedOf([i \in DOMAIN input |-> ComboAt(i)])

-----------------------------------------------------------------------------
\* What the file and the console have of it

Sum(field, samples) == FoldLeft(LAMBDA n, s : n + Console!Finite(s[field]), 0, samples)

Counted(samples) == [keys |-> Sum("keys", samples), clicks |-> Sum("clicks", samples)]

HotkeysOf(samples) == FoldLeft(LAMBDA all, s : all \o s.hotkeys, <<>>, samples)

\* The file as the API finds it in the bucket.
eventsJsonl == SubSeq(lines, 1, onDisk) \o (IF torn THEN <<Torn>> ELSE <<>>)

\* The same samples by an agent that has no counts to write.
Uncounted(text) == [i \in DOMAIN text |->
                      IF text[i] = Torn THEN Torn
                      ELSE [text[i] EXCEPT !.keys = Missing, !.clicks = Missing,
                                           !.hotkeys = <<>>]]

\* The recording is over, one way or another.
Over == stream = "null"

\* Hosts that took part in the session: one that never had a file comes with
\* this one, or one whose agent is older.
Hosts == {<<Absent, eventsJsonl>>, <<Uncounted(eventsJsonl), eventsJsonl>>}

-----------------------------------------------------------------------------
\* Safety

\* While it records, every key press and click the listener was told of is in
\* exactly one line or still in the counters, however samples overlap; and
\* later no line has more than was pressed.  (The counters of sample(), read
\* and reset after its await.)
CountedOnce ==
  LET written == Counted(lines)
  IN  /\ stream = "open" => /\ written.keys + keys = Cardinality(HeardPresses)
                            /\ written.clicks + clicks = Cardinality(HeardClicks)
      /\ written.keys <= Cardinality(HeardPresses)
      /\ written.clicks <= Cardinality(HeardClicks)

\* The hotkeys recorded are those typed, in this order: no combination is
\* dissolved by the second report of an event, and each names what was held.
\* (Input-listener's comment on unclaimed details, and its held codes.)
HotkeysAreTyped ==
  stream = "open" => HotkeysOf(lines) \o hotkeys = Typed

\* Whatever the buckets, the console draws every count of every file once, and
\* says `measured' exactly when there is one.  (The clamped slot, and the
\* defensive reading of counts.)
TimelineKeepsCounts ==
  Over =>
  \A files \in Hosts :
    LET drawn == Console!timeline(files, BucketCount)
        counted == Counted(Console!parseSamples(eventsJsonl))
    IN  /\ Counted(drawn.buckets) = counted
        /\ drawn.inputMeasured <=> counted.keys + counted.clicks > 0

\* Focus intervals follow one another within the session, neighbours have
\* different windows, and the windows' times fit into the session, although
\* the clock of a host may be set back while it records.
FocusIsOrdered ==
  Over =>
  \A files \in Hosts :
    LET drawn == Console!timeline(files, 1)
        focus == drawn.focus
    IN  /\ \A i \in DOMAIN focus : /\ 0 <= focus[i].startMs
                                   /\ focus[i].startMs <= focus[i].endMs
                                   /\ focus[i].endMs <= drawn.durationMs
        /\ \A i \in 1..(Len(focus) - 1) : /\ focus[i].endMs <= focus[i + 1].startMs
                                          /\ focus[i].window # focus[i + 1].window
        /\ Sum("totalMs", drawn.topWindows) <= drawn.durationMs

-----------------------------------------------------------------------------
\* What the documentation says beyond this

\* activity-timeline.spec.ts: top windows are ranked by total focus time.
RankedByFocus ==
  LET drawn == Console!timeline(<<eventsJsonl>>, 1)
      FocusTime(w) == FoldLeft(LAMBDA n, f : IF f.window = w THEN n + f.endMs - f.startMs
                                             ELSE n, 0, drawn.focus)
  IN  \A i, j \in DOMAIN drawn.topWindows :
        i < j => FocusTime(drawn.topWindows[i].window) >= FocusTime(drawn.topWindows[j].window)

\* tracker.ts: a crash costs at most one sample.
CrashCostsOneSample ==
  [][agent' = "killed" => Len(lines) - onDisk <= 1]_vars

\* session.ts: the listener is stopped before the tracker, so the final sample
\* cannot race a count.  What it does race is the end of its own stream.
StopThrowsNothing == agent # "threw"

\* tracker.ts: a sample says how many keys were pressed in its interval; the
\* presses after the last sample are told as well.
StopKeepsCounts == agent = "up" /\ stream = "null" => Counted(lines).keys = Cardinality(HeardPresses)
=============================================================================
