-------------------------- MODULE ActivityTimeline --------------------------
(***************************************************************************)
(* What the console draws of a session's activity: the events.jsonl of     *)
(* every host, parsed, merged and cut into buckets of time.                *)
(*                                                                         *)
(* Times are whole milliseconds.  A line of a file is a sample or Torn,    *)
(* what a crash leaves of one; a count an older agent did not write is     *)
(* Missing.  The mouse and the redaction of titles are left out.           *)
(***************************************************************************)
EXTENDS Integers, Sequences, FiniteSets, SequencesExt

CONSTANTS Torn,     \* a line that is not JSON
          Missing,  \* the value of a field a line does not have
          NoWindow, \* the title of a sample that could not be read
          Absent    \* a host's file that is not in the bucket

\* Math.round(n / d), for n >= 0.
Round(n, d) == (2 * n + d) \div (2 * d)

\* Number.isFinite(x) ? x : 0
Finite(x) == IF x = Missing THEN 0 ELSE x

\* x comes before the first of `later', the indices it has to come before.
Insert(s, x, later) == InsertAt(s, Min(later \cup {Len(s) + 1}), x)

\* Variant: the samples are taken as they come.
ByTime_asGiven(samples) == samples

\* samples.sort((a, b) => a.ts - b.ts): JavaScript's sort is stable, so a sample
\* comes behind those of its time.
ByTime(samples) ==
  FoldLeft(LAMBDA s, x : Insert(s, x, {i \in DOMAIN s : s[i].ts > x.ts}), <<>>, samples)

\* The lines that are JSON.
Parsed(file) ==
  FoldLeft(LAMBDA s, line : IF line = Torn THEN s ELSE Append(s, line), <<>>, file)

parseSamples(file) == ByTime(Parsed(file))

Duration(s) == Max({1, s[Len(s)].ts - s[1].ts})
Offset(s, i) == s[i].ts - s[1].ts

\* Variant: the sample that ends the session falls behind the last bucket.
Slot_unclamped(s, count, i) == (Offset(s, i) * count) \div Duration(s)

\* The bucket, counted from 0, of sample i.  floor(offset / (duration / count))
Slot(s, count, i) == Min({count - 1, (Offset(s, i) * count) \div Duration(s)})

Buckets(s, count) ==
  [b \in 1..count |-> [startMs |-> Round((b - 1) * Duration(s), count),
                       endMs   |-> Round(b * Duration(s), count),
                       keys    |-> 0,
                       clicks  |-> 0,
                       window  |-> NoWindow]]

\* Sample x falls into a bucket, which has the window of its first with one.
Filled(bucket, x) == [bucket EXCEPT !.keys = @ + Finite(x.keys),
                                    !.clicks = @ + Finite(x.clicks),
                                    !.window = IF @ = NoWindow THEN x.window ELSE @]

\* A sample lengthens the last focus interval, or opens one of its own.
Focused(focus, window, offset) ==
  IF focus # <<>> /\ Last(focus).window = window
  THEN [focus EXCEPT ![Len(focus)].endMs = offset]
  ELSE Append(focus, [window |-> window, startMs |-> offset, endMs |-> offset])

\* windowTotals, a Map, in the order of insertion.
Held(totals, window, ms) ==
  LET entries == {n \in DOMAIN totals : totals[n].window = window}
  IN  IF entries = {} THEN Append(totals, [window |-> window, totalMs |-> ms])
      ELSE [totals EXCEPT ![Min(entries)].totalMs = @ + ms]

\* Evidence that the listener was running: a count, or a hotkey.
Measured(x) == Finite(x.keys) > 0 \/ Finite(x.clicks) > 0 \/ x.hotkeys # <<>>

\* The loop's variables after sample i.  The time before a sample is its
\* window's.
Drawn(s, count, d, i) ==
  LET x == s[i]
  IN  [buckets  |-> [d.buckets EXCEPT ![Slot(s, count, i) + 1] = Filled(@, x)],
       focus    |-> IF x.window = NoWindow THEN d.focus
                    ELSE Focused(d.focus, x.window, Offset(s, i)),
       totals   |-> IF x.window = NoWindow \/ i = 1 THEN d.totals
                    ELSE Held(d.totals, x.window, x.ts - s[i - 1].ts),
       measured |-> d.measured \/ Measured(x)]

Loop(s, count) ==
  FoldLeftDomain(LAMBDA d, i : Drawn(s, count, d, i),
                 [buckets |-> Buckets(s, count), focus |-> <<>>, totals |-> <<>>,
                  measured |-> FALSE], s)

TopWindows(totals) ==
  FoldLeft(LAMBDA top, w : Insert(top, w, {n \in DOMAIN top : top[n].totalMs < w.totalMs}),
           <<>>, totals)

buildTimeline(s, bucketCount) ==
  LET count == Max({1, bucketCount})
      d == Loop(s, count)
  IN  IF s = <<>>
      THEN [durationMs |-> 0, bucketMs |-> 0, buckets |-> <<>>, focus |-> <<>>,
            topWindows |-> <<>>, sampleCount |-> 0, inputMeasured |-> FALSE]
      ELSE [durationMs    |-> Duration(s),
            bucketMs      |-> Round(Duration(s), count),
            buckets       |-> d.buckets,
            focus         |-> d.focus,
            topWindows    |-> TopWindows(d.totals),
            sampleCount   |-> Len(s),
            inputMeasured |-> d.measured]

\* The files of all hosts on one timeline.  A host without one has no part in
\* it; without any, there is no timeline, which is not an empty one.
Merged(files) ==
  FoldLeft(LAMBDA s, file : IF file = Absent THEN s ELSE s \o parseSamples(file), <<>>, files)

timeline(files, bucketCount) ==
  IF \A i \in DOMAIN files : files[i] = Absent THEN Absent
  ELSE buildTimeline(ByTime(Merged(files)), bucketCount)
=============================================================================
