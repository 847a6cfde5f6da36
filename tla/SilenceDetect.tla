---------------------------- MODULE SilenceDetect ---------------------------
(***************************************************************************)
(* SilenceDetector: finds the stretches of silence in a stream of audio.   *)
(*                                                                         *)
(* A frame holds one sample of each channel; all that counts of a sample   *)
(* is whether it is below the threshold.  How frames come in blocks does   *)
(* not matter, as nothing is done at the start or the end of one.          *)
(***************************************************************************)
EXTENDS Naturals, Sequences, FiniteSets, SequencesExt

CONSTANTS Configs, MaxSamples   \* a bound on the samples of a run

VARIABLES
  config,      \* channels, minimum_length
  frames,      \* all frames so far: a sequence of sequences of BOOLEAN
  status,      \* SilenceStatus
  intervals,   \* what the process will return
  phase

vars == <<config, frames, status, intervals, phase>>

ASSUME ConfigsAssumption ==
  \A c \in Configs : c.channels \in Nat /\ c.minimum_length \in Nat \ {0}

Interval(start, length) == [start |-> start, length |-> length]

-----------------------------------------------------------------------------
\* SilenceStatus

NewStatus == [total |-> 0, zero_count |-> 0, interval |-> Interval(0, 0), ready |-> FALSE]

Silence(s) ==
  [s EXCEPT !.interval = IF s.zero_count = 0 THEN Interval(s.total, 0) ELSE @,
            !.zero_count = @ + 1]

Signal(s) ==
  LET long == s.zero_count >= config.minimum_length
  IN  [s EXCEPT !.interval.length = IF long THEN s.zero_count ELSE @,
                !.ready = @ \/ long,
                !.zero_count = 0]

\* Once a channel is not silent the channels after it do not count as silent.
Tested(frame) == [c \in DOMAIN frame |-> \A d \in 1 .. c : frame[d]]

Sample(s, silent) ==
  LET next == IF silent THEN Silence(s) ELSE Signal(s)
  IN  [next EXCEPT !.total = @ + 1]

ProcessFrame(s, frame) == FoldLeft(Sample, [s EXCEPT !.ready = FALSE], Tested(frame))

\* add_interval_if_ready()
Reported(s) == IF s.ready THEN Append(intervals, s.interval) ELSE intervals

-----------------------------------------------------------------------------
\* SilenceDetector

Init ==
  /\ config \in Configs
  /\ frames = <<>> /\ intervals = <<>>
  /\ status = NewStatus
  /\ phase = "new"

Initialise ==
  /\ phase = "new"
  /\ phase' = "run"
  /\ status' = NewStatus
  /\ UNCHANGED <<config, frames, intervals>>

Process ==
  /\ phase = "run"
  /\ (Len(frames) + 1) * config.channels <= MaxSamples /\ Len(frames) < MaxSamples
  /\ \E frame \in [1 .. config.channels -> BOOLEAN] :
       /\ frames' = Append(frames, frame)
       /\ status' = ProcessFrame(status, frame)
       /\ intervals' = Reported(status')
  /\ UNCHANGED <<config, phase>>

\* A fault: a stretch of silence that lasts to the end is not reported.
FinaliseWithoutFinish ==
  /\ phase = "run"
  /\ phase' = "done"
  /\ UNCHANGED <<config, frames, status, intervals>>

Finalise ==
  /\ phase = "run"
  /\ status' = Signal(status)
  /\ intervals' = Reported(status')
  /\ phase' = "done"
  /\ UNCHANGED <<config, frames>>

Next == Initialise \/ Process \/ Finalise
Spec == Init /\ [][Next]_vars

-----------------------------------------------------------------------------
(***************************************************************************)
(* The reference: maximal runs in the sequence of all tested samples.      *)
(***************************************************************************)
Samples == FlattenSeq([k \in DOMAIN frames |-> Tested(frames[k])])

\* A sample that is not silent, or the end.
Stops(samples, k) == IF k \in DOMAIN samples THEN ~samples[k] ELSE phase = "done"

\* The silences long enough, of which the end is known.
LongSilences ==
  LET samples == Samples
  IN  {i \in [start : 0 .. Len(samples), length : config.minimum_length .. Len(samples)] :
         /\ i.start + i.length <= Len(samples)
         /\ \A k \in i.start + 1 .. i.start + i.length : samples[k]
         /\ i.start = 0 \/ ~samples[i.start]
         /\ Stops(samples, i.start + i.length + 1)}

\* The intervals are the long silences, also when a silence lasts until the
\* end; they come in the order of time and do not touch, and only the last may
\* be there twice, once all samples have been seen.
IntervalsAreSilences ==
  /\ ToSet(intervals) = LongSilences
  /\ \A j, k \in DOMAIN intervals : j < k =>
       \/ intervals[j].start + intervals[j].length < intervals[k].start
       \/ phase = "done" /\ k = Len(intervals) /\ j = k - 1 /\ intervals[j] = intervals[k]

\* One stretch of silence is one interval.  silence_detect.test.cpp:144
\* expects result.size() == 1 of a silence between two stretches of signal.
ReportedOnce ==
  \A j, k \in DOMAIN intervals : intervals[j] = intervals[k] => j = k
=============================================================================
