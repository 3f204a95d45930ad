-------------------------- MODULE SpeakerDirection --------------------------
(***************************************************************************)
(* Where a voice comes from. angle_reader.py reads the angle the sound     *)
(* sensor has measured and writes it to a file; a thread of the voice      *)
(* assistant (acoustic_direction.py) reads the file and keeps the samples  *)
(* of the last while; the turn that has recognized the wake word, which    *)
(* may take long, asks it for the direction at the time the words were     *)
(* said (log_doa_shadow).                                                  *)
(*                                                                         *)
(* Angles are left out: whether enough samples agree on one is free. Times *)
(* are those of one clock, which no one sets back.                         *)
(***************************************************************************)
EXTENDS Integers

CONSTANTS
  History,     \* history_seconds of the tracker
  WakeWindow,  \* the window of the wake word
  ShortWords,  \* the least and
  LongWords,   \* the greatest window of the whole utterance
  StaleSample, \* stale_after
  MaxMoment    \* bound: the last moment

ASSUME DirectionAssumption ==
  /\ History \in Nat /\ WakeWindow \in Nat /\ StaleSample \in Nat /\ MaxMoment \in Nat \ {0}
  /\ ShortWords \in Nat /\ LongWords \in Nat /\ ShortWords <= LongWords

VARIABLES
  moment,
  angleFile,  \* /run/acoustic-eye/angle.json: its timestamp and whether the angle can be used
  tracker,    \* the identity of the sample read last, the samples kept, and all that were read
  words       \* one turn: what it does, when the words began and ended, the wake word ended;
              \* and of its estimate the end of the window, its length, and the samples used

directionVars == <<moment, angleFile, tracker, words>>

Moments == 1..MaxMoment
NoAngle == [stamp |-> 0, usable |-> FALSE]
Samples == [stamp : Moments, usable : BOOLEAN]
NoWords == [at |-> "quiet", from |-> 0, to |-> 0, wake |-> 0, end |-> 0, span |-> 0, used |-> {}]

DirectionTypeOK ==
  /\ moment \in Moments
  /\ angleFile \in Samples \cup {NoAngle}
  /\ tracker \in [last : 0..MaxMoment, samples : SUBSET Samples, read : SUBSET Samples]
  /\ words \in [at : {"quiet", "speaking", "recognizing", "told"}, from : 0..MaxMoment,
                to : 0..MaxMoment, wake : 0..MaxMoment, end : 0..MaxMoment,
                span : {0, WakeWindow} \cup ShortWords..LongWords, used : SUBSET Samples]

DirectionInit ==
  /\ moment = 1
  /\ angleFile = NoAngle
  /\ tracker = [last |-> 0, samples |-> {}, read |-> {}]
  /\ words = NoWords

-----------------------------------------------------------------------------
(* The reader of the sensor *)

\* main: a packet that is damaged, or fails to be read, is skipped. The time is that of
\* the reading: the sensor may have measured the angle before.
ReadsAngle ==
  /\ angleFile.stamp # moment
  /\ \E usable \in BOOLEAN : angleFile' = [stamp |-> moment, usable |-> usable]
  /\ UNCHANGED <<moment, tracker, words>>

\* The service ends, and its runtime directory with it.
ReaderRestarts ==
  /\ angleFile' = NoAngle
  /\ UNCHANGED <<moment, tracker, words>>

-----------------------------------------------------------------------------
(* AcousticDirectionTracker *)

\* Faulty: only the window of the wake word is kept.
WindowStart == moment - WakeWindow

\* cutoff
Cutoff == moment - History

\* add_sample: what was read before is not added; what is older than the cutoff goes when
\* another is added.
SampleAdded(sample) ==
  /\ sample.stamp # tracker.last
  /\ tracker' = [last |-> sample.stamp,
                 samples |-> {s \in tracker.samples \cup {sample} : s.stamp >= Cutoff},
                 read |-> tracker.read \cup {sample}]

\* _poll and read_once: a file that is not there, or no state, is passed over.
PollsFile ==
  /\ angleFile # NoAngle /\ SampleAdded(angleFile)
  /\ UNCHANGED <<moment, angleFile, words>>

\* estimate: the samples of the window, whether there is a recent one, and those used.
InWindow(samples, end, span) == {s \in samples : s.stamp + span >= end /\ s.stamp <= end}

Recent(end, span) ==
  \E s \in InWindow(tracker.samples, end, span) : end - s.stamp <= StaleSample

UsableOf(samples) == {s \in samples : s.usable}

Usable(end, span) == UsableOf(InWindow(tracker.samples, end, span))

Estimable(end, span) == Recent(end, span) /\ Usable(end, span) # {}

-----------------------------------------------------------------------------
(* The turn *)

\* record_wav_with_vad: speech_started_at
WordsBegin ==
  /\ words.at \in {"quiet", "told"}
  /\ words' = [NoWords EXCEPT !.at = "speaking", !.from = moment]
  /\ UNCHANGED <<moment, angleFile, tracker>>

\* speech_ended_at; the wake word may have ended at any time of the recording.
WordsEnd ==
  /\ words.at = "speaking"
  /\ \E wake \in words.from..moment :
       words' = [words EXCEPT !.at = "recognizing", !.to = moment, !.wake = wake]
  /\ UNCHANGED <<moment, angleFile, tracker>>

\* utterance_window
UtteranceWindow ==
  LET length == words.to - words.from IN
    IF length < ShortWords THEN ShortWords ELSE IF length > LongWords THEN LongWords ELSE length

Told(end, span) ==
  words' = [words EXCEPT !.at = "told", !.end = end, !.span = span, !.used = Usable(end, span)]

\* log_doa_shadow: the window of the wake word, or else of the whole utterance; a window
\* whose samples do not agree is as good as none.
Estimates ==
  /\ words.at = "recognizing"
  /\ \/ Estimable(words.wake, WakeWindow) /\ Told(words.wake, WakeWindow)
     \/ words.to > words.from /\ Estimable(words.to, UtteranceWindow)
        /\ Told(words.to, UtteranceWindow)
     \/ words' = NoWords
  /\ UNCHANGED <<moment, angleFile, tracker>>

MomentPasses ==
  /\ moment < MaxMoment /\ moment' = moment + 1
  /\ UNCHANGED <<angleFile, tracker, words>>

DirectionStep ==
  ReadsAngle \/ ReaderRestarts \/ PollsFile \/ WordsBegin \/ WordsEnd \/ Estimates \/ MomentPasses

DirectionSpec == DirectionInit /\ [][DirectionStep]_directionVars

-----------------------------------------------------------------------------
(* Properties *)

\* The direction of a turn is that of its words: while the recognition takes no longer
\* than the history reaches back, every sample the tracker has read in their window
\* counts, whatever was read since, and nothing else does (voice_chat_demo.py:1155).
DirectionIsOfTheWords ==
  [][words.at = "recognizing" /\ words'.at = "told" /\ moment - words'.end + words'.span <= History =>
       words'.used = UsableOf(InWindow(tracker.read, words'.end, words'.span))
    ]_directionVars
=============================================================================
