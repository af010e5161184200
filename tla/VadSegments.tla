----------------------------- MODULE VadSegments -----------------------------
(***************************************************************************)
(* segments_from_probs (vad.rs): the speech segments that a sequence of    *)
(* voice-activity probabilities stands for.  A probability is a pair of    *)
(* the sample its window starts at and whether it reaches the threshold;   *)
(* segments are pairs of samples, in order.  Lengths are in samples, the   *)
(* four of VadConfig being parameters.                                     *)
(***************************************************************************)
EXTENDS Integers, Sequences

CONSTANTS VadWindow,    \* window_samples
          MinSpeech,    \* ms_to_samples(min_speech_ms)
          MinSilence,   \* ms_to_samples(min_silence_ms)
          SpeechPad     \* ms_to_samples(speech_pad_ms)

ASSUME VadAssumption == /\ VadWindow \in Nat \ {0}
                        /\ {MinSpeech, MinSilence, SpeechPad} \subseteq Nat

AtMost(a, b)  == IF a <= b THEN a ELSE b
AtLeast(a, b) == IF a >= b THEN a ELSE b
Monus(a, b)   == AtLeast(a - b, 0)      \* saturating_sub

Closed == -1    \* current_start = None

-----------------------------------------------------------------------------
\* One probability: speech opens a segment or extends it; a window that
\* starts MinSilence after the end of the last speech closes it.
ScanStep(s, p, len) ==
    IF p.speech
    THEN [s EXCEPT !.start = IF s.start = Closed THEN p.start ELSE @,
                   !.last  = AtMost(p.start + VadWindow, len)]
    ELSE IF s.start # Closed /\ Monus(p.start, s.last) >= MinSilence
    THEN [s EXCEPT !.raw = Append(@, <<s.start, s.last>>), !.start = Closed]
    ELSE s

\* The segment still open after the last probability (and a faulty variant: it
\* lasts to the end of the audio).
OpenToTheEnd(s, len) == <<s.start, len>>
OpenSegment(s, len)  == <<s.start, AtLeast(s.last, s.start)>>

\* All probabilities; a segment still open at the end is kept.
Scan(len, probs) ==
    LET scan[i \in 0..Len(probs)] ==
            IF i = 0 THEN [raw |-> <<>>, start |-> Closed, last |-> 0]
            ELSE ScanStep(scan[i - 1], probs[i], len)
    IN  scan[Len(probs)]

RawSegments(len, probs) ==
    LET s == Scan(len, probs)
    IN  IF s.start = Closed THEN s.raw ELSE Append(s.raw, OpenSegment(s, len))

\* Pad a raw segment, and merge it with the one before when they touch.
MergeStep(merged, r, len) ==
    LET from == Monus(r[1], SpeechPad)
        to   == AtMost(r[2] + SpeechPad, len)
        n    == Len(merged)
    IN  IF n > 0 /\ from <= merged[n][2]
        THEN [merged EXCEPT ![n][2] = AtLeast(@, to)]
        ELSE Append(merged, <<from, to>>)

\* Shorter raw segments are noise (and a faulty variant: so is the shortest
\* speech that is long enough).
LongerThanMin(r) == Monus(r[2], r[1]) > MinSpeech
LongEnough(r)    == Monus(r[2], r[1]) >= MinSpeech

\* Raw segments padded and merged.
Merged(len, raw) ==
    LET merged[i \in 0..Len(raw)] ==
            IF i = 0 THEN <<>>
            ELSE IF LongEnough(raw[i]) THEN MergeStep(merged[i - 1], raw[i], len)
            ELSE merged[i - 1]
    IN  merged[Len(raw)]

Segments(len, probs) == Merged(len, RawSegments(len, probs))
=============================================================================
