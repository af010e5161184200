-------------------------------- MODULE MCVad --------------------------------
(***************************************************************************)
(* segments_from_probs on every stream of speech decisions: audio arrives  *)
(* sample by sample, and the window that is due is judged when it is full  *)
(* or the stream has ended, as by the live scheduler and by                *)
(* vad_segments_with_config; and the windows that transcription_windows    *)
(* makes of the segments.                                                  *)
(***************************************************************************)
EXTENDS VadSegments, Windows, FiniteSets

CONSTANT MaxLen     \* samples (bounds the stream)

VARIABLES audioLen, ended, probs

vadVars == <<audioLen, ended, probs>>

Due == Len(probs) * VadWindow

Init == audioLen = 0 /\ ended = FALSE /\ probs = <<>>

AddAudio ==
    /\ ~ended /\ audioLen < MaxLen
    /\ audioLen' = audioLen + 1
    /\ UNCHANGED <<ended, probs>>

EndAudio ==
    /\ ~ended
    /\ ended' = TRUE
    /\ UNCHANGED <<audioLen, probs>>

JudgeWindow ==
    /\ Due < audioLen
    /\ Due + VadWindow <= audioLen \/ ended
    /\ \E b \in BOOLEAN :
          probs' = Append(probs, [start |-> Due, speech |-> b])
    /\ UNCHANGED <<audioLen, ended>>

Next == AddAudio \/ EndAudio \/ JudgeWindow

Spec == Init /\ [][Next]_vadVars

-----------------------------------------------------------------------------
(* What the segments are, said without the loops of the code.              *)

Speech   == {i \in DOMAIN probs : probs[i].speech}
EndOf(i) == AtMost(probs[i].start + VadWindow, audioLen)

\* Speech windows i < j belong together: no window between two successive
\* speech windows starts MinSilence or more after the end of the first of them.
Together(i, j) ==
    \A k \in i..j : k \notin Speech =>
        LET before == {h \in Speech : h < k} IN
        \A h \in before : (\A g \in before : g <= h) =>
            probs[k].start - EndOf(h) < MinSilence

Utterances ==
    LET Whole(i, j) == /\ i <= j /\ Together(i, j)
                       /\ \A h \in Speech : /\ h < i => ~Together(h, i)
                                            /\ h > j => ~Together(j, h)
    IN  {<<probs[r[1]].start, EndOf(r[2])>> :
            r \in {q \in Speech \X Speech : Whole(q[1], q[2])}}

\* The half samples within SpeechPad of an utterance of MinSpeech or more.
Covered ==
    UNION {2 * AtLeast(u[1] - SpeechPad, 0)..2 * AtMost(u[2] + SpeechPad, audioLen) :
              u \in {v \in Utterances : v[2] - v[1] >= MinSpeech}}

Reference ==
    LET covered == Covered
        Begins == {a \in 0..audioLen : 2 * a \in covered /\ (2 * a - 1) \notin covered}
        Ends   == {b \in 0..audioLen : 2 * b \in covered /\ (2 * b + 1) \notin covered}
    IN  {s \in Begins \X Ends : s[1] <= s[2] /\ 2 * s[1]..2 * s[2] \subseteq covered}

-----------------------------------------------------------------------------
\* segments_from_probs returns the maximal stretches of padded utterances, each
\* once and in order, with a gap between any two of them.
SegmentsAreReference ==
    LET segs == Segments(audioLen, probs) IN
    /\ {segs[i] : i \in DOMAIN segs} = Reference
    /\ \A i \in 1..(Len(segs) - 1) : segs[i][2] < segs[i + 1][1]

\* More audio and more decisions change no segment but the last: a segment
\* that has been announced and dispatched is not taken back or stretched when
\* the scheduler computes the segments anew.
SegmentsAreStable ==
    [][LET segs == Segments(audioLen, probs)
           next == Segments(audioLen', probs')
       IN  /\ Len(segs) <= Len(next)
           /\ \A i \in 1..(Len(segs) - 1) : next[i] = segs[i]
           /\ segs # <<>> => /\ next[Len(segs)][1] = segs[Len(segs)][1]
                             /\ next[Len(segs)][2] >= segs[Len(segs)][2]]_vadVars

-----------------------------------------------------------------------------
(* The windows for what has been found in the audio so far.                *)

SegsNow == Segments(audioLen, probs)
Long(s) == s[2] - s[1] > N_SAMPLES

\* Every sample of speech (of the audio, when there are no segments) is in
\* exactly one window, and every window is one the encoder can take: not empty,
\* not longer than N_SAMPLES, within the audio and after the one before.
SpeechIsCovered ==
    LET segs   == SegsNow
        wins   == TranscriptionWindows(audioLen, segs)
        wanted == IF segs = <<>> THEN 0..(audioLen - 1)
                  ELSE UNION {segs[i][1]..(segs[i][2] - 1) : i \in DOMAIN segs}
    IN  /\ \A i \in DOMAIN wins :
              /\ wins[i][2] - wins[i][1] \in 1..N_SAMPLES
              /\ wins[i][1] >= 0 /\ wins[i][2] <= audioLen
              /\ i > 1 => wins[i - 1][2] <= wins[i][1]
        /\ wanted \subseteq UNION {wins[i][1]..(wins[i][2] - 1) : i \in DOMAIN wins}

\* A window is a piece of a segment that is longer than a window, or it runs
\* from the start of a segment to the end of one and could not have taken in
\* the next segment: none is closed too early or cut in the middle of speech.
WindowsAreFull ==
    LET segs == SegsNow
        wins == TranscriptionWindows(audioLen, segs)
        Piece(w) == \E i \in DOMAIN segs :
                        Long(segs[i]) /\ segs[i][1] <= w[1] /\ w[2] <= segs[i][2]
        Whole(w) ==
            \E i \in DOMAIN segs : \E j \in i..Len(segs) :
                /\ w = <<segs[i][1], segs[j][2]>>
                /\ \A k \in i..j : ~Long(segs[k])
                /\ j < Len(segs) => \/ Long(segs[j + 1])
                                   \/ segs[j + 1][2] - w[1] > N_SAMPLES
    IN  segs # <<>> => \A i \in DOMAIN wins : Piece(wins[i]) \/ Whole(wins[i])
=============================================================================
