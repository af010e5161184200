------------------------------- MODULE Windows -------------------------------
(***************************************************************************)
(* transcription_windows (whisper.rs): the audio windows a recording is    *)
(* transcribed in.  Windows and speech segments are pairs of samples, the  *)
(* second exclusive; a window's index is its place in the sequence.        *)
(***************************************************************************)
EXTENDS Integers, Sequences

CONSTANT N_SAMPLES      \* samples of a Whisper window

ASSUME WindowsAssumption == N_SAMPLES \in Nat \ {0}

NoGroup == -1           \* group_start = None

-----------------------------------------------------------------------------
\* The stretch from..to cut every N_SAMPLES.
Pieces(from, to) ==
    [i \in 1..((to - from + N_SAMPLES - 1) \div N_SAMPLES) |->
        LET start == from + (i - 1) * N_SAMPLES IN
        <<start, IF start + N_SAMPLES <= to THEN start + N_SAMPLES ELSE to>>]

FixedAudioWindows(audio_len) == Pieces(0, audio_len)

\* The group so far becomes a window.
Flush(g) == IF g.start = NoGroup THEN g.windows
            ELSE Append(g.windows, <<g.start, g.end>>)

\* Faulty variants of the next two: a group is closed that just fits, and a
\* long segment forgets the group before it.
FitOverflows(g, seg) == g.start # NoGroup /\ seg[2] - g.start >= N_SAMPLES
TakeLongAlone(g, seg) ==
    [windows |-> g.windows \o Pieces(seg[1], seg[2]),
     start |-> NoGroup, end |-> g.end, speech |-> 0]

\* wall_clock_overflow || speech_overflow, which closes a group that is open.
Overflows(g, seg) ==
    /\ g.start # NoGroup
    /\ \/ seg[2] - g.start > N_SAMPLES
       \/ g.speech + (seg[2] - seg[1]) > N_SAMPLES

\* A segment longer than a window is cut into windows of its own.
TakeLong(g, seg) ==
    [windows |-> Flush(g) \o Pieces(seg[1], seg[2]),
     start |-> NoGroup, end |-> g.end,
     speech |-> IF g.start = NoGroup THEN g.speech ELSE 0]

\* Any other joins the group, or starts the next one.
TakeShort(g, seg) ==
    LET open == IF Overflows(g, seg)
                THEN [g EXCEPT !.windows = Flush(g), !.start = NoGroup, !.speech = 0]
                ELSE g
    IN  [open EXCEPT !.start  = IF @ = NoGroup THEN seg[1] ELSE @,
                     !.end    = seg[2],
                     !.speech = @ + (seg[2] - seg[1])]

TakeSegment(g, seg) ==
    IF seg[2] - seg[1] > N_SAMPLES THEN TakeLong(g, seg) ELSE TakeShort(g, seg)

VadAudioWindows(vad_segments) ==
    LET group[i \in 0..Len(vad_segments)] ==
            IF i = 0 THEN [windows |-> <<>>, start |-> NoGroup, end |-> 0, speech |-> 0]
            ELSE TakeSegment(group[i - 1], vad_segments[i])
    IN  Flush(group[Len(vad_segments)])

TranscriptionWindows(audio_len, vad_segments) ==
    IF vad_segments = <<>> THEN FixedAudioWindows(audio_len)
    ELSE VadAudioWindows(vad_segments)
=============================================================================
